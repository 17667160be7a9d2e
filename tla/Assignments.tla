---------------------------- MODULE Assignments -----------------------------
(***************************************************************************)
(* Assignments of one subject and the students' submissions                *)
(* (modules/academic/assignments).                                         *)
(*                                                                         *)
(* The lifecycle moves by guarded UPDATEs, each one step with the reads    *)
(* before it, which only decide the message.  Creating and editing read    *)
(* first and write later, an edit the whole row without a guard.  Titles,  *)
(* texts, curriculum nodes and the teacher's authority are left out.       *)
(***************************************************************************)
EXTENDS Naturals

CONSTANTS
    Assignment, Class, Student,
    Teacher,    \* requests of teachers under way
    None        \* null

VARIABLES
    row,        \* assignments
    work,       \* submissions: the decision on each
    subject,    \* class_subjects: the row that maps the subject to a class
    enrolled,   \* student_enrollments that are ACTIVE (none ends)
    draft,      \* the requests that create or edit: what they will write
    moved       \* history: assignments whose class an edit changed after publication

vars == <<row, work, subject, enrolled, draft, moved>>

Status   == {"DRAFT", "PUBLISHED", "OPEN", "CLOSED"}
Deadline == {None, "ahead", "over"}
AssignmentRow == [status : Status, class : Class, due : Deadline]
Decision == {"ACCEPTED", "REDO_REQUIRED"}
NoRow    == [status |-> None, class |-> None, due |-> None]
NoDraft  == [of |-> None, class |-> None, due |-> None]

NoneIsNothing ==
    None \notin Assignment \cup Class \cup Status \cup Decision
                 \cup {"unread", "ACTIVE", "INACTIVE", "ahead", "over"}

TypeOK ==
    /\ \A a \in Assignment : row[a] = NoRow \/ row[a] \in AssignmentRow
    /\ work \in [Assignment \X Student -> {None, "unread"} \cup Decision]
    /\ subject \in [Class -> {None, "ACTIVE", "INACTIVE"}]
    /\ enrolled \subseteq Student \X Class
    /\ draft \in [Teacher -> [of : Assignment \cup {None}, class : Class \cup {None},
                              due : Deadline]]
    /\ moved \subseteq Assignment

Init ==
    /\ row = [a \in Assignment |-> NoRow]
    /\ work = [x \in Assignment \X Student |-> None]
    /\ subject = [c \in Class |-> None] /\ enrolled = {}
    /\ draft = [t \in Teacher |-> NoDraft] /\ moved = {}

Submitted(a, s) == work[<<a, s>>] # None

-----------------------------------------------------------------------------
(* Around: mappings and enrolments (School, Enrolment), and time *)

MapSubject(c, st) ==
    /\ subject' = [subject EXCEPT ![c] = st]
    /\ UNCHANGED <<row, work, enrolled, draft, moved>>

UnmapAny(c) ==      \* mutant: no foreign key
    /\ subject' = [subject EXCEPT ![c] = None]
    /\ UNCHANGED <<row, work, enrolled, draft, moved>>

\* assignments_class_subject_fk restricts the delete.
UnmapSubject(c) ==
    /\ \A a \in Assignment : row[a].class # c
    /\ subject' = [subject EXCEPT ![c] = None]
    /\ UNCHANGED <<row, work, enrolled, draft, moved>>

Enrol(s, c) ==
    /\ enrolled' = enrolled \cup {<<s, c>>}
    /\ UNCHANGED <<row, work, subject, draft, moved>>

PassDeadline(a) ==
    /\ row[a].due = "ahead" /\ row' = [row EXCEPT ![a].due = "over"]
    /\ UNCHANGED <<work, subject, enrolled, draft, moved>>

-----------------------------------------------------------------------------
(* Teachers *)

Open(t, a, c, due) ==
    /\ draft[t] = NoDraft /\ subject[c] = "ACTIVE"
    /\ draft' = [draft EXCEPT ![t] = [of |-> a, class |-> c, due |-> due]]
    /\ UNCHANGED <<row, work, subject, enrolled, moved>>

\* create: the subject is active in the class when it is checked.
BeginCreate(t, a, c, due) ==
    /\ row[a] = NoRow /\ \A u \in Teacher : draft[u].of # a
    /\ Open(t, a, c, due)

BeginAnyUpdate(t, a, c, due) ==     \* mutant: the status is not asked for
    row[a] # NoRow /\ Open(t, a, c, due)

\* update: a draft when it is read.  What the form leaves out is taken from the row read.
BeginUpdate(t, a, c, due) ==
    /\ row[a].status = "DRAFT"
    /\ due \in {None, "ahead", row[a].due}
    /\ Open(t, a, c, due)

Written(t, status) ==
    LET a == draft[t].of IN
    /\ subject[draft[t].class] # None
    /\ row' = [row EXCEPT ![a] = [status |-> status, class |-> draft[t].class, due |-> draft[t].due]]
    /\ draft' = [draft EXCEPT ![t] = NoDraft]
    /\ UNCHANGED <<work, subject, enrolled>>

\* createAssignment and updateAssignment, under the foreign key.
Create(t) ==
    /\ draft[t] # NoDraft /\ row[draft[t].of] = NoRow
    /\ Written(t, "DRAFT") /\ UNCHANGED moved

Update(t) ==
    LET a == draft[t].of IN
    /\ draft[t] # NoDraft /\ row[a] # NoRow
    /\ Written(t, row[a].status)
    /\ moved' = IF row[a].status # "DRAFT" /\ row[a].class # draft[t].class
                THEN moved \cup {a} ELSE moved

\* The foreign key, or any other failure.
WriteFails(t) ==
    /\ draft[t] # NoDraft /\ draft' = [draft EXCEPT ![t] = NoDraft]
    /\ UNCHANGED <<row, work, subject, enrolled, moved>>

Move(a, from, to) ==
    /\ row[a].status = from /\ row' = [row EXCEPT ![a].status = to]
    /\ UNCHANGED <<work, subject, enrolled, draft, moved>>

Publish(a)  == Move(a, "DRAFT", "PUBLISHED")
OpenIt(a)   == Move(a, "PUBLISHED", "OPEN")
Close(a)    == Move(a, "OPEN", "CLOSED")

\* setSubmissionDecision, which asks for nothing but the row: decided work is decided again.
SetDecision(a, s, decision) ==
    /\ Submitted(a, s) /\ work' = [work EXCEPT ![<<a, s>>] = decision]

\* recordReviewDecision, in whatever state the assignment is.
Decide(a, s, decision) ==
    SetDecision(a, s, decision) /\ UNCHANGED <<row, subject, enrolled, draft, moved>>

-----------------------------------------------------------------------------
(* Students: createSubmission decides in the statement that inserts.  Work is *)
(* handed in once: the unique index refuses a second, whatever was decided.   *)

\* listOpenAssignmentsForStudent and getOpenAssignmentForStudent: what a student is shown.
Shown(a, s) == row[a].status = "OPEN" /\ <<s, row[a].class>> \in enrolled

InsertAnywhere(a, s) ==     \* mutant: the enrolment is not part of the INSERT
    /\ row[a].status = "OPEN" /\ ~Submitted(a, s)
    /\ work' = [work EXCEPT ![<<a, s>>] = "unread"]

InsertOver(a, s) ==         \* mutant: an upsert
    /\ row[a].status = "OPEN" /\ <<s, row[a].class>> \in enrolled
    /\ work' = [work EXCEPT ![<<a, s>>] = "unread"]

\* createSubmission: INSERT ... SELECT under the unique index.
Insert(a, s) ==
    /\ row[a].status = "OPEN" /\ <<s, row[a].class>> \in enrolled /\ ~Submitted(a, s)
    /\ work' = [work EXCEPT ![<<a, s>>] = "unread"]

Submit(a, s) == Insert(a, s) /\ UNCHANGED <<row, subject, enrolled, draft, moved>>

\* getCompletion and getOverdue answer for the class the assignment has now.
Asks(a, s)      == row[a].status \in {"OPEN", "CLOSED"} /\ <<s, row[a].class>> \in enrolled
Completed(a, s) == Asks(a, s) /\ Submitted(a, s)
Overdue(a, s)   == Asks(a, s) /\ row[a].due = "over" /\ ~Submitted(a, s)

Next ==
    \/ \E c \in Class, st \in {"ACTIVE", "INACTIVE"} : MapSubject(c, st)
    \/ \E c \in Class : UnmapSubject(c)
    \/ \E s \in Student, c \in Class : Enrol(s, c)
    \/ \E a \in Assignment : PassDeadline(a) \/ Publish(a) \/ OpenIt(a) \/ Close(a)
    \/ \E t \in Teacher, a \in Assignment, c \in Class, due \in Deadline :
         BeginCreate(t, a, c, due) \/ BeginUpdate(t, a, c, due)
    \/ \E t \in Teacher : Create(t) \/ Update(t) \/ WriteFails(t)
    \/ \E a \in Assignment, s \in Student :
         \/ Submit(a, s)
         \/ \E d \in Decision : Decide(a, s, d)

Spec == Init /\ [][Next]_vars

-----------------------------------------------------------------------------
\* What a student handed in shows as completed to them, and the assignment with it while it
\* is open, unless a stale edit moved it to another class under the work: each query of
\* repository.ts decides for itself who is asked, and updateAssignment has no guard.
WorkBelongs ==
    \A a \in Assignment \ moved, s \in Student :
      Submitted(a, s) => Completed(a, s) /\ (row[a].status = "OPEN" => Shown(a, s))

\* Work that was handed in is never handed in again or lost, and is only taken while
\* the assignment is open, whatever edits and closings run beside it.
WorkKept ==
    \A a \in Assignment, s \in Student :
      work[<<a, s>>]' # work[<<a, s>>] =>
         IF Submitted(a, s) THEN work[<<a, s>>]' \in Decision
                            ELSE row[a].status = "OPEN"

\* A published assignment changes its class or its deadline only by an edit that had read
\* it as a draft: when those are through, it is settled (requireEditable in update).
EditsSettle ==
    \A a \in Assignment :
      /\ row[a].status \notin {None, "DRAFT"} =>
           \A t \in Teacher : draft[t]'.of = a => draft[t] = draft[t]'
      /\ row[a].status \notin {None, "DRAFT"} /\ row[a].class # row[a]'.class =>
           \E t \in Teacher : draft[t].of = a /\ draft[t]' = NoDraft

\* The class of an assignment always has its subject, though nothing holds the mapping
\* between the check and the write, nor after it, but the foreign key.
SubjectMapped ==
    \A a \in Assignment : row[a] # NoRow => subject[row[a].class] # None
=============================================================================
