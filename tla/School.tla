------------------------------- MODULE School -------------------------------
(***************************************************************************)
(* The organisation side of server.ts: organisations and their admins,     *)
(* teacher, student and parent profiles, classes, subjects, and who        *)
(* teaches what.  Ids stand for rows; a row once there keeps its           *)
(* organisation, so what a handler checks of organisations stays true to   *)
(* its last statement and only the handlers that read something else       *)
(* first take more than one step.                                          *)
(***************************************************************************)
EXTENDS Naturals

CONSTANTS
    Org, User,          \* organizations, users
    Teacher, Student, Parent, Class, Subject,   \* ids of their rows
    Assignment,         \* ids of class_teacher_assignments
    Handler,            \* requests under way that take several statements
    None,               \* null
    MaxSteps            \* bound on the requests of a behaviour

NoneIsNoOrg == None \notin Org \cup User \cup {"ACTIVE", "INACTIVE"}
ProfilesApart == Teacher \cap Student = {} /\ (Teacher \cup Student) \cap Parent = {}
StepBound == MaxSteps \in Nat

VARIABLES
    org,        \* organizations: status
    admin,      \* organization_members with the role that created the organisation
    person,     \* teachers, students_v2 and parent_profiles
    relation,   \* parent_student_relationships
    class,      \* classes
    subject,    \* subjects
    mapping,    \* class_subjects: status per class and subject
    taught,     \* class_subject_teachers
    head,       \* class_teacher_assignments
    call,       \* the handlers
    steps,      \* requests so far
    overlapped  \* history: classes with two designations under way at once

vars == <<org, admin, person, relation, class, subject, mapping, taught, head, call,
          steps, overlapped>>

Status  == {"ACTIVE", "INACTIVE"}
Profile == Teacher \cup Student \cup Parent
OrgStatus   == {"ABSENT", "PENDING", "ACTIVE"}
PersonRow   == [org : Org \cup {None}, user : User \cup {None}, status : Status]
RelationRow == [org : Org, parent : Parent, student : Student, status : Status]
Mapping     == Status \cup {None}
TeachingRow == [org : Org, class : Class, subject : Subject, teacher : Teacher, status : Status]
HeadRow     == [org : Org, class : Class, teacher : Teacher, status : Status]
\* A class or a subject.
Owned   == [org : Org \cup {None}, status : Status]
Absent  == [org |-> None, status |-> "INACTIVE"]
NoHead  == [org |-> None, class |-> None, teacher |-> None, status |-> "INACTIVE"]
Idle    == [op |-> "idle", class |-> None, who |-> None, subjects |-> {}, rows |-> {}]

TypeOK ==
    /\ org \in [Org -> OrgStatus]
    /\ admin \in [Org -> User \cup {None}]
    /\ person \in [Profile -> PersonRow]
    /\ relation \subseteq RelationRow
    /\ class \in [Class -> Owned] /\ subject \in [Subject -> Owned]
    /\ mapping \in [Class \X Subject -> Mapping]
    /\ taught \subseteq TeachingRow
    /\ \A r \in Assignment : head[r] = NoHead \/ head[r] \in HeadRow
    /\ steps \in 0..MaxSteps /\ overlapped \subseteq Class

Init ==
    /\ org = [o \in Org |-> "ABSENT"] /\ admin = [o \in Org |-> None]
    /\ person = [p \in Profile |-> [org |-> None, user |-> None, status |-> "INACTIVE"]]
    /\ relation = {}
    /\ class = [c \in Class |-> Absent] /\ subject = [s \in Subject |-> Absent]
    /\ mapping = [m \in Class \X Subject |-> None]
    /\ taught = {} /\ head = [r \in Assignment |-> NoHead]
    /\ call = [h \in Handler |-> Idle] /\ steps = 0 /\ overlapped = {}

\* A request arrives.
Asked == steps < MaxSteps /\ steps' = steps + 1

\* resolveOrganizationContext and the role check: somebody administers o now.
AdminOf(o) == o # None /\ org[o] = "ACTIVE" /\ admin[o] # None

-----------------------------------------------------------------------------
(* Organisations, profiles, classes and subjects: one statement that counts *)

CreateOrganization(o, u) ==
    /\ Asked /\ org[o] = "ABSENT"
    /\ org' = [org EXCEPT ![o] = "PENDING"]
    /\ admin' = [admin EXCEPT ![o] = u]
    /\ UNCHANGED <<person, relation, class, subject, mapping, taught, head, call, overlapped>>

\* No handler activates an organisation: it is done in the database.
Activate(o) ==
    /\ org[o] = "PENDING"
    /\ org' = [org EXCEPT ![o] = "ACTIVE"]
    /\ UNCHANGED <<admin, person, relation, class, subject, mapping, taught, head, call, steps,
                   overlapped>>

\* One profile of a kind for a user in an organisation, or 409.
CreateProfile(kin, p, o, u) ==
    /\ Asked /\ AdminOf(o) /\ person[p].org = None
    /\ \A q \in kin : ~(person[q].org = o /\ person[q].user = u)
    /\ person' = [person EXCEPT ![p] = [org |-> o, user |-> u, status |-> "ACTIVE"]]
    /\ UNCHANGED <<org, admin, relation, class, subject, mapping, taught, head, call, overlapped>>

CreateTeacher(t, o, u) == CreateProfile(Teacher, t, o, u)
CreateStudent(s, o, u) == CreateProfile(Student, s, o, u)
CreateParent(p, o, u)  == CreateProfile(Parent, p, o, u)

SetProfileStatus(p, st) ==
    /\ Asked /\ AdminOf(person[p].org) /\ person[p].status # st
    /\ person' = [person EXCEPT ![p].status = st]
    /\ UNCHANGED <<org, admin, relation, class, subject, mapping, taught, head, call, overlapped>>

SetTeacherStatus(t, st) == SetProfileStatus(t, st)
SetStudentStatus(s, st) == SetProfileStatus(s, st)
SetParentStatus(p, st)  == SetProfileStatus(p, st)

CreateClass(c, o) ==
    /\ Asked /\ AdminOf(o) /\ class[c] = Absent
    /\ class' = [class EXCEPT ![c] = [org |-> o, status |-> "ACTIVE"]]
    /\ UNCHANGED <<org, admin, person, relation, subject, mapping, taught, head, call, overlapped>>

SetClassStatus(c, st) ==
    /\ Asked /\ AdminOf(class[c].org) /\ class[c].status # st
    /\ class' = [class EXCEPT ![c].status = st]
    /\ UNCHANGED <<org, admin, person, relation, subject, mapping, taught, head, call, overlapped>>

CreateSubject(s, o) ==
    /\ Asked /\ AdminOf(o) /\ subject[s] = Absent
    /\ subject' = [subject EXCEPT ![s] = [org |-> o, status |-> "ACTIVE"]]
    /\ UNCHANGED <<org, admin, person, relation, class, mapping, taught, head, call, overlapped>>

SetSubjectStatus(s, st) ==
    /\ Asked /\ AdminOf(subject[s].org) /\ subject[s].status # st
    /\ subject' = [subject EXCEPT ![s].status = st]
    /\ UNCHANGED <<org, admin, person, relation, class, mapping, taught, head, call, overlapped>>

-----------------------------------------------------------------------------
(* Parents and the students they represent *)

\* Mutant: the student is looked up by id alone.
RelateAcross(p, s) ==
    /\ Asked /\ AdminOf(person[p].org) /\ person[s].org # None
    /\ ~\E r \in relation : r.parent = p /\ r.student = s
    /\ relation' = relation \cup
         {[org |-> person[p].org, parent |-> p, student |-> s, status |-> "ACTIVE"]}
    /\ UNCHANGED <<org, admin, person, class, subject, mapping, taught, head, call, overlapped>>

Relate(p, s) ==
    /\ Asked /\ AdminOf(person[p].org) /\ person[s].org = person[p].org
    /\ ~\E r \in relation : r.parent = p /\ r.student = s
    /\ relation' = relation \cup
         {[org |-> person[p].org, parent |-> p, student |-> s, status |-> "ACTIVE"]}
    /\ UNCHANGED <<org, admin, person, class, subject, mapping, taught, head, call, overlapped>>

SetRelation(r, st) ==
    /\ Asked /\ AdminOf(r.org) /\ r \in relation /\ r.status # st
    /\ relation' = (relation \ {r}) \cup {[r EXCEPT !.status = st]}
    /\ UNCHANGED <<org, admin, person, class, subject, mapping, taught, head, call, overlapped>>

-----------------------------------------------------------------------------
(* Subjects of a class and their teachers *)

\* What a request brings and has read, kept for its later statements.
Enter(h, op, c, who, ss) ==
    /\ call[h] = Idle
    /\ call' = [call EXCEPT ![h] = [op |-> op, class |-> c, who |-> who, subjects |-> ss,
                                    rows |-> {}]]

Leave(h) == call' = [call EXCEPT ![h] = Idle]

Fits(c, ss) == AdminOf(class[c].org) /\ \A s \in ss : subject[s].org = class[c].org

\* One subject: what is stored now decides what the second statement will be.
AskMapping(h, c, s) ==
    /\ Asked /\ Fits(c, {s}) /\ mapping[<<c, s>>] # "ACTIVE"
    /\ Enter(h, IF mapping[<<c, s>>] = None THEN "insert" ELSE "reactivate", c, None, {s})
    /\ UNCHANGED <<org, admin, person, relation, class, subject, mapping, taught, head, overlapped>>

\* The UPDATE goes by id; the INSERT of a row that is there by now is a 409.
WriteMapping(h) ==
    /\ call[h].op \in {"insert", "reactivate"}
    /\ \E s \in call[h].subjects :
         mapping' = IF call[h].op = "insert" /\ mapping[<<call[h].class, s>>] # None
                    THEN mapping ELSE [mapping EXCEPT ![<<call[h].class, s>>] = "ACTIVE"]
    /\ Leave(h)
    /\ UNCHANGED <<org, admin, person, relation, class, subject, taught, head, steps, overlapped>>

\* Several subjects: one upsert after the other, no transaction around them.
AskBulk(h, c, ss) ==
    /\ Asked /\ ss # {} /\ Fits(c, ss)
    /\ Enter(h, "bulk", c, None, ss)
    /\ UNCHANGED <<org, admin, person, relation, class, subject, mapping, taught, head, overlapped>>

WriteBulk(h) ==
    /\ call[h].op = "bulk"
    /\ \E s \in call[h].subjects :
         /\ mapping' = [mapping EXCEPT ![<<call[h].class, s>>] = "ACTIVE"]
         /\ call' = [call EXCEPT ![h] =
              IF call[h].subjects = {s} THEN Idle ELSE [call[h] EXCEPT !.subjects = @ \ {s}]]
    /\ UNCHANGED <<org, admin, person, relation, class, subject, taught, head, steps, overlapped>>

\* Mutant: the mapping is deleted.
DeleteMapping(c, s) ==
    /\ Asked /\ Fits(c, {s}) /\ mapping[<<c, s>>] = "ACTIVE"
    /\ mapping' = [mapping EXCEPT ![<<c, s>>] = None]
    /\ UNCHANGED <<org, admin, person, relation, class, subject, taught, head, call, overlapped>>

RemoveMapping(c, s) ==
    /\ Asked /\ Fits(c, {s}) /\ mapping[<<c, s>>] = "ACTIVE"
    /\ mapping' = [mapping EXCEPT ![<<c, s>>] = "INACTIVE"]
    /\ UNCHANGED <<org, admin, person, relation, class, subject, taught, head, call, overlapped>>

\* The subject has to be mapped; whether the mapping is active is not asked.
AskTeaching(h, c, s, t) ==
    /\ Asked /\ Fits(c, {s}) /\ person[t].org = class[c].org /\ mapping[<<c, s>>] # None
    /\ Enter(h, "teach", c, t, {s})
    /\ UNCHANGED <<org, admin, person, relation, class, subject, mapping, taught, head, overlapped>>

WriteTeaching(h) ==
    /\ call[h].op = "teach"
    /\ taught' = taught \cup
         {[org |-> class[call[h].class].org, class |-> call[h].class, subject |-> s,
           teacher |-> call[h].who, status |-> "ACTIVE"] : s \in call[h].subjects}
    /\ Leave(h)
    /\ UNCHANGED <<org, admin, person, relation, class, subject, mapping, head, steps, overlapped>>

EndTeaching(r) ==
    /\ Asked /\ AdminOf(r.org) /\ r \in taught /\ r.status = "ACTIVE"
    /\ taught' = (taught \ {r}) \cup {[r EXCEPT !.status = "INACTIVE"]}
    /\ UNCHANGED <<org, admin, person, relation, class, subject, mapping, head, call, overlapped>>

-----------------------------------------------------------------------------
(* The class teacher: a transaction of an UPDATE and an upsert *)

HeadsOf(c)    == {r \in Assignment : head[r].class = c /\ head[r].status = "ACTIVE"}
Others(c, t)  == {r \in HeadsOf(c) : head[r].teacher # t}
LockedBy(h)   == IF call[h].op = "put" THEN call[h].rows ELSE {}
Free(h, rows) == \A g \in Handler \ {h} : LockedBy(g) \cap rows = {}

Designating(c) == {h \in Handler : call[h].op \in {"clear", "wait", "put"} /\ call[h].class = c}

AskDesignation(h, c, t) ==
    /\ Asked /\ AdminOf(class[c].org) /\ person[t].org = class[c].org
    /\ Enter(h, "clear", c, t, {})
    /\ overlapped' = IF Designating(c) # {} THEN overlapped \cup {c} ELSE overlapped
    /\ UNCHANGED <<org, admin, person, relation, class, subject, mapping, taught, head>>

\* The UPDATE sees the active rows of this moment; it waits for those that another
\* transaction has changed and, when it goes on, leaves out what no longer fits.
Clear(h) ==
    LET rows == Others(call[h].class, call[h].who) IN
    /\ call[h].op = "clear"
    /\ call' = [call EXCEPT ![h].op = IF Free(h, rows) THEN "put" ELSE "wait", ![h].rows = rows]
    /\ UNCHANGED <<org, admin, person, relation, class, subject, mapping, taught, head, steps,
                   overlapped>>

Resume(h) ==
    /\ call[h].op = "wait" /\ Free(h, call[h].rows)
    /\ call' = [call EXCEPT ![h].op = "put",
                            ![h].rows = @ \cap Others(call[h].class, call[h].who)]
    /\ UNCHANGED <<org, admin, person, relation, class, subject, mapping, taught, head, steps,
                   overlapped>>

Cleared(h) == [r \in Assignment |-> IF r \in call[h].rows
                              THEN [head[r] EXCEPT !.status = "INACTIVE"] ELSE head[r]]

\* Mutant: the row is inserted without regard to the active one.
PutBeside(h) ==
    LET c == call[h].class IN
    /\ call[h].op = "put"
    /\ \E r \in Assignment :
         /\ head[r] = NoHead
         /\ head' = [Cleared(h) EXCEPT ![r] = [org |-> class[c].org, class |-> c,
                                                teacher |-> call[h].who, status |-> "ACTIVE"]]
    /\ Leave(h)
    /\ UNCHANGED <<org, admin, person, relation, class, subject, mapping, taught, steps, overlapped>>

\* Mutant: the UPDATE is left out, the upsert does it all.
PutOver(h) ==
    LET c == call[h].class IN
    /\ call[h].op = "put"
    /\ \E r \in Assignment :
         /\ IF HeadsOf(c) = {} THEN head[r] = NoHead ELSE r \in HeadsOf(c)
         /\ head' = [head EXCEPT ![r] = [org |-> class[c].org, class |-> c,
                                          teacher |-> call[h].who, status |-> "ACTIVE"]]
    /\ Leave(h)
    /\ UNCHANGED <<org, admin, person, relation, class, subject, mapping, taught, steps, overlapped>>

\* The upsert and COMMIT: an active row that is still there is taken over.
Put(h) ==
    LET c == call[h].class  left == HeadsOf(c) \ call[h].rows IN
    /\ call[h].op = "put" /\ Free(h, HeadsOf(c))
    /\ \E r \in Assignment :
         /\ IF left = {} THEN head[r] = NoHead ELSE r \in left
         /\ head' = [Cleared(h) EXCEPT ![r] = [org |-> class[c].org, class |-> c,
                                                teacher |-> call[h].who, status |-> "ACTIVE"]]
    /\ Leave(h)
    /\ UNCHANGED <<org, admin, person, relation, class, subject, mapping, taught, steps, overlapped>>

\* A statement fails or the server stops: a transaction leaves nothing behind, the
\* upserts of a bulk request stay.
Fail(h) ==
    /\ Asked /\ call[h] # Idle
    /\ Leave(h)
    /\ UNCHANGED <<org, admin, person, relation, class, subject, mapping, taught, head, overlapped>>

Administer ==
    \/ \E o \in Org : Activate(o) \/ \E u \in User : CreateOrganization(o, u)
    \/ \E o \in Org, u \in User : \/ \E t \in Teacher : CreateTeacher(t, o, u)
                                 \/ \E s \in Student : CreateStudent(s, o, u)
                                 \/ \E p \in Parent : CreateParent(p, o, u)
    \/ \E st \in Status : \/ \E t \in Teacher : SetTeacherStatus(t, st)
                          \/ \E s \in Student : SetStudentStatus(s, st)
                          \/ \E p \in Parent : SetParentStatus(p, st)
    \/ \E c \in Class : \/ \E o \in Org : CreateClass(c, o)
                        \/ \E st \in Status : SetClassStatus(c, st)
    \/ \E s \in Subject : \/ \E o \in Org : CreateSubject(s, o)
                          \/ \E st \in Status : SetSubjectStatus(s, st)
    \/ \E p \in Parent, s \in Student : Relate(p, s)
    \/ \E r \in relation, st \in Status : SetRelation(r, st)
    \/ \E c \in Class, s \in Subject : RemoveMapping(c, s)
    \/ \E r \in taught : EndTeaching(r)

Staff(h) ==
    \/ \E c \in Class, s \in Subject : AskMapping(h, c, s)
    \/ \E c \in Class : \E ss \in SUBSET Subject : AskBulk(h, c, ss)
    \/ \E c \in Class, s \in Subject, t \in Teacher : AskTeaching(h, c, s, t)
    \/ \E c \in Class, t \in Teacher : AskDesignation(h, c, t)
    \/ WriteMapping(h) \/ WriteBulk(h) \/ WriteTeaching(h)
    \/ Clear(h) \/ Resume(h) \/ Put(h) \/ Fail(h)

Next == Administer \/ \E h \in Handler : Staff(h)

Spec == Init /\ [][Next]_vars

-----------------------------------------------------------------------------
(* What the listings show *)

\* GET /api/classes/:id/teachers and /subject-teachers: filtered by the class's organisation
ListClassTeachers(c)   == {r \in Assignment : head[r].class = c /\ head[r].org = class[c].org}
ListSubjectTeachers(c) == {r \in taught : r.class = c /\ r.org = class[c].org /\ r.status = "ACTIVE"}
\* GET /api/classes/:id/subjects
ListClassSubjects(c)   == {s \in Subject : mapping[<<c, s>>] = "ACTIVE" /\ subject[s].org = class[c].org}
\* GET .../parents/:id/students and .../students/:id/parents
ListStudentsOf(p) == {r \in relation : r.parent = p /\ r.org = person[p].org}
ListParentsOf(s)  == {r \in relation : r.student = s /\ r.org = person[s].org}

-----------------------------------------------------------------------------
(* Properties *)

\* Every link between two rows is seen from both its ends: the filter by organisation
\* hides nothing, and nothing leads into another organisation.
LinksSeenFromBothEnds ==
    /\ \A r \in relation : r \in ListStudentsOf(r.parent) \cap ListParentsOf(r.student)
    /\ \A c \in Class, s \in Subject : mapping[<<c, s>>] = "ACTIVE" => s \in ListClassSubjects(c)
    /\ \A r \in taught : r.status = "ACTIVE" =>
         r \in ListSubjectTeachers(r.class) /\ person[r.teacher].org = class[r.class].org
    /\ \A r \in Assignment : head[r] # NoHead =>
         r \in ListClassTeachers(head[r].class) /\ person[head[r].teacher].org = head[r].org

\* A class has one class teacher, however designations overlap.
OneClassTeacher == \A c \in Class : \A r, q \in HeadsOf(c) : r = q

\* A subject has a teacher in a class only if it was mapped to the class.
TaughtIsMapped == \A r \in taught : mapping[<<r.class, r.subject>>] # None

\* A designation stays on record: its row is ended, never given to another teacher,
\* unless two designations of the class overlapped.
DesignationsRemembered ==
    \A r \in Assignment : head[r] # NoHead /\ head[r].class \notin overlapped
      => head'[r].teacher = head[r].teacher
=============================================================================
