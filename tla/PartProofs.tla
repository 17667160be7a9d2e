------------------------------ MODULE PartProofs ------------------------------
(***************************************************************************)
(* What holds of the components that the composite models run one at a     *)
(* time, for any number of rows, of overlapping requests and of events.    *)
(*                                                                         *)
(* A school and its curriculum: links are seen from both their ends and a  *)
(* class has one class teacher; it never has two authoritative syllabi;    *)
(* the copies of a dataset are of what was published, which stays; titles  *)
(* that were compared are distinct; what students see was approved.  Of    *)
(* enrolment, no account is left half registered and no year is entered    *)
(* twice, and the uses of an invitation are those it let in.  A            *)
(* tool run: what it reports of its child is what became of it, and its    *)
(* output is all there or marked truncated.  Studies: periods, events and  *)
(* assignments keep what they refer to; handed-in work stays; what is      *)
(* reported of homework was so while the report was made.                  *)
(*                                                                         *)
(* The ten components share nothing, so each has an invariant of its own:  *)
(* Governed, Admitted with Metered, Settled, Faithful, Compared, Approved, *)
(* Reported with Counted, Booked, HandedIn and Told.  Most of these        *)
(* requests decide in one step and write in another, and the invariant     *)
(* says what is still true of the decision then; Reported says what has    *)
(* happened to a child whose time is up; Told says what a report has seen  *)
(* so far of tables that go on changing.                                   *)
(***************************************************************************)
EXTENDS Naturals, Sequences, SequenceTheorems, FiniteSetTheorems, TLAPS

CONSTANTS
    None, Handler,
    Org, User, Teacher, Student, Parent, Class, Subject, Assignment, MaxSteps,    \* School
    Seeded, Year, Invite, Enrol, MaxUses, MaxCalls,     \* Enrolment, with User and Class
    Syllabus, Code,                         \* Syllabi
    Key, Config, Version, MaxCopies,        \* ReferenceData
    Structure, Linked, Node, Name,          \* Chapters
    Resource, Topic, Title,                 \* Resources
    MaxOutput, MaxChunk, MaxProduced,       \* ProcessRunner
    Period, Event, LastDay, Dates,          \* Calendars
    Homework, Group, Pupil,                 \* Assignments
    DueWork, DueClass, MaxNow               \* Timeliness

VARIABLES
    org, admin, person, relation, class, subject, mapping, taught, head, schoolCall, steps,
    overlapped,
    account, studentMember, profile, yearClass, invite, enrol, current, enrolCall, enrolSteps,
    raced,
    active, code, chosen, work, lock, syllabusCall,
    status, checksum, loaded, copies, source, datasetCall,
    mapped, link, node, chapterCall, loose,
    res, resourceCall, stale,
    child, timer, timedOut, signals, produced, captured, truncated, outcome,
    calendarScope, calendarStatus, periodRow, eventPeriod, calendarCall,
    assignmentRow, submission, classSubject, pupils, editDraft, movedOn,
    dueRow, classesNow, teachingNow, clock, reader, begun, counts

Sch == INSTANCE School WITH call <- schoolCall
Enr == INSTANCE Enrolment WITH
    user <- account, member <- studentMember, class <- yearClass, call <- enrolCall,
    steps <- enrolSteps, MaxSteps <- MaxCalls
Syl == INSTANCE Syllabi WITH call <- syllabusCall
Ref == INSTANCE ReferenceData WITH node <- loaded, call <- datasetCall
Cha == INSTANCE Chapters WITH
    subject <- link, call <- chapterCall, Subject <- Linked, Title <- Name
Lib == INSTANCE Resources WITH call <- resourceCall
Run == INSTANCE ProcessRunner
Cal == INSTANCE Calendars WITH
    scope <- calendarScope, status <- calendarStatus, period <- periodRow, event <- eventPeriod,
    call <- calendarCall
Ass == INSTANCE Assignments WITH
    row <- assignmentRow, work <- submission, subject <- classSubject, enrolled <- pupils,
    draft <- editDraft, moved <- movedOn, Assignment <- Homework, Class <- Group,
    Student <- Pupil, Teacher <- Handler
Tim == INSTANCE Timeliness WITH
    row <- dueRow, enrolled <- classesNow, teaching <- teachingNow, now <- clock,
    Assignment <- DueWork, Class <- DueClass

-----------------------------------------------------------------------------
(* School *)

SchoolCall == [op : {"idle", "insert", "reactivate", "bulk", "teach", "clear", "wait", "put"},
               class : Class \cup {None}, who : Teacher \cup {None},
               subjects : SUBSET Subject, rows : SUBSET Assignment]

SchoolTyped ==
    /\ Sch!TypeOK
    /\ head \in [Assignment -> Sch!HeadRow \cup {Sch!NoHead}]
    /\ schoolCall \in [Handler -> SchoolCall]

\* The two ends of a link are in one organisation, which neither of them ever leaves.
RelationsInside ==
    \A r \in relation : person[r.parent].org = r.org /\ person[r.student].org = r.org
MappingsInside ==
    \A c \in Class, s \in Subject :
        mapping[<<c, s>>] # None => class[c].org # None /\ subject[s].org = class[c].org
TeachingsInside ==
    \A r \in taught : /\ class[r.class].org = r.org /\ person[r.teacher].org = r.org
                      /\ mapping[<<r.class, r.subject>>] # None
HeadsInside ==
    \A r \in Assignment : head[r] # Sch!NoHead =>
        class[head[r].class].org = head[r].org /\ person[head[r].teacher].org = head[r].org

Inside == RelationsInside /\ MappingsInside /\ TeachingsInside /\ HeadsInside

\* What a request under way has checked is still so.
Claim(c) ==
    c.op # "idle" =>
      /\ c.class \in Class /\ class[c.class].org # None
      /\ c.op \in {"insert", "reactivate", "bulk", "teach"} =>
           \A s \in c.subjects : subject[s].org = class[c.class].org
      /\ c.op = "teach" => \A s \in c.subjects : mapping[<<c.class, s>>] # None
      /\ c.op \in {"teach", "clear", "wait", "put"} =>
           c.who \in Teacher /\ person[c.who].org = class[c.class].org
      /\ \A r \in c.rows : head[r] # Sch!NoHead

Claims == \A h \in Handler : Claim(schoolCall[h])

SingleHead == \A c \in Class : \A r, q \in Sch!HeadsOf(c) : r = q

\* Two designations of one class at once are written down.
Noted ==
    \A g, h \in Handler :
      /\ g # h /\ schoolCall[g].class = schoolCall[h].class
      /\ {schoolCall[g].op, schoolCall[h].op} \subseteq {"clear", "wait", "put"}
      => schoolCall[h].class \in overlapped

\* A designation alone in its class has got every active row that is another teacher's.
Covered ==
    \A h \in Handler :
      schoolCall[h].op \in {"wait", "put"} /\ schoolCall[h].class \notin overlapped
      => Sch!Others(schoolCall[h].class, schoolCall[h].who) \subseteq schoolCall[h].rows

Governed == SchoolTyped /\ Inside /\ Claims /\ SingleHead /\ Noted /\ Covered

LEMMA InitGoverned ==
    ASSUME Sch!NoneIsNoOrg, Sch!StepBound, Sch!Init
    PROVE  Governed
<1>1. SchoolTyped
    <2>1. Sch!Idle \in SchoolCall
        BY DEF Sch!Idle, SchoolCall
    <2>2. schoolCall \in [Handler -> SchoolCall] /\ head \in [Assignment -> Sch!HeadRow \cup {Sch!NoHead}]
        BY <2>1 DEF Sch!Init
    <2>3. Sch!TypeOK
        BY DEF Sch!Init, Sch!TypeOK, Sch!OrgStatus, Sch!PersonRow, Sch!Status, Sch!Owned,
            Sch!Absent,
               Sch!Mapping, Sch!StepBound
    <2> QED BY <2>2, <2>3 DEF SchoolTyped
<1>2. Inside
    BY DEF Sch!Init, Inside, RelationsInside, MappingsInside, TeachingsInside, HeadsInside
<1>3. Claims /\ Noted /\ Covered
    BY DEF Sch!Init, Claims, Claim, Noted, Covered, Sch!Idle
<1>4. SingleHead
    BY DEF Sch!Init, SingleHead, Sch!HeadsOf, Sch!NoHead
<1> QED BY <1>1, <1>2, <1>3, <1>4 DEF Governed

\* Rows stay in their organisation.
OrgsStay ==
    /\ \A p \in Sch!Profile : person[p].org # None => person'[p].org = person[p].org
    /\ \A c \in Class : class[c].org # None => class'[c].org = class[c].org
    /\ \A s \in Subject : subject[s].org # None => subject'[s].org = subject[s].org

\* A step on profiles, classes and subjects alone.
LEMMA RowsGoverned ==
    ASSUME Sch!NoneIsNoOrg, Governed, Sch!TypeOK', OrgsStay,
           UNCHANGED <<relation, mapping, taught, head, schoolCall, overlapped>>
    PROVE  Governed'
<1>1. SchoolTyped'
    BY DEF Governed, SchoolTyped
<1>2. RelationsInside'
    BY DEF Governed, SchoolTyped, Inside, RelationsInside, Sch!TypeOK, Sch!RelationRow, OrgsStay,
        Sch!Profile, Sch!NoneIsNoOrg
<1>3. MappingsInside'
    BY DEF Governed, Inside, MappingsInside, OrgsStay
<1>4. TeachingsInside'
    <2> SUFFICES ASSUME NEW r \in taught
                 PROVE  /\ class'[r.class].org = r.org /\ person'[r.teacher].org = r.org
                        /\ mapping[<<r.class, r.subject>>] # None
        BY DEF TeachingsInside
    <2>1. r.org \in Org /\ r.class \in Class /\ r.teacher \in Sch!Profile
        BY DEF Governed, SchoolTyped, Sch!TypeOK, Sch!TeachingRow, Sch!Profile
    <2> QED BY <2>1 DEF Governed, Inside, TeachingsInside, OrgsStay, Sch!NoneIsNoOrg
<1>5. HeadsInside'
    <2> SUFFICES ASSUME NEW r \in Assignment, head[r] # Sch!NoHead
                 PROVE  class'[head[r].class].org = head[r].org /\ person'[head[r].teacher].org = head[r].org
        BY DEF HeadsInside
    <2>1. head[r].org \in Org /\ head[r].class \in Class /\ head[r].teacher \in Sch!Profile
        BY DEF Governed, SchoolTyped, Sch!HeadRow, Sch!Profile
    <2> QED BY <2>1 DEF Governed, Inside, HeadsInside, OrgsStay, Sch!NoneIsNoOrg
<1>6. Claims'
    <2> SUFFICES ASSUME NEW h \in Handler
                 PROVE  Claim(schoolCall[h])'
        BY DEF Claims
    <2>1. schoolCall[h] \in SchoolCall /\ Claim(schoolCall[h])
        BY DEF Governed, SchoolTyped, Claims
    <2> QED BY <2>1 DEF Claim, SchoolCall, OrgsStay, Sch!Profile
<1>7. SingleHead' /\ Noted' /\ Covered'
    BY DEF Governed, SingleHead, Noted, Covered, Sch!HeadsOf, Sch!Others
<1> QED BY <1>1, <1>2, <1>3, <1>4, <1>5, <1>6, <1>7 DEF Governed, Inside

LEMMA ProfileCreated ==
    ASSUME Sch!NoneIsNoOrg, Sch!StepBound, Governed, NEW kin, NEW p \in Sch!Profile,
           NEW o \in Org, NEW u \in User, Sch!CreateProfile(kin, p, o, u)
    PROVE  Governed'
<1>1. Sch!TypeOK'
    BY DEF Governed, SchoolTyped, Sch!CreateProfile, Sch!Asked, Sch!TypeOK, Sch!PersonRow,
        Sch!Status, Sch!StepBound
<1>2. OrgsStay
    BY DEF Governed, SchoolTyped, Sch!CreateProfile, Sch!TypeOK, OrgsStay
<1> QED BY <1>1, <1>2, RowsGoverned DEF Sch!CreateProfile

LEMMA ProfileStatusSet ==
    ASSUME Sch!NoneIsNoOrg, Sch!StepBound, Governed, NEW p \in Sch!Profile,
           NEW st \in Sch!Status, Sch!SetProfileStatus(p, st)
    PROVE  Governed'
<1> DEFINE row == [person[p] EXCEPT !.status = st]
<1>1. person[p] \in Sch!PersonRow /\ Sch!TypeOK
    BY DEF Governed, SchoolTyped, Sch!TypeOK
<1>2. row \in Sch!PersonRow /\ row.org = person[p].org
    BY <1>1 DEF Sch!PersonRow
<1>3. person' = [person EXCEPT ![p] = row]
    BY DEF Sch!SetProfileStatus
<1> HIDE DEF row
<1>4. Sch!TypeOK'
    BY <1>1, <1>2, <1>3 DEF Sch!SetProfileStatus, Sch!Asked, Sch!TypeOK, Sch!StepBound
<1>5. OrgsStay
    BY <1>1, <1>2, <1>3 DEF Sch!SetProfileStatus, Sch!TypeOK, OrgsStay
<1> QED BY <1>4, <1>5, RowsGoverned DEF Sch!SetProfileStatus

LEMMA ClassChanged ==
    ASSUME Sch!NoneIsNoOrg, Sch!StepBound, Governed, NEW c \in Class,
           \/ \E o \in Org : Sch!CreateClass(c, o)
           \/ \E st \in Sch!Status : Sch!SetClassStatus(c, st)
    PROVE  Governed'
<1>1. Sch!TypeOK /\ class[c] \in Sch!Owned
    BY DEF Governed, SchoolTyped, Sch!TypeOK
<1>2. PICK row \in Sch!Owned : /\ class' = [class EXCEPT ![c] = row]
                               /\ class[c].org # None => row.org = class[c].org
    <2>1. ASSUME NEW o \in Org, Sch!CreateClass(c, o)
          PROVE  \E row \in Sch!Owned : /\ class' = [class EXCEPT ![c] = row]
                                        /\ class[c].org # None => row.org = class[c].org
        <3> DEFINE row == [org |-> o, status |-> "ACTIVE"]
        <3>1. row \in Sch!Owned
            BY DEF Sch!Owned, Sch!Status
        <3>2. class' = [class EXCEPT ![c] = row] /\ class[c].org = None
            BY <2>1 DEF Sch!CreateClass, Sch!Absent
        <3> HIDE DEF row
        <3> QED BY <3>1, <3>2
    <2>2. ASSUME NEW st \in Sch!Status, Sch!SetClassStatus(c, st)
          PROVE  \E row \in Sch!Owned : /\ class' = [class EXCEPT ![c] = row]
                                        /\ class[c].org # None => row.org = class[c].org
        <3> DEFINE row == [class[c] EXCEPT !.status = st]
        <3>1. row \in Sch!Owned /\ row.org = class[c].org
            BY <1>1 DEF Sch!Owned
        <3>2. class' = [class EXCEPT ![c] = row]
            BY <2>2 DEF Sch!SetClassStatus
        <3> HIDE DEF row
        <3> QED BY <3>1, <3>2
    <2> QED BY <2>1, <2>2
<1>3. /\ steps' \in 0..MaxSteps
      /\ UNCHANGED <<org, admin, person, relation, subject, mapping, taught, head, schoolCall, overlapped>>
    BY <1>1 DEF Sch!CreateClass, Sch!SetClassStatus, Sch!Asked, Sch!TypeOK, Sch!StepBound
<1>4. Sch!TypeOK' /\ OrgsStay
    BY <1>1, <1>2, <1>3 DEF Sch!TypeOK, OrgsStay
<1> QED BY <1>3, <1>4, RowsGoverned

LEMMA SubjectChanged ==
    ASSUME Sch!NoneIsNoOrg, Sch!StepBound, Governed, NEW s \in Subject,
           \/ \E o \in Org : Sch!CreateSubject(s, o)
           \/ \E st \in Sch!Status : Sch!SetSubjectStatus(s, st)
    PROVE  Governed'
<1>1. Sch!TypeOK /\ subject[s] \in Sch!Owned
    BY DEF Governed, SchoolTyped, Sch!TypeOK
<1>2. PICK row \in Sch!Owned : /\ subject' = [subject EXCEPT ![s] = row]
                               /\ subject[s].org # None => row.org = subject[s].org
    <2>1. ASSUME NEW o \in Org, Sch!CreateSubject(s, o)
          PROVE  \E row \in Sch!Owned : /\ subject' = [subject EXCEPT ![s] = row]
                                        /\ subject[s].org # None => row.org = subject[s].org
        <3> DEFINE row == [org |-> o, status |-> "ACTIVE"]
        <3>1. row \in Sch!Owned
            BY DEF Sch!Owned, Sch!Status
        <3>2. subject' = [subject EXCEPT ![s] = row] /\ subject[s].org = None
            BY <2>1 DEF Sch!CreateSubject, Sch!Absent
        <3> HIDE DEF row
        <3> QED BY <3>1, <3>2
    <2>2. ASSUME NEW st \in Sch!Status, Sch!SetSubjectStatus(s, st)
          PROVE  \E row \in Sch!Owned : /\ subject' = [subject EXCEPT ![s] = row]
                                        /\ subject[s].org # None => row.org = subject[s].org
        <3> DEFINE row == [subject[s] EXCEPT !.status = st]
        <3>1. row \in Sch!Owned /\ row.org = subject[s].org
            BY <1>1 DEF Sch!Owned
        <3>2. subject' = [subject EXCEPT ![s] = row]
            BY <2>2 DEF Sch!SetSubjectStatus
        <3> HIDE DEF row
        <3> QED BY <3>1, <3>2
    <2> QED BY <2>1, <2>2
<1>3. /\ steps' \in 0..MaxSteps
      /\ UNCHANGED <<org, admin, person, relation, class, mapping, taught, head, schoolCall, overlapped>>
    BY <1>1 DEF Sch!CreateSubject, Sch!SetSubjectStatus, Sch!Asked, Sch!TypeOK, Sch!StepBound
<1>4. Sch!TypeOK' /\ OrgsStay
    BY <1>1, <1>2, <1>3 DEF Sch!TypeOK, OrgsStay
<1> QED BY <1>3, <1>4, RowsGoverned

LEMMA OrganizationChanged ==
    ASSUME Sch!NoneIsNoOrg, Sch!StepBound, Governed, NEW o \in Org,
           Sch!Activate(o) \/ \E u \in User : Sch!CreateOrganization(o, u)
    PROVE  Governed'
<1>1. Sch!TypeOK' /\ OrgsStay
    BY DEF Governed, SchoolTyped, Sch!Activate, Sch!CreateOrganization, Sch!Asked, Sch!TypeOK,
        OrgsStay,
           Sch!OrgStatus, Sch!StepBound
<1> QED BY <1>1, RowsGoverned DEF Sch!Activate, Sch!CreateOrganization

\* A step on relations or on teachings alone.
LEMMA LinksGoverned ==
    ASSUME Governed, Sch!TypeOK', RelationsInside', TeachingsInside',
           UNCHANGED <<person, class, subject, mapping, head, schoolCall, overlapped>>
    PROVE  Governed'
<1>1. SchoolTyped' /\ MappingsInside' /\ HeadsInside'
    BY DEF Governed, SchoolTyped, Inside, MappingsInside, HeadsInside
<1>2. Claims'
    BY DEF Governed, Claims, Claim
<1>3. SingleHead' /\ Noted' /\ Covered'
    BY DEF Governed, SingleHead, Noted, Covered, Sch!HeadsOf, Sch!Others
<1> QED BY <1>1, <1>2, <1>3 DEF Governed, Inside

LEMMA RelationChanged ==
    ASSUME Sch!NoneIsNoOrg, Sch!StepBound, Governed,
           \/ \E p \in Parent, s \in Student : Sch!Relate(p, s)
           \/ \E r \in relation, st \in Sch!Status : Sch!SetRelation(r, st)
    PROVE  Governed'
<1>1. Sch!TypeOK /\ RelationsInside /\ TeachingsInside
    BY DEF Governed, SchoolTyped, Inside
<1>2. /\ steps' \in 0..MaxSteps
      /\ UNCHANGED <<org, admin, person, class, subject, mapping, taught, head, schoolCall, overlapped>>
    BY <1>1 DEF Sch!Relate, Sch!SetRelation, Sch!Asked, Sch!TypeOK, Sch!StepBound
<1>3. relation' \subseteq Sch!RelationRow /\ RelationsInside'
    <2>1. ASSUME NEW p \in Parent, NEW s \in Student, Sch!Relate(p, s)
          PROVE  relation' \subseteq Sch!RelationRow /\ RelationsInside'
        <3> DEFINE r == [org |-> person[p].org, parent |-> p, student |-> s, status |-> "ACTIVE"]
        <3>1. person[p].org \in Org /\ person[s].org = person[p].org
            BY <1>1, <2>1 DEF Sch!Relate, Sch!AdminOf, Sch!TypeOK, Sch!Profile, Sch!PersonRow
        <3>2. r \in Sch!RelationRow /\ person[r.parent].org = r.org /\ person[r.student].org = r.org
            BY <3>1 DEF Sch!RelationRow, Sch!Status
        <3>3. relation' = relation \cup {r}
            BY <2>1 DEF Sch!Relate
        <3> HIDE DEF r
        <3> QED BY <1>1, <1>2, <3>2, <3>3 DEF Sch!TypeOK, RelationsInside
    <2>2. ASSUME NEW r \in relation, NEW st \in Sch!Status, Sch!SetRelation(r, st)
          PROVE  relation' \subseteq Sch!RelationRow /\ RelationsInside'
        <3> DEFINE q == [r EXCEPT !.status = st]
        <3>1. q \in Sch!RelationRow /\ q.org = r.org /\ q.parent = r.parent /\ q.student = r.student
            BY <1>1 DEF Sch!TypeOK, Sch!RelationRow
        <3>2. relation' = (relation \ {r}) \cup {q}
            BY <2>2 DEF Sch!SetRelation
        <3> HIDE DEF q
        <3> QED BY <1>1, <1>2, <3>1, <3>2 DEF Sch!TypeOK, RelationsInside
    <2> QED BY <2>1, <2>2
<1>4. Sch!TypeOK' /\ TeachingsInside'
    BY <1>1, <1>2, <1>3 DEF Sch!TypeOK, TeachingsInside
<1> QED BY <1>2, <1>3, <1>4, LinksGoverned

LEMMA TeachingEnded ==
    ASSUME Sch!StepBound, Governed, NEW r \in taught, Sch!EndTeaching(r)
    PROVE  Governed'
<1> DEFINE q == [r EXCEPT !.status = "INACTIVE"]
<1>1. Sch!TypeOK /\ RelationsInside /\ TeachingsInside
    BY DEF Governed, SchoolTyped, Inside
<1>2. /\ q \in Sch!TeachingRow /\ q.org = r.org /\ q.class = r.class
      /\ q.subject = r.subject /\ q.teacher = r.teacher
    BY <1>1 DEF Sch!TypeOK, Sch!TeachingRow, Sch!Status
<1>3. taught' = (taught \ {r}) \cup {q}
    BY DEF Sch!EndTeaching
<1> HIDE DEF q
<1>4. RelationsInside' /\ TeachingsInside'
    BY <1>1, <1>2, <1>3 DEF Sch!EndTeaching, RelationsInside, TeachingsInside
<1>5. Sch!TypeOK'
    BY <1>1, <1>2, <1>3 DEF Sch!EndTeaching, Sch!Asked, Sch!TypeOK, Sch!StepBound
<1> QED BY <1>4, <1>5, LinksGoverned DEF Sch!EndTeaching

\* Designations under way.
Designates(c) == c.op \in {"clear", "wait", "put"}

\* A step in which one request goes on, and which may also map subjects or give them teachers.
LEMMA CallGoverned ==
    ASSUME Governed, NEW h \in Handler, NEW c \in SchoolCall, Claim(c)',
           schoolCall' = [schoolCall EXCEPT ![h] = c], UNCHANGED <<person, relation, class, subject, head>>,
           Sch!TypeOK', MappingsInside', TeachingsInside',
           \A m \in Class \X Subject : mapping[m] # None => mapping'[m] # None,
           overlapped \subseteq overlapped',
           Designates(c) => \A g \in Handler \ {h} :
               Designates(schoolCall[g]) /\ schoolCall[g].class = c.class => c.class \in overlapped',
           c.op \in {"wait", "put"} /\ c.class \notin overlapped' =>
               Sch!Others(c.class, c.who) \subseteq c.rows
    PROVE  Governed'
<1>1. /\ schoolCall'[h] = c /\ \A g \in Handler \ {h} : schoolCall'[g] = schoolCall[g]
      /\ schoolCall' \in [Handler -> SchoolCall]
    BY DEF Governed, SchoolTyped
<1>2. SchoolTyped' /\ RelationsInside' /\ HeadsInside'
    BY <1>1 DEF Governed, SchoolTyped, Inside, RelationsInside, HeadsInside
<1>3. Claims'
    <2> SUFFICES ASSUME NEW g \in Handler \ {h}
                 PROVE  Claim(schoolCall[g])'
        BY <1>1 DEF Claims, Claim
    <2>1. schoolCall[g] \in SchoolCall /\ Claim(schoolCall[g]) /\ schoolCall'[g] = schoolCall[g]
        BY <1>1 DEF Governed, SchoolTyped, Claims
    <2>2. schoolCall[g].op = "teach" =>
            \A s \in schoolCall[g].subjects : <<schoolCall[g].class, s>> \in Class \X Subject
        BY <2>1 DEF Claim, SchoolCall
    <2> QED BY <2>1, <2>2 DEF Claim
<1>4. SingleHead'
    BY DEF Governed, SingleHead, Sch!HeadsOf
<1>5. Noted'
    <2> SUFFICES ASSUME NEW g \in Handler, NEW k \in Handler, g # k,
                        schoolCall'[g].class = schoolCall'[k].class,
                        Designates(schoolCall'[g]), Designates(schoolCall'[k])
                 PROVE  schoolCall'[k].class \in overlapped'
        BY DEF Noted, Designates
    <2>1. CASE g # h /\ k # h
        BY <1>1, <2>1 DEF Governed, Noted, Designates
    <2>2. CASE g = h \/ k = h
        BY <1>1, <2>2
    <2> QED BY <2>1, <2>2
<1>6. Covered'
    <2>1. \A k, t : Sch!Others(k, t)' = Sch!Others(k, t)
        BY DEF Sch!Others, Sch!HeadsOf
    <2> QED BY <1>1, <2>1 DEF Governed, Covered
<1> QED BY <1>2, <1>3, <1>4, <1>5, <1>6 DEF Governed, Inside

\* A request comes in, and is like no designation before it.
LEMMA AskGoverned ==
    ASSUME Sch!NoneIsNoOrg, Sch!StepBound, Governed, NEW h \in Handler,
           \/ \E c \in Class, s \in Subject : Sch!AskMapping(h, c, s)
           \/ \E c \in Class : \E ss \in SUBSET Subject : Sch!AskBulk(h, c, ss)
           \/ \E c \in Class, s \in Subject, t \in Teacher : Sch!AskTeaching(h, c, s, t)
    PROVE  Governed'
<1>1. Sch!TypeOK /\ MappingsInside /\ TeachingsInside
    BY DEF Governed, SchoolTyped, Inside
<1>2. /\ steps' \in 0..MaxSteps
      /\ UNCHANGED <<org, admin, person, relation, class, subject, mapping, taught, head, overlapped>>
    <2>1. /\ Sch!Asked
          /\ UNCHANGED <<org, admin, person, relation, class, subject, mapping, taught, head, overlapped>>
        BY DEF Sch!AskMapping, Sch!AskBulk, Sch!AskTeaching
    <2> QED BY <1>1, <2>1 DEF Sch!Asked, Sch!TypeOK, Sch!StepBound
<1>3. PICK c : /\ c \in SchoolCall /\ Claim(c)' /\ c.op \in {"insert", "reactivate", "bulk", "teach"}
              /\ schoolCall' = [schoolCall EXCEPT ![h] = c]
    <2>1. ASSUME NEW op \in {"insert", "reactivate", "bulk", "teach"}, NEW k \in Class,
                 NEW who \in Teacher \cup {None}, NEW ss \in SUBSET Subject,
                 Sch!Fits(k, ss), Sch!Enter(h, op, k, who, ss),
                 op = "teach" => /\ who \in Teacher /\ person[who].org = class[k].org
                                 /\ \A s \in ss : mapping[<<k, s>>] # None
          PROVE  \E c : /\ c \in SchoolCall /\ Claim(c)' /\ c.op \in {"insert", "reactivate", "bulk", "teach"}
                       /\ schoolCall' = [schoolCall EXCEPT ![h] = c]
        <3>1. PICK c : c = [op |-> op, class |-> k, who |-> who, subjects |-> ss, rows |-> {}]
            OBVIOUS
        <3>2. c.op = op /\ c.class = k /\ c.who = who /\ c.subjects = ss /\ c.rows = {}
            BY <3>1
        <3>3. c \in SchoolCall
            BY <3>1 DEF SchoolCall
        <3>4. Claim(c)'
            BY <1>2, <2>1, <3>2 DEF Claim, Sch!Fits, Sch!AdminOf
        <3> QED BY <2>1, <3>1, <3>2, <3>3, <3>4 DEF Sch!Enter
    <2>2. ASSUME NEW k \in Class, NEW s \in Subject, Sch!AskMapping(h, k, s)
          PROVE  \E c : /\ c \in SchoolCall /\ Claim(c)' /\ c.op \in {"insert", "reactivate", "bulk", "teach"}
                       /\ schoolCall' = [schoolCall EXCEPT ![h] = c]
        <3>1. Sch!Fits(k, {s}) /\ (Sch!Enter(h, "insert", k, None, {s}) \/ Sch!Enter(h, "reactivate", k, None, {s}))
            BY <2>2 DEF Sch!AskMapping
        <3> QED BY <2>1, <3>1
    <2>3. ASSUME NEW k \in Class, NEW ss \in SUBSET Subject, Sch!AskBulk(h, k, ss)
          PROVE  \E c : /\ c \in SchoolCall /\ Claim(c)' /\ c.op \in {"insert", "reactivate", "bulk", "teach"}
                       /\ schoolCall' = [schoolCall EXCEPT ![h] = c]
        BY <2>1, <2>3 DEF Sch!AskBulk
    <2>4. ASSUME NEW k \in Class, NEW s \in Subject, NEW t \in Teacher, Sch!AskTeaching(h, k, s, t)
          PROVE  \E c : /\ c \in SchoolCall /\ Claim(c)' /\ c.op \in {"insert", "reactivate", "bulk", "teach"}
                       /\ schoolCall' = [schoolCall EXCEPT ![h] = c]
        BY <2>1, <2>4 DEF Sch!AskTeaching
    <2> QED BY <2>2, <2>3, <2>4
<1>4. Sch!TypeOK' /\ MappingsInside' /\ TeachingsInside'
    BY <1>1, <1>2 DEF Sch!TypeOK, MappingsInside, TeachingsInside
<1> QED BY <1>2, <1>3, <1>4, CallGoverned DEF Designates

LEMMA DesignationAsked ==
    ASSUME Sch!NoneIsNoOrg, Sch!StepBound, Governed, NEW h \in Handler, NEW k \in Class, NEW t \in Teacher,
           Sch!AskDesignation(h, k, t)
    PROVE  Governed'
<1>1. Sch!TypeOK /\ MappingsInside /\ TeachingsInside
    BY DEF Governed, SchoolTyped, Inside
<1>2. /\ steps' \in 0..MaxSteps /\ overlapped' \subseteq Class /\ overlapped \subseteq overlapped'
      /\ UNCHANGED <<org, admin, person, relation, class, subject, mapping, taught, head>>
    BY <1>1 DEF Sch!AskDesignation, Sch!Asked, Sch!TypeOK, Sch!StepBound
<1>3. PICK c : c = [op |-> "clear", class |-> k, who |-> t, subjects |-> {}, rows |-> {}]
    OBVIOUS
<1>4. c.op = "clear" /\ c.class = k /\ c.who = t /\ c.subjects = {} /\ c.rows = {} /\ c \in SchoolCall
    BY <1>3 DEF SchoolCall
<1>5. Claim(c)' /\ schoolCall' = [schoolCall EXCEPT ![h] = c]
    BY <1>2, <1>3, <1>4 DEF Claim, Sch!AskDesignation, Sch!Enter, Sch!AdminOf
<1>6. \A g \in Handler \ {h} : Designates(schoolCall[g]) /\ schoolCall[g].class = c.class => c.class \in overlapped'
    BY <1>4 DEF Sch!AskDesignation, Sch!Designating, Designates
<1>7. Sch!TypeOK' /\ MappingsInside' /\ TeachingsInside'
    BY <1>1, <1>2 DEF Sch!TypeOK, MappingsInside, TeachingsInside
<1> QED BY <1>2, <1>4, <1>5, <1>6, <1>7, CallGoverned

LEMMA FailGoverned ==
    ASSUME Sch!StepBound, Governed, NEW h \in Handler, Sch!Fail(h)
    PROVE  Governed'
<1>1. Sch!TypeOK /\ MappingsInside /\ TeachingsInside
    BY DEF Governed, SchoolTyped, Inside
<1>2. PICK c : c = Sch!Idle
    OBVIOUS
<1>3. c.op = "idle" /\ c \in SchoolCall /\ Claim(c)'
    BY <1>2 DEF Sch!Idle, SchoolCall, Claim
<1>4. Sch!TypeOK' /\ MappingsInside' /\ TeachingsInside'
    BY <1>1 DEF Sch!Fail, Sch!Asked, Sch!TypeOK, Sch!StepBound, MappingsInside, TeachingsInside
<1>5. schoolCall' = [schoolCall EXCEPT ![h] = c]
    BY <1>2 DEF Sch!Fail, Sch!Leave
<1> QED BY <1>3, <1>4, <1>5, CallGoverned DEF Designates, Sch!Fail

\* What mapping a subject, or the next of several, leaves behind.
LEMMA MappingWritten ==
    ASSUME Sch!NoneIsNoOrg, Governed, NEW h \in Handler, Sch!WriteMapping(h) \/ Sch!WriteBulk(h)
    PROVE  Governed'
<1> DEFINE old == schoolCall[h]
<1>1. Sch!TypeOK /\ MappingsInside /\ TeachingsInside /\ old \in SchoolCall /\ Claim(old)
    BY DEF Governed, SchoolTyped, Inside, Claims
<1>2. /\ old.op \in {"insert", "reactivate", "bulk"}
      /\ UNCHANGED <<org, admin, person, relation, class, subject, taught, head, steps, overlapped>>
    BY DEF Sch!WriteMapping, Sch!WriteBulk
<1>3. PICK s \in old.subjects :
        /\ mapping' = mapping \/ mapping' = [mapping EXCEPT ![<<old.class, s>>] = "ACTIVE"]
        /\ schoolCall' = [schoolCall EXCEPT ![h] =
             IF old.op = "bulk" /\ old.subjects # {s} THEN [old EXCEPT !.subjects = @ \ {s}] ELSE Sch!Idle]
    <2>1. CASE Sch!WriteMapping(h)
        BY <2>1 DEF Sch!WriteMapping, Sch!Leave
    <2>2. CASE Sch!WriteBulk(h)
        BY <2>2 DEF Sch!WriteBulk
    <2> QED BY <2>1, <2>2
<1>4. /\ old.class \in Class /\ s \in Subject /\ class[old.class].org # None
      /\ subject[s].org = class[old.class].org
    BY <1>1, <1>2 DEF Claim, SchoolCall
<1>5. <<old.class, s>> \in Class \X Subject
    BY <1>4
<1>6. /\ mapping' \in [Class \X Subject -> Sch!Mapping]
      /\ \A m \in Class \X Subject : mapping[m] # None => mapping'[m] # None
    BY <1>1, <1>3, <1>5 DEF Sch!TypeOK, Sch!Mapping, Sch!Status, Sch!NoneIsNoOrg
<1>7. Sch!TypeOK'
    BY <1>1, <1>2, <1>6 DEF Sch!TypeOK
<1>8. MappingsInside'
    <2> SUFFICES ASSUME NEW k \in Class, NEW q \in Subject, mapping'[<<k, q>>] # None
                 PROVE  class[k].org # None /\ subject[q].org = class[k].org
        BY <1>2 DEF MappingsInside
    <2>1. CASE mapping'[<<k, q>>] = mapping[<<k, q>>]
        BY <1>1, <2>1 DEF MappingsInside
    <2>2. CASE mapping'[<<k, q>>] # mapping[<<k, q>>]
        <3>1. <<k, q>> = <<old.class, s>>
            BY <1>1, <1>3, <2>2 DEF Sch!TypeOK
        <3> QED BY <1>4, <3>1
    <2> QED BY <2>1, <2>2
<1>9. TeachingsInside'
    <2> SUFFICES ASSUME NEW r \in taught
                 PROVE  mapping'[<<r.class, r.subject>>] # None
        BY <1>1, <1>2 DEF TeachingsInside
    <2>1. r.class \in Class /\ r.subject \in Subject
        BY <1>1 DEF Sch!TypeOK, Sch!TeachingRow
    <2> QED BY <1>1, <1>6, <2>1 DEF TeachingsInside
<1>10. PICK c : c = IF old.op = "bulk" /\ old.subjects # {s} THEN [old EXCEPT !.subjects = @ \ {s}] ELSE Sch!Idle
    OBVIOUS
<1>11. c \in SchoolCall /\ Claim(c)' /\ c.op \in {"bulk", "idle"}
    <2>1. CASE old.op = "bulk" /\ old.subjects # {s}
        <3>1. c = [old EXCEPT !.subjects = old.subjects \ {s}]
            BY <1>10, <2>1
        <3>2. /\ c \in SchoolCall /\ c.op = "bulk" /\ c.class = old.class
              /\ c.subjects = old.subjects \ {s} /\ c.rows = old.rows
            BY <1>1, <2>1, <3>1 DEF SchoolCall
        <3> QED BY <1>1, <1>2, <2>1, <3>2 DEF Claim
    <2>2. CASE ~(old.op = "bulk" /\ old.subjects # {s})
        BY <1>10, <2>2 DEF Sch!Idle, SchoolCall, Claim
    <2> QED BY <2>1, <2>2
<1>12. schoolCall' = [schoolCall EXCEPT ![h] = c]
    BY <1>3, <1>10
<1> QED BY <1>2, <1>6, <1>7, <1>8, <1>9, <1>11, <1>12, CallGoverned DEF Designates

\* A removed mapping stays as a row: nobody's subject or teacher goes with it.
LEMMA MappingRemoved ==
    ASSUME Sch!NoneIsNoOrg, Sch!StepBound, Governed, NEW k \in Class, NEW s \in Subject, Sch!RemoveMapping(k, s)
    PROVE  Governed'
<1>1. Sch!TypeOK /\ Inside /\ <<k, s>> \in Class \X Subject
    BY DEF Governed, SchoolTyped
<1>2. /\ mapping' = [mapping EXCEPT ![<<k, s>>] = "INACTIVE"] /\ mapping[<<k, s>>] = "ACTIVE"
      /\ steps' \in 0..MaxSteps
      /\ UNCHANGED <<org, admin, person, relation, class, subject, taught, head, schoolCall, overlapped>>
    BY <1>1 DEF Sch!RemoveMapping, Sch!Asked, Sch!TypeOK, Sch!StepBound
<1>3. /\ mapping' \in [Class \X Subject -> Sch!Mapping]
      /\ \A m \in Class \X Subject : mapping[m] # None <=> mapping'[m] # None
    BY <1>1, <1>2 DEF Sch!TypeOK, Sch!Mapping, Sch!Status, Sch!NoneIsNoOrg
<1>4. SchoolTyped'
    BY <1>2, <1>3 DEF Governed, SchoolTyped, Sch!TypeOK
<1>5. \A c \in Class, q \in Subject : mapping[<<c, q>>] # None <=> mapping'[<<c, q>>] # None
    BY <1>3
<1>6. Inside'
    BY <1>1, <1>2, <1>5
    DEF Inside, RelationsInside, MappingsInside, TeachingsInside, HeadsInside, Sch!TypeOK, Sch!TeachingRow
<1>7. Claims'
    <2> SUFFICES ASSUME NEW h \in Handler PROVE Claim(schoolCall[h])'
        BY DEF Claims
    <2>1. schoolCall[h] \in SchoolCall /\ Claim(schoolCall[h]) /\ schoolCall' = schoolCall
        BY <1>2 DEF Governed, SchoolTyped, Claims
    <2> QED BY <1>2, <1>5, <2>1 DEF Claim, SchoolCall
<1>8. SingleHead' /\ Noted' /\ Covered'
    BY <1>2 DEF Governed, SingleHead, Noted, Covered, Sch!HeadsOf, Sch!Others
<1> QED BY <1>4, <1>6, <1>7, <1>8 DEF Governed

LEMMA TeachingWritten ==
    ASSUME Sch!NoneIsNoOrg, Governed, NEW h \in Handler, Sch!WriteTeaching(h)
    PROVE  Governed'
<1> DEFINE old == schoolCall[h]
           added == {[org |-> class[old.class].org, class |-> old.class, subject |-> s,
                      teacher |-> old.who, status |-> "ACTIVE"] : s \in old.subjects}
<1>1. Sch!TypeOK /\ MappingsInside /\ TeachingsInside /\ old \in SchoolCall /\ Claim(old)
    BY DEF Governed, SchoolTyped, Inside, Claims
<1>2. /\ old.op = "teach" /\ taught' = taught \cup added
      /\ UNCHANGED <<org, admin, person, relation, class, subject, mapping, head, steps, overlapped>>
    BY DEF Sch!WriteTeaching
<1>3. /\ old.class \in Class /\ class[old.class].org \in Org /\ old.who \in Teacher
      /\ person[old.who].org = class[old.class].org /\ old.subjects \subseteq Subject
      /\ \A s \in old.subjects : mapping[<<old.class, s>>] # None
    BY <1>1, <1>2 DEF Claim, SchoolCall, Sch!TypeOK, Sch!Owned
<1>4. \A r \in added : /\ r \in Sch!TeachingRow
                        /\ class[r.class].org = r.org /\ person[r.teacher].org = r.org
                        /\ mapping[<<r.class, r.subject>>] # None
    <2> SUFFICES ASSUME NEW s \in old.subjects, NEW r,
                        r = [org |-> class[old.class].org, class |-> old.class, subject |-> s,
                             teacher |-> old.who, status |-> "ACTIVE"]
                 PROVE  /\ r \in Sch!TeachingRow
                        /\ class[r.class].org = r.org /\ person[r.teacher].org = r.org
                        /\ mapping[<<r.class, r.subject>>] # None
        OBVIOUS
    <2> QED BY <1>3 DEF Sch!TeachingRow, Sch!Status
<1> HIDE DEF added
<1>5. Sch!TypeOK' /\ TeachingsInside' /\ MappingsInside'
    BY <1>1, <1>2, <1>4 DEF Sch!TypeOK, TeachingsInside, MappingsInside
<1>6. PICK c : c = Sch!Idle
    OBVIOUS
<1>7. c.op = "idle" /\ c \in SchoolCall /\ Claim(c)'
    BY <1>6 DEF Sch!Idle, SchoolCall, Claim
<1>8. schoolCall' = [schoolCall EXCEPT ![h] = c]
    BY <1>6 DEF Sch!WriteTeaching, Sch!Leave
<1> QED BY <1>2, <1>5, <1>7, <1>8, CallGoverned DEF Designates

\* The rows that a designation ends, or waits for, are there.
LEMMA ClearGoverned ==
    ASSUME Sch!NoneIsNoOrg, Governed, NEW h \in Handler, Sch!Clear(h) \/ Sch!Resume(h)
    PROVE  Governed'
<1> DEFINE old == schoolCall[h]
           others == Sch!Others(old.class, old.who)
<1>1. Sch!TypeOK /\ MappingsInside /\ TeachingsInside /\ old \in SchoolCall /\ Claim(old)
    BY DEF Governed, SchoolTyped, Inside, Claims
<1>2. /\ old.op \in {"clear", "wait"}
      /\ UNCHANGED <<org, admin, person, relation, class, subject, mapping, taught, head, steps, overlapped>>
    BY DEF Sch!Clear, Sch!Resume
<1>3. PICK op \in {"wait", "put"}, rows \in SUBSET others :
        /\ schoolCall' = [schoolCall EXCEPT ![h] = [old EXCEPT !.op = op, !.rows = rows]]
        /\ old.class \notin overlapped => rows = others
    <2>1. CASE Sch!Clear(h)
        BY <2>1 DEF Sch!Clear
    <2>2. CASE Sch!Resume(h)
        <3>1. old.class \notin overlapped => old.rows \cap others = others
            BY <2>2 DEF Sch!Resume, Governed, Covered
        <3>2. schoolCall' = [schoolCall EXCEPT ![h] = [old EXCEPT !.op = "put", !.rows = old.rows \cap others]]
            BY <2>2 DEF Sch!Resume
        <3> DEFINE rows == old.rows \cap others
        <3>3. rows \in SUBSET others
            OBVIOUS
        <3> HIDE DEF rows
        <3> QED BY <3>1, <3>2, <3>3 DEF rows
    <2> QED BY <2>1, <2>2
<1>4. rows \subseteq Assignment /\ \A r \in rows : head[r] # Sch!NoHead
    BY DEF Sch!Others, Sch!HeadsOf, Sch!NoHead
<1>5. PICK c : c = [old EXCEPT !.op = op, !.rows = rows]
    OBVIOUS
<1>6. /\ c \in SchoolCall /\ c.op = op /\ c.rows = rows /\ c.class = old.class
      /\ c.who = old.who /\ c.subjects = old.subjects
    BY <1>1, <1>4, <1>5 DEF SchoolCall
<1>7. Claim(c)'
    BY <1>1, <1>2, <1>4, <1>6 DEF Claim
<1>8. schoolCall' = [schoolCall EXCEPT ![h] = c]
    BY <1>3, <1>5
<1>9. Sch!TypeOK' /\ MappingsInside' /\ TeachingsInside'
    BY <1>1, <1>2 DEF Sch!TypeOK, MappingsInside, TeachingsInside
<1>10. \A g \in Handler \ {h} : Designates(schoolCall[g]) /\ schoolCall[g].class = c.class => c.class \in overlapped'
    BY <1>2, <1>6 DEF Governed, Noted, Designates
<1>11. c.class \notin overlapped' => Sch!Others(c.class, c.who) \subseteq c.rows
    BY <1>2, <1>3, <1>6
<1> QED BY <1>2, <1>6, <1>7, <1>8, <1>9, <1>10, <1>11, CallGoverned

\* What the commit of a designation makes of the rows: the one it puts is its class's and its
\* teacher's, the others stay whose they are, active only if it did not clear them.
LEMMA PutRows ==
    ASSUME Sch!NoneIsNoOrg, Governed, NEW h \in Handler, Sch!Put(h)
    PROVE  LET old == schoolCall[h] IN
           \E r \in Assignment :
             /\ IF Sch!HeadsOf(old.class) \ old.rows = {} THEN head[r] = Sch!NoHead
                ELSE r \in Sch!HeadsOf(old.class) \ old.rows
             /\ head'[r] = [org |-> class[old.class].org, class |-> old.class, teacher |-> old.who, status |-> "ACTIVE"]
             /\ \A q \in Assignment \ {r} :
                  /\ head[q] = Sch!NoHead => head'[q] = Sch!NoHead
                  /\ head[q] # Sch!NoHead =>
                       /\ head'[q] \in Sch!HeadRow
                       /\ head'[q].org = head[q].org /\ head'[q].class = head[q].class
                       /\ head'[q].teacher = head[q].teacher
                       /\ head'[q].status = "ACTIVE" => q \notin old.rows /\ head[q].status = "ACTIVE"
<1> DEFINE old == schoolCall[h]
           new == [org |-> class[old.class].org, class |-> old.class, teacher |-> old.who, status |-> "ACTIVE"]
<1>1. PICK r \in Assignment :
        /\ IF Sch!HeadsOf(old.class) \ old.rows = {} THEN head[r] = Sch!NoHead
           ELSE r \in Sch!HeadsOf(old.class) \ old.rows
        /\ head' = [Sch!Cleared(h) EXCEPT ![r] = new]
    BY DEF Sch!Put
<1>2. Sch!Cleared(h) = [q \in Assignment |-> IF q \in old.rows THEN [head[q] EXCEPT !.status = "INACTIVE"] ELSE head[q]]
    BY DEF Sch!Cleared
<1>3. head'[r] = new
    BY <1>1, <1>2
<1>4. ASSUME NEW q \in Assignment \ {r}
      PROVE  /\ head[q] = Sch!NoHead => head'[q] = Sch!NoHead
             /\ head[q] # Sch!NoHead =>
                  /\ head'[q] \in Sch!HeadRow
                  /\ head'[q].org = head[q].org /\ head'[q].class = head[q].class
                  /\ head'[q].teacher = head[q].teacher
                  /\ head'[q].status = "ACTIVE" => q \notin old.rows /\ head[q].status = "ACTIVE"
    <2>1. head'[q] = IF q \in old.rows THEN [head[q] EXCEPT !.status = "INACTIVE"] ELSE head[q]
        BY <1>1, <1>2
    <2>2. head[q] # Sch!NoHead => head[q] \in Sch!HeadRow
        BY DEF Governed, SchoolTyped
    <2>3. CASE q \in old.rows
        <3>1. head[q] # Sch!NoHead /\ head[q] \in Sch!HeadRow
            BY <2>2, <2>3 DEF Governed, Claims, Claim, Sch!Put
        <3>2. PICK x : x = [head[q] EXCEPT !.status = "INACTIVE"]
            OBVIOUS
        <3>3. /\ x \in Sch!HeadRow /\ x.org = head[q].org /\ x.class = head[q].class
              /\ x.teacher = head[q].teacher /\ x.status = "INACTIVE"
            BY <3>1, <3>2 DEF Sch!HeadRow, Sch!Status
        <3> QED BY <2>1, <2>3, <3>1, <3>2, <3>3
    <2>4. CASE q \notin old.rows
        BY <2>1, <2>2, <2>4
    <2> QED BY <2>3, <2>4
<1> QED BY <1>1, <1>3, <1>4

LEMMA PutGoverned ==
    ASSUME Sch!NoneIsNoOrg, Governed, NEW h \in Handler, Sch!Put(h)
    PROVE  Governed'
<1> DEFINE old == schoolCall[h]
           k == old.class
<1>1. Sch!TypeOK /\ Inside /\ SingleHead /\ old \in SchoolCall /\ Claim(old)
    BY DEF Governed, SchoolTyped, Claims
<1>2. /\ old.op = "put" /\ schoolCall' = [schoolCall EXCEPT ![h] = Sch!Idle]
      /\ UNCHANGED <<org, admin, person, relation, class, subject, mapping, taught, steps, overlapped>>
    BY DEF Sch!Put, Sch!Leave
<1>3. k \in Class /\ class[k].org \in Org /\ old.who \in Teacher /\ person[old.who].org = class[k].org
    BY <1>1, <1>2 DEF Claim, Sch!TypeOK, Sch!Owned
<1>4. PICK r \in Assignment :
        /\ IF Sch!HeadsOf(k) \ old.rows = {} THEN head[r] = Sch!NoHead
           ELSE r \in Sch!HeadsOf(k) \ old.rows
        /\ head'[r] = [org |-> class[k].org, class |-> k, teacher |-> old.who, status |-> "ACTIVE"]
        /\ \A q \in Assignment \ {r} :
             /\ head[q] = Sch!NoHead => head'[q] = Sch!NoHead
             /\ head[q] # Sch!NoHead =>
                  /\ head'[q] \in Sch!HeadRow
                  /\ head'[q].org = head[q].org /\ head'[q].class = head[q].class
                  /\ head'[q].teacher = head[q].teacher
                  /\ head'[q].status = "ACTIVE" => q \notin old.rows /\ head[q].status = "ACTIVE"
    BY PutRows
<1>5. /\ head'[r] \in Sch!HeadRow /\ head'[r].org = class[k].org /\ head'[r].class = k
      /\ head'[r].teacher = old.who /\ head'[r].status = "ACTIVE"
    BY <1>3, <1>4 DEF Sch!HeadRow, Sch!Status
<1>6. \A q \in Assignment : head'[q] \in Sch!HeadRow => head'[q] # Sch!NoHead
    BY DEF Sch!HeadRow, Sch!NoHead, Sch!NoneIsNoOrg
<1>7. head' \in [Assignment -> Sch!HeadRow \cup {Sch!NoHead}]
    <2>1. DOMAIN head' = Assignment /\ head' = [q \in Assignment |-> head'[q]]
        BY DEF Sch!Put, Sch!Cleared
    <2> QED BY <1>4, <1>5, <2>1
<1>8. schoolCall' \in [Handler -> SchoolCall] /\ schoolCall'[h] = Sch!Idle
      /\ \A g \in Handler \ {h} : schoolCall'[g] = schoolCall[g]
    BY <1>2 DEF Governed, SchoolTyped, Sch!Idle, SchoolCall
<1>9. SchoolTyped'
    BY <1>1, <1>2, <1>7, <1>8 DEF SchoolTyped, Sch!TypeOK
<1>10. HeadsInside'
    BY <1>1, <1>2, <1>3, <1>4, <1>5 DEF Inside, HeadsInside
<1>11. Inside'
    BY <1>1, <1>2, <1>10 DEF Inside, RelationsInside, MappingsInside, TeachingsInside
<1>12. Claims'
    <2> SUFFICES ASSUME NEW g \in Handler PROVE Claim(schoolCall[g])'
        BY DEF Claims
    <2>1. CASE g = h
        BY <1>8, <2>1 DEF Claim, Sch!Idle
    <2>2. CASE g # h
        <3>1. schoolCall'[g] = schoolCall[g] /\ schoolCall[g] \in SchoolCall /\ Claim(schoolCall[g])
            BY <1>8, <2>2 DEF Governed, SchoolTyped, Claims
        <3>2. \A q \in Assignment : head[q] # Sch!NoHead => head'[q] # Sch!NoHead
            BY <1>4, <1>5, <1>6
        <3>3. schoolCall[g].rows \subseteq Assignment
            BY <3>1 DEF SchoolCall
        <3> QED BY <1>2, <3>1, <3>2, <3>3 DEF Claim
    <2> QED BY <2>1, <2>2
<1>13. \A c \in Class : \A q \in Sch!HeadsOf(c)' :
         q # r => q \in Sch!HeadsOf(c) \ old.rows /\ head'[q].teacher = head[q].teacher
    <2> SUFFICES ASSUME NEW c \in Class, NEW q \in Sch!HeadsOf(c)', q # r
                 PROVE  q \in Sch!HeadsOf(c) \ old.rows /\ head'[q].teacher = head[q].teacher
        OBVIOUS
    <2>1. q \in Assignment /\ head'[q].class = c /\ head'[q].status = "ACTIVE"
        BY DEF Sch!HeadsOf
    <2>2. head[q] # Sch!NoHead
        BY <1>4, <2>1 DEF Sch!NoHead
    <2> QED BY <1>4, <2>1, <2>2 DEF Sch!HeadsOf
<1>14. SingleHead'
    <2> SUFFICES ASSUME NEW c \in Class, NEW p \in Sch!HeadsOf(c)', NEW q \in Sch!HeadsOf(c)', p # q
                 PROVE  FALSE
        BY DEF SingleHead
    <2>1. CASE p # r /\ q # r
        BY <1>1, <1>13, <2>1 DEF SingleHead
    <2>2. ASSUME NEW x \in Sch!HeadsOf(c)', x # r, r \in Sch!HeadsOf(c)' PROVE FALSE
        <3>1. c = k
            BY <1>5, <2>2 DEF Sch!HeadsOf
        <3>2. x \in Sch!HeadsOf(k) \ old.rows
            BY <1>13, <2>2, <3>1
        <3>3. r \in Sch!HeadsOf(k)
            BY <1>4, <3>2
        <3> QED BY <1>1, <1>3, <2>2, <3>2, <3>3 DEF SingleHead
    <2> QED BY <2>1, <2>2
<1>15. Noted'
    BY <1>2, <1>8 DEF Governed, Noted, Sch!Idle
<1>16. Covered'
    <2> SUFFICES ASSUME NEW g \in Handler, NEW c, c = schoolCall'[g],
                        c.op \in {"wait", "put"}, c.class \notin overlapped
                 PROVE  Sch!Others(c.class, c.who)' \subseteq c.rows
        BY <1>2 DEF Covered, Sch!Others, Sch!HeadsOf
    <2>1. g # h /\ c = schoolCall[g] /\ c.class \in Class
        BY <1>8 DEF Sch!Idle, Governed, Claims, Claim
    <2>2. c.class # k
        BY <1>2, <2>1 DEF Governed, Noted
    <2>3. ASSUME NEW q \in Sch!Others(c.class, c.who)'
          PROVE  q \in Sch!Others(c.class, c.who)
        <3>1. q \in Sch!HeadsOf(c.class)' /\ head'[q].teacher # c.who
            BY <2>3 DEF Sch!Others, Sch!HeadsOf
        <3>2. q # r
            BY <1>5, <2>2, <3>1 DEF Sch!HeadsOf
        <3>3. q \in Sch!HeadsOf(c.class) /\ head'[q].teacher = head[q].teacher
            BY <1>13, <2>1, <3>1, <3>2
        <3> QED BY <3>1, <3>3 DEF Sch!Others
    <2> QED BY <2>1, <2>3 DEF Governed, Covered
<1> QED BY <1>9, <1>11, <1>12, <1>14, <1>15, <1>16 DEF Governed

LEMMA StepGoverned ==
    ASSUME Sch!NoneIsNoOrg, Sch!StepBound, Governed, [Sch!Next]_(Sch!vars)
    PROVE  Governed'
<1>1. CASE Sch!Administer
    BY <1>1, ProfileCreated, ProfileStatusSet, ClassChanged, SubjectChanged, OrganizationChanged,
       RelationChanged, MappingRemoved, TeachingEnded
    DEF Sch!Administer, Sch!CreateTeacher, Sch!CreateStudent, Sch!CreateParent,
        Sch!SetTeacherStatus, Sch!SetStudentStatus, Sch!SetParentStatus, Sch!Profile
<1>2. ASSUME NEW h \in Handler, Sch!Staff(h) PROVE Governed'
    BY <1>2, AskGoverned, DesignationAsked, FailGoverned, MappingWritten, TeachingWritten,
       ClearGoverned, PutGoverned
    DEF Sch!Staff
<1>3. CASE UNCHANGED Sch!vars
    <2>1. Sch!TypeOK' /\ OrgsStay
        BY <1>3 DEF Sch!vars, Governed, SchoolTyped, Sch!TypeOK, OrgsStay
    <2> QED BY <1>3, <2>1, RowsGoverned DEF Sch!vars
<1> QED BY <1>1, <1>2, <1>3 DEF Sch!Next

\* The invariant: links stay inside an organisation, what requests have checked stays so, a
\* class has one class teacher, and a designation that is alone has every row it must end.
THEOREM GovernedInvariant ==
    ASSUME Sch!NoneIsNoOrg, Sch!StepBound
    PROVE  Sch!Spec => []Governed
<1>1. Sch!Init => Governed
    BY InitGoverned
<1>2. Governed /\ [Sch!Next]_(Sch!vars) => Governed'
    BY StepGoverned
<1> QED BY <1>1, <1>2, PTL DEF Sch!Spec

\* The variables of the school keep their types.
THEOREM SchoolAlwaysTyped ==
    ASSUME Sch!NoneIsNoOrg, Sch!StepBound
    PROVE  Sch!Spec => []Sch!TypeOK
<1>1. Governed => Sch!TypeOK
    BY DEF Governed, SchoolTyped
<1> QED BY <1>1, GovernedInvariant, PTL

LEMMA GovernedSeen ==
    ASSUME Sch!NoneIsNoOrg, Governed
    PROVE  Sch!LinksSeenFromBothEnds /\ Sch!OneClassTeacher /\ Sch!TaughtIsMapped
<1>1. Sch!TypeOK /\ Inside
    BY DEF Governed, SchoolTyped
<1>2. Sch!LinksSeenFromBothEnds
    <2>1. \A r \in relation : r \in Sch!ListStudentsOf(r.parent) \cap Sch!ListParentsOf(r.student)
        BY <1>1 DEF Inside, RelationsInside, Sch!ListStudentsOf, Sch!ListParentsOf
    <2>2. \A c \in Class, s \in Subject : mapping[<<c, s>>] = "ACTIVE" => s \in Sch!ListClassSubjects(c)
        BY <1>1 DEF Inside, MappingsInside, Sch!ListClassSubjects, Sch!NoneIsNoOrg
    <2>3. \A r \in taught : r.status = "ACTIVE" =>
            r \in Sch!ListSubjectTeachers(r.class) /\ person[r.teacher].org = class[r.class].org
        BY <1>1 DEF Inside, TeachingsInside, Sch!ListSubjectTeachers
    <2>4. \A r \in Assignment : head[r] # Sch!NoHead =>
            r \in Sch!ListClassTeachers(head[r].class) /\ person[head[r].teacher].org = head[r].org
        BY <1>1 DEF Inside, HeadsInside, Sch!ListClassTeachers
    <2> QED BY <2>1, <2>2, <2>3, <2>4 DEF Sch!LinksSeenFromBothEnds
<1>3. Sch!OneClassTeacher
    BY DEF Governed, SingleHead, Sch!OneClassTeacher
<1>4. Sch!TaughtIsMapped
    BY <1>1 DEF Inside, TeachingsInside, Sch!TaughtIsMapped
<1> QED BY <1>2, <1>3, <1>4

\* Every link between two rows of a school is seen from both its ends.
THEOREM LinksAlwaysSeen ==
    ASSUME Sch!NoneIsNoOrg, Sch!StepBound
    PROVE  Sch!Spec => []Sch!LinksSeenFromBothEnds
<1>1. Governed => Sch!LinksSeenFromBothEnds
    BY GovernedSeen
<1> QED BY <1>1, GovernedInvariant, PTL

\* A class has one class teacher, however many designations overlap.
THEOREM ClassTeacherSingle ==
    ASSUME Sch!NoneIsNoOrg, Sch!StepBound
    PROVE  Sch!Spec => []Sch!OneClassTeacher
<1>1. Governed => Sch!OneClassTeacher
    BY GovernedSeen
<1> QED BY <1>1, GovernedInvariant, PTL

\* A subject has a teacher only in a class it was mapped to.
THEOREM TeachersMapped ==
    ASSUME Sch!NoneIsNoOrg, Sch!StepBound
    PROVE  Sch!Spec => []Sch!TaughtIsMapped
<1>1. Governed => Sch!TaughtIsMapped
    BY GovernedSeen
<1> QED BY <1>1, GovernedInvariant, PTL

\* Only a commit of a designation changes the rows of class teachers.
LEMMA OnlyPuts ==
    ASSUME [Sch!Next]_(Sch!vars), head' # head
    PROVE  \E h \in Handler : Sch!Put(h)
<1>1. ~Sch!Administer
    BY DEF Sch!Administer, Sch!Activate, Sch!CreateOrganization, Sch!CreateTeacher,
        Sch!CreateStudent,
       Sch!CreateParent, Sch!CreateProfile, Sch!SetTeacherStatus, Sch!SetStudentStatus,
       Sch!SetParentStatus,
       Sch!SetProfileStatus, Sch!CreateClass, Sch!SetClassStatus, Sch!CreateSubject,
       Sch!SetSubjectStatus,
       Sch!Relate, Sch!SetRelation, Sch!RemoveMapping, Sch!EndTeaching
<1>2. PICK h \in Handler : Sch!Staff(h)
    BY <1>1 DEF Sch!Next, Sch!vars
<1> QED BY <1>2 DEF Sch!Staff, Sch!AskMapping, Sch!AskBulk, Sch!AskTeaching, Sch!AskDesignation,
       Sch!WriteMapping, Sch!WriteBulk, Sch!WriteTeaching, Sch!Clear, Sch!Resume, Sch!Fail

\* A designation stays on record, unless two of its class overlapped.
THEOREM DesignationsStay ==
    ASSUME Sch!NoneIsNoOrg, Sch!StepBound
    PROVE  Sch!Spec => [][Sch!DesignationsRemembered]_(Sch!vars)
<1>1. Governed /\ [Sch!Next]_(Sch!vars) => Sch!DesignationsRemembered
    <2> SUFFICES ASSUME Governed, [Sch!Next]_(Sch!vars), NEW q \in Assignment,
                        head[q] # Sch!NoHead, head[q].class \notin overlapped
                 PROVE  head'[q].teacher = head[q].teacher
        BY DEF Sch!DesignationsRemembered
    <2>1. CASE head' = head
        BY <2>1
    <2>2. CASE head' # head
        <3>1. PICK h \in Handler : Sch!Put(h)
            BY <2>2, OnlyPuts
        <3> DEFINE old == schoolCall[h]
        <3>2. PICK r \in Assignment :
                /\ IF Sch!HeadsOf(old.class) \ old.rows = {} THEN head[r] = Sch!NoHead
                   ELSE r \in Sch!HeadsOf(old.class) \ old.rows
                /\ head'[r] = [org |-> class[old.class].org, class |-> old.class, teacher |-> old.who, status |-> "ACTIVE"]
                /\ \A p \in Assignment \ {r} : head[p] # Sch!NoHead => head'[p].teacher = head[p].teacher
            BY <3>1, PutRows
        <3>3. CASE q # r
            BY <3>2, <3>3
        <3>4. CASE q = r
            <4>1. r \in Sch!HeadsOf(old.class) \ old.rows /\ head[r].class = old.class
                BY <3>2, <3>4 DEF Sch!HeadsOf
            <4>2. Sch!Others(old.class, old.who) \subseteq old.rows
                BY <3>1, <3>4, <4>1 DEF Governed, Covered, Sch!Put
            <4>3. head[r].teacher = old.who
                BY <4>1, <4>2 DEF Sch!Others
            <4> QED BY <3>2, <3>4, <4>3
        <3> QED BY <3>3, <3>4
    <2> QED BY <2>1, <2>2
<1> QED BY <1>1, GovernedInvariant, PTL DEF Sch!Spec

-----------------------------------------------------------------------------
(* Syllabi *)

\* The request that holds the class row, and the class it holds, which stays active.
Held ==
    /\ lock # None => active
    /\ \A h \in Handler : syllabusCall[h].op \in Syl!InTransaction <=> lock = h

\* What the transaction under way sees of the designation.
Prepared ==
    \A h \in Handler :
        /\ syllabusCall[h].op \in Syl!InTransaction \cup {"designate"} => syllabusCall[h].of \in Syllabus
        /\ syllabusCall[h].op = "demoted" => work \subseteq {syllabusCall[h].of}
        /\ syllabusCall[h].op = "promoted" => work = {syllabusCall[h].of}

Designated == \A s, t \in chosen : s = t

Settled == Syl!TypeOK /\ Held /\ Prepared /\ Designated /\ Syl!CodesDistinct

-----------------------------------------------------------------------------
LEMMA InitSettled ==
    ASSUME Syl!NoneIsNoId, Syl!Init
    PROVE  Settled
<1> USE DEF Syl!NoneIsNoId
<1>1. Syl!TypeOK
    BY DEF Syl!Init, Syl!TypeOK, Syl!Idle
<1>2. Held /\ Prepared
    BY DEF Syl!Init, Held, Prepared, Syl!Idle, Syl!InTransaction
<1>3. Designated /\ Syl!CodesDistinct
    BY DEF Syl!Init, Designated, Syl!CodesDistinct, Syl!Syllabi
<1> QED BY <1>1, <1>2, <1>3 DEF Settled

\* Codes change in Insert alone, under the unique index.
LEMMA CodesStayDistinct ==
    ASSUME Settled, NEW h \in Handler, Syl!Insert(h)
    PROVE  code' \in [Syllabus -> Code \cup {None}] /\ Syl!CodesDistinct'
<1> DEFINE c == syllabusCall[h].code
           s == syllabusCall[h].of
<1>1. Syl!TypeOK /\ Syl!CodesDistinct
    BY DEF Settled
<1>2. c \in Code \cup {None} /\ code' = [code EXCEPT ![s] = c] /\ Syl!Uncoded(c)
    BY <1>1 DEF Syl!Insert, Syl!TypeOK
<1>3. code' \in [Syllabus -> Code \cup {None}]
    BY <1>1, <1>2 DEF Syl!TypeOK
<1>4. \A t \in Syllabus : code'[t] = IF t = s THEN c ELSE code[t]
    BY <1>1, <1>2 DEF Syl!TypeOK
<1>5. Syl!CodesDistinct'
    BY <1>1, <1>2, <1>4 DEF Syl!CodesDistinct, Syl!Syllabi, Syl!Uncoded
<1> QED BY <1>3, <1>5

LEMMA StepSettled ==
    ASSUME Syl!NoneIsNoId, Settled, [Syl!Next]_(Syl!vars)
    PROVE  Settled'
<1> USE DEF Settled, Syl!NoneIsNoId
<1>1. CASE Syl!SetClassStatus
    BY <1>1
    DEF Syl!SetClassStatus, Syl!TypeOK, Held, Prepared, Designated, Syl!CodesDistinct, Syl!Syllabi
<1>2. CASE \E h \in Handler, s \in Syllabus, c \in Code : Syl!BeginCreate(h, s, c)
    BY <1>2
    DEF Syl!BeginCreate, Syl!Idle, Syl!TypeOK, Held, Prepared, Designated, Syl!CodesDistinct, Syl!Syllabi, Syl!InTransaction
<1>3. CASE \E h \in Handler, s \in Syllabus : Syl!BeginDesignate(h, s)
    BY <1>3
    DEF Syl!BeginDesignate, Syl!Idle, Syl!TypeOK, Held, Prepared, Designated, Syl!CodesDistinct, Syl!Syllabi, Syl!InTransaction
<1>4. ASSUME NEW h \in Handler, Syl!Insert(h) PROVE Settled'
    <2>1. code' \in [Syllabus -> Code \cup {None}] /\ Syl!CodesDistinct'
        BY <1>4, CodesStayDistinct
    <2>2. Syl!TypeOK' /\ Held' /\ Prepared' /\ Designated'
        BY <1>4, <2>1 DEF Syl!Insert, Syl!Idle, Syl!TypeOK, Held, Prepared, Designated,
            Syl!InTransaction
    <2> QED BY <2>1, <2>2
<1>5. ASSUME NEW h \in Handler, Syl!Lock(h) PROVE Settled'
    BY <1>5
    DEF Syl!Lock, Syl!Step, Syl!TypeOK, Held, Prepared, Designated, Syl!CodesDistinct, Syl!Syllabi, Syl!InTransaction
<1>6. ASSUME NEW h \in Handler, Syl!Demote(h) PROVE Settled'
    BY <1>6
    DEF Syl!Demote, Syl!Step, Syl!TypeOK, Held, Prepared, Designated, Syl!CodesDistinct, Syl!Syllabi, Syl!InTransaction
<1>7. ASSUME NEW h \in Handler, Syl!Promote(h) PROVE Settled'
    BY <1>7
    DEF Syl!Promote, Syl!Step, Syl!TypeOK, Held, Prepared, Designated, Syl!CodesDistinct, Syl!Syllabi, Syl!InTransaction
<1>8. ASSUME NEW h \in Handler, Syl!Commit(h) PROVE Settled'
    BY <1>8
    DEF Syl!Commit, Syl!Idle, Syl!TypeOK, Held, Prepared, Designated, Syl!CodesDistinct, Syl!Syllabi, Syl!InTransaction
<1>9. ASSUME NEW h \in Handler, Syl!Fail(h) PROVE Settled'
    BY <1>9
    DEF Syl!Fail, Syl!Idle, Syl!TypeOK, Held, Prepared, Designated, Syl!CodesDistinct, Syl!Syllabi, Syl!InTransaction
<1>10. CASE UNCHANGED Syl!vars
    BY <1>10 DEF Syl!vars, Syl!TypeOK, Held, Prepared, Designated, Syl!CodesDistinct, Syl!Syllabi
<1> QED BY <1>1, <1>2, <1>3, <1>4, <1>5, <1>6, <1>7, <1>8, <1>9, <1>10 DEF Syl!Next

\* The invariant: calls and codes are well formed, the class row is held by one request,
\* each stage has prepared what it says, one syllabus is designated, codes are distinct.
THEOREM SettledInvariant ==
    ASSUME Syl!NoneIsNoId
    PROVE  Syl!Spec => []Settled
<1>1. Syl!Init => Settled
    BY InitSettled
<1>2. Settled /\ [Syl!Next]_(Syl!vars) => Settled'
    BY StepSettled
<1> QED BY <1>1, <1>2, PTL DEF Syl!Spec

\* The variables of the syllabi keep their types.
THEOREM SyllabiTyped ==
    ASSUME Syl!NoneIsNoId
    PROVE  Syl!Spec => []Syl!TypeOK
<1>1. Settled => Syl!TypeOK
    BY DEF Settled
<1> QED BY <1>1, SettledInvariant, PTL

\* A class never has two authoritative syllabi, for any number of designations.
THEOREM AuthoritativeSingle ==
    ASSUME Syl!NoneIsNoId
    PROVE  Syl!Spec => []Syl!OneAuthoritative
<1>1. Settled => Syl!OneAuthoritative
    BY DEF Settled, Designated, Syl!OneAuthoritative, Syl!Authoritative
<1> QED BY <1>1, SettledInvariant, PTL

\* Syllabus codes of the class stay distinct, for any number of concurrent creations.
THEOREM CodesAlwaysDistinct ==
    ASSUME Syl!NoneIsNoId
    PROVE  Syl!Spec => []Syl!CodesDistinct
<1>1. Settled => Syl!CodesDistinct
    BY DEF Settled
<1> QED BY <1>1, SettledInvariant, PTL

\* Only a commit changes the designation: to one syllabus, of an active class.
LEMMA DesignationStep ==
    ASSUME Syl!NoneIsNoId, Settled, [Syl!Next]_(Syl!vars), chosen' # chosen
    PROVE  active /\ chosen' # {}
<1>1. PICK h \in Handler : Syl!Commit(h)
    BY DEF Syl!Next, Syl!vars, Syl!SetClassStatus, Syl!BeginCreate, Syl!BeginDesignate, Syl!Insert,
        Syl!Lock, Syl!Demote, Syl!Promote, Syl!Fail
<1>2. lock = h /\ work = {syllabusCall[h].of}
    BY <1>1 DEF Syl!Commit, Settled, Held, Prepared, Syl!InTransaction
<1> QED BY <1>1, <1>2 DEF Syl!Commit, Settled, Held, Syl!NoneIsNoId

\* No designation takes effect on a class that was deactivated meanwhile.
THEOREM DesignatedActive ==
    ASSUME Syl!NoneIsNoId
    PROVE  Syl!Spec => [][Syl!DesignatedWhileActive]_(Syl!vars)
<1>1. Settled /\ [Syl!Next]_(Syl!vars) => [Syl!DesignatedWhileActive]_(Syl!vars)
    BY DesignationStep DEF Syl!DesignatedWhileActive, Syl!vars
<1> QED BY <1>1, SettledInvariant, PTL DEF Syl!Spec

\* A class that has an authoritative syllabus has one at every later moment.
THEOREM DesignationStays ==
    ASSUME Syl!NoneIsNoId
    PROVE  Syl!Spec => [][Syl!DesignationKept]_(Syl!vars)
<1>1. Settled /\ [Syl!Next]_(Syl!vars) => [Syl!DesignationKept]_(Syl!vars)
    BY DesignationStep DEF Syl!DesignationKept, Syl!vars
<1> QED BY <1>1, SettledInvariant, PTL DEF Syl!Spec

-----------------------------------------------------------------------------
(* Reference data *)

Loadable == \A h \in Handler : datasetCall[h].op = "load" => datasetCall[h].config \in Config

\* Every copy is one that could be made now, and there is none before the publication: no
\* load comes between a copy and what it is attributed to.
Copying ==
    /\ copies \in [Version -> Seq(Ref!Copied)]
    /\ \A v \in Version : v \in source <=> copies[v] # <<>>
    /\ status # "PUBLISHED" => copies = [v \in Version |-> <<>>]

Faithful == loaded \in [Key -> Ref!NodeRow \cup {None}] /\ Ref!TypeOK /\ Loadable /\ Copying

LEMMA InitFaithful ==
    ASSUME Ref!CopyBound, Ref!NoneIsNoOp, Ref!Init
    PROVE  Faithful
<1>1. loaded \in [Key -> Ref!NodeRow \cup {None}] /\ Ref!Keys = {}
    BY DEF Ref!Init, Ref!Keys
<1>2. Ref!TypeOK
    BY <1>1 DEF Ref!Init, Ref!TypeOK, Ref!DatasetStatus, Ref!Idle, Ref!CopyBound
<1>3. Loadable
    BY DEF Ref!Init, Loadable, Ref!Idle, Ref!NoneIsNoOp
<1>4. Copying
    BY DEF Ref!Init, Copying
<1> QED BY <1>1, <1>2, <1>3, <1>4 DEF Faithful

\* What a load writes of a node is a row, its parent one of the configuration's keys.
LEMMA MergedRows ==
    ASSUME Ref!ConfigsValid, NEW c \in Config, loaded \in [Key -> Ref!NodeRow \cup {None}]
    PROVE  Ref!Merged(c) \in [Key -> Ref!NodeRow \cup {None}]
<1> SUFFICES ASSUME NEW k \in Key
             PROVE  Ref!Merged(c)[k] \in Ref!NodeRow \cup {None}
    BY DEF Ref!Merged
<1>1. CASE ~\E i \in DOMAIN c : c[i].key = k
    BY <1>1 DEF Ref!Merged
<1>2. CASE \E i \in DOMAIN c : c[i].key = k
    <2> DEFINE i == CHOOSE j \in DOMAIN c : c[j].key = k
               p == Ref!ParentAt(c, i)
    <2>1. i \in DOMAIN c /\ c[i].key = k
        BY <1>2
    <2>2. c[i].seq \in Nat /\ p \in Key \cup {None}
        BY <2>1 DEF Ref!ConfigsValid, Ref!ParentAt
    <2>3. Ref!Merged(c)[k] = IF loaded[k] # None THEN [loaded[k] EXCEPT !.seq = c[i].seq]
                             ELSE [parent |-> p, seq |-> c[i].seq, late |-> p \in Ref!Keys]
        BY <1>2 DEF Ref!Merged
    <2> HIDE DEF i, p
    <2>4. (p \in Ref!Keys) \in BOOLEAN
        OBVIOUS
    <2>5. CASE loaded[k] # None
        <3>1. loaded[k] \in Ref!NodeRow
            BY <2>5
        <3>2. [loaded[k] EXCEPT !.seq = c[i].seq] \in Ref!NodeRow
            BY <3>1, <2>2 DEF Ref!NodeRow
        <3> QED BY <2>3, <2>5, <3>2
    <2>6. CASE loaded[k] = None
        <3>1. [parent |-> p, seq |-> c[i].seq, late |-> p \in Ref!Keys] \in Ref!NodeRow
            BY <2>2, <2>4 DEF Ref!NodeRow
        <3> QED BY <2>3, <2>6, <3>1
    <2> QED BY <2>5, <2>6
<1> QED BY <1>1, <1>2

\* What is copied depends on the nodes alone.
LEMMA CopiedKept ==
    ASSUME UNCHANGED loaded
    PROVE  Ref!Copied' = Ref!Copied
<1>1. \A k \in Key : Ref!CopiedParents(k)' = Ref!CopiedParents(k)
    BY DEF Ref!CopiedParents
<1>2. Ref!Keys' = Ref!Keys
    BY DEF Ref!Keys
<1> QED BY <1>1, <1>2 DEF Ref!Copied, Ref!Keys

\* A step that copies nothing and loads nothing.
LEMMA SameContent ==
    ASSUME Faithful, UNCHANGED <<loaded, copies, source>>,
           status' # status => status' = "PUBLISHED"
    PROVE  Copying' /\ loaded' \in [Key -> Ref!NodeRow \cup {None}]
<1>1. Ref!Copied' = Ref!Copied
    BY CopiedKept
<1> QED BY <1>1 DEF Faithful, Copying

LEMMA LoadFaithful ==
    ASSUME Ref!ConfigsValid, Ref!CopyBound, Ref!NoneIsNoOp, Faithful, NEW h \in Handler, Ref!Load(h)
    PROVE  Faithful'
<1> DEFINE c == datasetCall[h].config
<1>1. c \in Config /\ status # "PUBLISHED"
    BY DEF Ref!Load, Ref!Immutable, Faithful, Loadable
<1>2. loaded' \in [Key -> Ref!NodeRow \cup {None}]
    BY <1>1, MergedRows DEF Ref!Load, Faithful
<1>3. copies' = [v \in Version |-> <<>>] /\ source' = source
    BY <1>1 DEF Ref!Load, Faithful, Copying
<1>4. Copying'
    BY <1>1, <1>3 DEF Faithful, Copying
<1>5. status' \in Ref!DatasetStatus /\ checksum' \in Config
    BY <1>1 DEF Ref!Load, Ref!DatasetStatus
<1>6. Ref!TypeOK'
    BY <1>2, <1>3, <1>5 DEF Ref!Load, Faithful, Ref!TypeOK, Ref!Keys, Ref!Idle, Ref!CopyBound,
        Ref!DatasetStatus, Ref!NodeRow
<1>7. Loadable'
    BY DEF Ref!Load, Faithful, Loadable, Ref!Idle, Ref!NoneIsNoOp
<1> QED BY <1>2, <1>4, <1>6, <1>7 DEF Faithful

LEMMA MaterializeFaithful ==
    ASSUME Ref!CopyBound, Faithful, NEW v \in Version, Ref!Materialize(v)
    PROVE  Faithful'
<1>1. PICK f \in Ref!Copied : copies' = [copies EXCEPT ![v] = Append(@, f)]
    BY DEF Ref!Materialize
<1>2. Ref!Copied' = Ref!Copied
    BY CopiedKept DEF Ref!Materialize
<1>3. copies[v] \in Seq(Ref!Copied)
    BY DEF Faithful, Copying
<1>4. /\ Append(copies[v], f) \in Seq(Ref!Copied) /\ Append(copies[v], f) # <<>>
      /\ Len(Append(copies[v], f)) = Len(copies[v]) + 1
    BY <1>3
<1>5. Copying'
    BY <1>1, <1>2, <1>4 DEF Ref!Materialize, Faithful, Copying
<1>6. Ref!TypeOK'
    BY <1>1, <1>3, <1>4
    DEF Ref!Materialize, Faithful, Copying, Ref!TypeOK, Ref!Keys, Ref!CopyBound, Ref!DatasetStatus, Ref!NodeRow
<1>7. Loadable' /\ loaded' \in [Key -> Ref!NodeRow \cup {None}]
    BY DEF Ref!Materialize, Faithful, Loadable, Ref!NodeRow
<1> QED BY <1>5, <1>6, <1>7 DEF Faithful

LEMMA StepFaithful ==
    ASSUME Ref!ConfigsValid, Ref!CopyBound, Ref!NoneIsNoOp, Faithful, [Ref!Next]_(Ref!vars)
    PROVE  Faithful'
<1> USE DEF Ref!NoneIsNoOp
<1>1. CASE \E h \in Handler, c \in Config, p \in BOOLEAN : Ref!BeginLoad(h, c, p)
    <2>1. Copying' /\ loaded' \in [Key -> Ref!NodeRow \cup {None}]
        BY <1>1, SameContent DEF Ref!BeginLoad
    <2>2. Ref!TypeOK' /\ Loadable'
        BY <1>1 DEF Ref!BeginLoad, Faithful, Ref!TypeOK, Ref!Keys, Loadable
    <2> QED BY <2>1, <2>2 DEF Faithful
<1>2. ASSUME NEW h \in Handler, Ref!BeginPublish(h) PROVE Faithful'
    <2>1. Copying' /\ loaded' \in [Key -> Ref!NodeRow \cup {None}]
        BY <1>2, SameContent DEF Ref!BeginPublish
    <2>2. Ref!TypeOK' /\ Loadable'
        BY <1>2 DEF Ref!BeginPublish, Faithful, Ref!TypeOK, Ref!Keys, Loadable
    <2> QED BY <2>1, <2>2 DEF Faithful
<1>3. ASSUME NEW h \in Handler, Ref!Publish(h) PROVE Faithful'
    <2>1. Copying' /\ loaded' \in [Key -> Ref!NodeRow \cup {None}]
        BY <1>3, SameContent DEF Ref!Publish
    <2>2. Ref!TypeOK' /\ Loadable'
        BY <1>3 DEF Ref!Publish, Ref!Idle, Faithful, Ref!TypeOK, Ref!Keys, Loadable,
            Ref!DatasetStatus
    <2> QED BY <2>1, <2>2 DEF Faithful
<1>4. ASSUME NEW h \in Handler, Ref!Fail(h) PROVE Faithful'
    <2>1. Copying' /\ loaded' \in [Key -> Ref!NodeRow \cup {None}]
        BY <1>4, SameContent DEF Ref!Fail
    <2>2. Ref!TypeOK' /\ Loadable'
        BY <1>4 DEF Ref!Fail, Ref!Idle, Faithful, Ref!TypeOK, Ref!Keys, Loadable
    <2> QED BY <2>1, <2>2 DEF Faithful
<1>5. CASE UNCHANGED Ref!vars
    <2>1. Copying' /\ loaded' \in [Key -> Ref!NodeRow \cup {None}]
        BY <1>5, SameContent DEF Ref!vars
    <2>2. Ref!TypeOK' /\ Loadable'
        BY <1>5 DEF Ref!vars, Faithful, Ref!TypeOK, Ref!Keys, Loadable
    <2> QED BY <2>1, <2>2 DEF Faithful
<1> QED BY <1>1, <1>2, <1>3, <1>4, <1>5, LoadFaithful, MaterializeFaithful DEF Ref!Next

\* The invariant: what is loaded is well formed, and every copy is of the published nodes.
THEOREM FaithfulInvariant ==
    ASSUME Ref!ConfigsValid, Ref!CopyBound, Ref!NoneIsNoOp
    PROVE  Ref!Spec => []Faithful
<1>1. Ref!Init => Faithful
    BY InitFaithful
<1>2. Faithful /\ [Ref!Next]_(Ref!vars) => Faithful'
    BY StepFaithful
<1> QED BY <1>1, <1>2, PTL DEF Ref!Spec

\* The variables of a dataset keep their types.
THEOREM DatasetTyped ==
    ASSUME Ref!ConfigsValid, Ref!CopyBound, Ref!NoneIsNoOp
    PROVE  Ref!Spec => []Ref!TypeOK
<1>1. Faithful => Ref!TypeOK
    BY DEF Faithful
<1> QED BY <1>1, FaithfulInvariant, PTL

\* The copies in a version that names a dataset are of all its published nodes.
THEOREM CopiesFaithful ==
    ASSUME Ref!ConfigsValid, Ref!CopyBound, Ref!NoneIsNoOp
    PROVE  Ref!Spec => []Ref!CopiesOfPublished
<1>1. Faithful => Ref!CopiesOfPublished
    <2> SUFFICES ASSUME Faithful, NEW v \in Version
                 PROVE  /\ v \in source <=> copies[v] # <<>>
                        /\ \A i \in DOMAIN copies[v] : copies[v][i] \in Ref!Copied
        BY DEF Ref!CopiesOfPublished
    <2>1. copies[v] \in Seq(Ref!Copied)
        BY DEF Faithful, Copying
    <2> QED BY <2>1 DEF Faithful, Copying
<1> QED BY <1>1, FaithfulInvariant, PTL

\* Nothing that is published changes: not by a load that read the dataset before, either.
THEOREM PublishedStays ==
    Ref!Spec => [][Ref!PublishedKept]_(Ref!vars)
<1>1. [Ref!Next]_(Ref!vars) => [Ref!PublishedKept]_(Ref!vars)
    <2> SUFFICES ASSUME Ref!Next PROVE Ref!PublishedKept
        OBVIOUS
    <2> QED BY DEF Ref!Next, Ref!PublishedKept, Ref!BeginLoad, Ref!Load, Ref!Immutable,
            Ref!BeginPublish, Ref!Publish, Ref!Fail, Ref!Materialize
<1> QED BY <1>1, PTL DEF Ref!Spec

-----------------------------------------------------------------------------
(* Chapters *)

ChapterCalls == chapterCall \in
    [Handler -> [op : {"create", "update"}, of : Node, row : Cha!Row] \cup {Cha!Idle}]

\* A chapter is at the top, a topic below something, but for what the architect added.
Placed(row) == row.type = "CHAPTER" <=> row.parent = None
NodesPlaced == \A n \in Cha!Nodes \ loose : Placed(node[n])

\* Who creates has its id alone, and there is no such node yet.
Reserved ==
    \A h \in Cha!Busy : chapterCall[h].op = "create" =>
        /\ node[chapterCall[h].of] = None
        /\ \A g \in Cha!Busy : chapterCall[g].of = chapterCall[h].of => g = h

\* Who updates has a node that has stayed where it was.
Staying ==
    \A h \in Cha!Busy : chapterCall[h].op = "update" =>
        /\ node[chapterCall[h].of] # None
        /\ chapterCall[h].row.structure = node[chapterCall[h].of].structure
        /\ chapterCall[h].row.type = node[chapterCall[h].of].type
        /\ chapterCall[h].row.parent = node[chapterCall[h].of].parent

Alike(r, s) ==
    r.structure = s.structure /\ r.type = s.type /\ r.parent = s.parent /\ r.title = s.title

\* What a row was compared with is still what is there, or its node is written down as one
\* of overlapping requests; and its structure has a subject.
StillJudged(n, row) ==
    /\ Placed(row) /\ link[row.structure] # None
    /\ \A q \in Cha!Nodes \ (loose \cup {n}) : ~Alike(row, node[q])

Judged == \A h \in Cha!Busy :
    chapterCall[h].of \notin loose => StillJudged(chapterCall[h].of, chapterCall[h].row)

Compared ==
    /\ Cha!TypeOK /\ ChapterCalls /\ NodesPlaced /\ Reserved /\ Staying /\ Judged
    /\ Cha!TitlesDistinct /\ Cha!ChaptersHaveSubject

LEMMA InitCompared ==
    ASSUME Cha!Init
    PROVE  Compared
<1>1. Cha!Busy = {} /\ Cha!Nodes = {}
    BY DEF Cha!Init, Cha!Busy, Cha!Nodes
<1>2. Cha!TypeOK /\ ChapterCalls
    BY <1>1 DEF Cha!Init, Cha!TypeOK, Cha!Links, ChapterCalls
<1> QED BY <1>1, <1>2
    DEF Compared, NodesPlaced, Reserved, Staying, Judged, Cha!TitlesDistinct, Cha!ChaptersHaveSubject

\* A step that leaves nodes and requests as they are, and takes no structure its subject.
LEMMA LinkCompared ==
    ASSUME Compared, UNCHANGED <<node, chapterCall, loose>>,
           mapped' \subseteq Linked, link' \in Cha!Links,
           \A s \in Structure : link[s] # None => link'[s] # None
    PROVE  Compared'
<1>1. Cha!Busy' = Cha!Busy /\ Cha!Nodes' = Cha!Nodes
    BY DEF Cha!Busy, Cha!Nodes
<1>2. Cha!TypeOK' /\ ChapterCalls'
    BY <1>1 DEF Compared, Cha!TypeOK, ChapterCalls
<1>3. NodesPlaced' /\ Reserved' /\ Staying' /\ Cha!TitlesDistinct'
    BY <1>1 DEF Compared, NodesPlaced, Placed, Reserved, Staying, Cha!TitlesDistinct
<1>4. \A h \in Cha!Busy : chapterCall[h].row.structure \in Structure
    BY DEF Compared, Cha!TypeOK, Cha!Row
<1>5. Judged'
    BY <1>1, <1>4 DEF Compared, Judged, StillJudged, Placed, Alike
<1>6. \A n \in Cha!Nodes : node[n].structure \in Structure
    BY DEF Compared, Cha!TypeOK, Cha!Nodes, Cha!Row
<1>7. Cha!ChaptersHaveSubject'
    BY <1>1, <1>6 DEF Compared, Cha!ChaptersHaveSubject
<1> QED BY <1>2, <1>3, <1>5, <1>7 DEF Compared

\* A request comes in that was compared, or will write to a node that is loose.
LEMMA EnterCompared ==
    ASSUME Cha!NoneIsNothing, Compared, NEW h \in Handler, NEW n \in Node, NEW row \in Cha!Row,
           NEW op \in {"create", "update"}, Cha!Enter(h, op, n, row),
           op = "create" => Cha!Free(n),
           op = "update" => /\ node[n] # None /\ row.structure = node[n].structure
                            /\ row.type = node[n].type /\ row.parent = node[n].parent,
           n \notin loose => StillJudged(n, row)
    PROVE  Compared'
<1> DEFINE c == [op |-> op, of |-> n, row |-> row]
<1>1. c # Cha!Idle /\ c.op = op /\ c.of = n /\ c.row = row
    BY DEF Cha!Idle, Cha!NoneIsNothing
<1>2. chapterCall' = [chapterCall EXCEPT ![h] = c] /\ h \notin Cha!Busy
    BY DEF Cha!Enter, Cha!Busy
<1>3. c \in [op : {"create", "update"}, of : Node, row : Cha!Row]
    OBVIOUS
<1> HIDE DEF c
<1>4. ChapterCalls' /\ chapterCall'[h] = c /\ \A g \in Handler \ {h} : chapterCall'[g] = chapterCall[g]
    BY <1>2, <1>3 DEF Compared, ChapterCalls
<1>5. Cha!Busy' = Cha!Busy \cup {h} /\ Cha!Nodes' = Cha!Nodes
    BY <1>1, <1>4 DEF Cha!Busy, Cha!Nodes, Cha!Enter
<1>6. \A g \in Cha!Busy : g \in Handler \ {h} /\ chapterCall'[g] = chapterCall[g]
    BY <1>2, <1>4 DEF Cha!Busy
<1>7. UNCHANGED <<mapped, link, node, loose>>
    BY DEF Cha!Enter
<1>8. Cha!TypeOK'
    BY <1>1, <1>4, <1>5, <1>6, <1>7 DEF Compared, Cha!TypeOK
<1>9. NodesPlaced' /\ Cha!TitlesDistinct' /\ Cha!ChaptersHaveSubject'
    BY <1>5, <1>7 DEF Compared, NodesPlaced, Placed, Cha!TitlesDistinct, Cha!ChaptersHaveSubject
<1>10. Reserved'
    BY <1>1, <1>4, <1>5, <1>6, <1>7 DEF Compared, Reserved, Cha!Free
<1>11. Staying'
    BY <1>1, <1>4, <1>5, <1>6, <1>7 DEF Compared, Staying
<1>12. Judged'
    BY <1>1, <1>4, <1>5, <1>6, <1>7 DEF Compared, Judged, StillJudged, Placed, Alike
<1> QED BY <1>4, <1>8, <1>9, <1>10, <1>11, <1>12 DEF Compared

\* findChapterByTitle and findTopicByTitle see every node that the row is alike, if it is
\* at its place.
LEMMA TitledSees ==
    ASSUME Compared, NEW n \in Node, NEW row \in Cha!Row, Placed(row), ~Cha!Titled(row, n)
    PROVE  \A q \in Cha!Nodes \ (loose \cup {n}) : ~Alike(row, node[q])
<1> SUFFICES ASSUME NEW q \in Cha!Nodes \ (loose \cup {n}), Alike(row, node[q])
             PROVE  FALSE
    OBVIOUS
<1>1. row.type = "CHAPTER" => row.parent = None
    BY DEF Placed
<1> QED BY <1>1 DEF Cha!Titled, Alike

LEMMA CreateCompared ==
    ASSUME Cha!NoneIsNothing, Compared, NEW h \in Handler, NEW n \in Node,
           NEW s \in Structure, NEW p \in Node \cup {None}, NEW t \in Name,
           Cha!BeginCreate(h, n, Cha!Named(s, p, t))
    PROVE  Compared'
<1> DEFINE row == Cha!Named(s, p, t)
<1>1. row \in Cha!Row /\ Placed(row)
    BY DEF Cha!Named, Cha!Row, Placed
<1> HIDE DEF row
<1>2. StillJudged(n, row)
    BY <1>1, TitledSees DEF StillJudged, Cha!BeginCreate, row
<1>3. Cha!Free(n) /\ Cha!Enter(h, "create", n, row)
    BY DEF Cha!BeginCreate, row
<1> QED BY <1>1, <1>2, <1>3, EnterCompared

LEMMA UpdateCompared ==
    ASSUME Cha!NoneIsNothing, Compared, NEW h \in Handler, NEW n \in Node, NEW t \in Name,
           Cha!UpdateChapter(h, n, t) \/ Cha!UpdateTopic(h, n, t)
    PROVE  Compared'
<1> DEFINE row == [node[n] EXCEPT !.title = t]
<1>1. n \in Cha!Nodes /\ node[n] # None /\ node[n] \in Cha!Row
    BY DEF Cha!UpdateChapter, Cha!UpdateTopic, Compared, Cha!TypeOK, Cha!Nodes
<1>2. /\ row \in Cha!Row /\ row.structure = node[n].structure
      /\ row.type = node[n].type /\ row.parent = node[n].parent
    BY <1>1 DEF Cha!Row
<1>3. Cha!Enter(h, "update", n, row) /\ (row.parent # None \/ row.type = "CHAPTER" => ~Cha!Titled(row, n))
    BY <1>1, <1>2 DEF Cha!UpdateChapter, Cha!UpdateTopic, Cha!Row
<1> HIDE DEF row
<1>4. ASSUME n \notin loose PROVE StillJudged(n, row)
    <2>1. Placed(row)
        BY <1>1, <1>2, <1>4 DEF Compared, NodesPlaced, Placed
    <2>2. link[row.structure] # None
        BY <1>1, <1>2, <1>4 DEF Compared, Cha!ChaptersHaveSubject
    <2>3. row.type # "CHAPTER" => row.parent # None
        BY <2>1 DEF Placed
    <2> QED BY <1>2, <1>3, <2>1, <2>2, <2>3, TitledSees DEF StillJudged
<1> QED BY <1>1, <1>2, <1>3, <1>4, EnterCompared

\* What is written is what was judged, or is loose by then.
LEMMA WriteCompared ==
    ASSUME Cha!NoneIsNothing, Compared, NEW h \in Handler, Cha!Write(h)
    PROVE  Compared'
<1> DEFINE c == chapterCall[h]
           n == c.of
<1>1. /\ h \in Cha!Busy /\ c # Cha!Idle /\ n \in Node /\ c.row \in Cha!Row
      /\ c.op \in {"create", "update"} /\ c.row.title \in Name
    BY DEF Cha!Write, Cha!Busy, Compared, Cha!TypeOK, Cha!Row
<1>2. node \in [Node -> Cha!Row \cup {None}] /\ loose \subseteq Node
    BY DEF Compared, Cha!TypeOK
<1>3. c.op = "update" => node[n] \in Cha!Row /\ node[n] # None
    BY <1>1, <1>2 DEF Compared, Staying
<1>4. /\ node' = IF c.op = "update" THEN [node EXCEPT ![n].title = c.row.title]
                  ELSE [node EXCEPT ![n] = c.row]
      /\ chapterCall' = [chapterCall EXCEPT ![h] = Cha!Idle] /\ UNCHANGED <<mapped, link>>
      /\ loose' = IF Cha!Busy = {h} THEN loose
                  ELSE loose \cup {chapterCall[g].of : g \in Cha!Busy}
    BY DEF Cha!Write
<1>5. \A q \in Node \ {n} : node'[q] = node[q]
    BY <1>2, <1>4
<1>6. /\ node'[n] \in Cha!Row /\ Alike(node'[n], c.row)
      /\ node' \in [Node -> Cha!Row \cup {None}]
    <2>1. CASE c.op = "update"
        <3> DEFINE r == [node[n] EXCEPT !.title = c.row.title]
        <3>1. r \in Cha!Row /\ Alike(r, c.row)
            BY <1>1, <1>3, <2>1 DEF Cha!Row, Alike, Compared, Staying
        <3>2. node' = [node EXCEPT ![n] = r]
            BY <1>4, <2>1
        <3> HIDE DEF r
        <3> QED BY <1>1, <1>2, <3>1, <3>2
    <2>2. CASE c.op # "update"
        BY <1>1, <1>2, <1>4, <2>2 DEF Alike
    <2> QED BY <2>1, <2>2
<1>7. node'[n] # None
    BY <1>6 DEF Cha!NoneIsNothing
<1>8. /\ Cha!Busy' = Cha!Busy \ {h} /\ ChapterCalls'
      /\ \A g \in Cha!Busy' : g \in Handler \ {h} /\ chapterCall'[g] = chapterCall[g]
    BY <1>4 DEF Cha!Busy, Compared, ChapterCalls
<1>9. loose \subseteq loose' /\ loose' \subseteq Node
    BY <1>2, <1>4 DEF Compared, Cha!TypeOK
<1>10. \A g \in Cha!Busy' : chapterCall[g].of \in loose'
    BY <1>1, <1>4, <1>8
<1>11. n \notin loose' => n \notin loose /\ StillJudged(n, c.row)
    BY <1>1, <1>9 DEF Compared, Judged
<1>12. Cha!Nodes' \ {n} = Cha!Nodes \ {n}
    BY <1>5 DEF Cha!Nodes
<1>13. Cha!TypeOK'
    BY <1>4, <1>6, <1>8, <1>9 DEF Compared, Cha!TypeOK
<1>14. NodesPlaced'
    BY <1>5, <1>6, <1>9, <1>11, <1>12 DEF Compared, NodesPlaced, Placed, StillJudged, Alike,
        Cha!Nodes
<1>15. Reserved'
    BY <1>1, <1>5, <1>8 DEF Compared, Reserved, Cha!TypeOK
<1>16. Staying'
    <2> SUFFICES ASSUME NEW g \in Cha!Busy', chapterCall'[g].op = "update"
                 PROVE  /\ node'[chapterCall'[g].of] # None
                        /\ chapterCall'[g].row.structure = node'[chapterCall'[g].of].structure
                        /\ chapterCall'[g].row.type = node'[chapterCall'[g].of].type
                        /\ chapterCall'[g].row.parent = node'[chapterCall'[g].of].parent
        BY DEF Staying
    <2>1. g \in Cha!Busy /\ chapterCall'[g] = chapterCall[g] /\ chapterCall[g].of \in Node
        BY <1>8 DEF Compared, Cha!TypeOK
    <2>2. CASE chapterCall[g].of # n
        BY <1>5, <2>1, <2>2 DEF Compared, Staying
    <2>3. CASE chapterCall[g].of = n
        <3>1. c.op = "update"
            BY <1>1, <1>8, <2>1, <2>3 DEF Compared, Reserved
        <3> QED BY <1>1, <1>6, <1>7, <2>1, <2>3, <3>1 DEF Compared, Staying, Alike
    <2> QED BY <2>2, <2>3
<1>17. Judged'
    BY <1>8, <1>10 DEF Judged
<1>18. Cha!TitlesDistinct'
    <2> SUFFICES ASSUME NEW q \in Cha!Nodes' \ loose', NEW r \in Cha!Nodes' \ loose', q # r,
                        node'[q].structure = node'[r].structure, node'[q].type = node'[r].type,
                        node'[q].parent = node'[r].parent, node'[q].title = node'[r].title
                 PROVE  FALSE
        BY DEF Cha!TitlesDistinct
    <2>1. CASE q # n /\ r # n
        BY <1>5, <1>9, <1>12, <2>1 DEF Compared, Cha!TitlesDistinct, Cha!Nodes
    <2>2. CASE q = n
        BY <1>5, <1>6, <1>9, <1>11, <1>12, <2>2 DEF StillJudged, Alike, Cha!Nodes
    <2>3. CASE r = n
        BY <1>5, <1>6, <1>9, <1>11, <1>12, <2>3 DEF StillJudged, Alike, Cha!Nodes
    <2> QED BY <2>1, <2>2, <2>3
<1>19. Cha!ChaptersHaveSubject'
    BY <1>4, <1>5, <1>6, <1>9, <1>11, <1>12
    DEF Compared, Cha!ChaptersHaveSubject, StillJudged, Alike, Cha!Nodes
<1> QED BY <1>8, <1>13, <1>14, <1>15, <1>16, <1>17, <1>18, <1>19 DEF Compared

\* The architect's nodes are loose from the start.
LEMMA AddCompared ==
    ASSUME Cha!NoneIsNothing, Compared, NEW n \in Node, NEW row \in Cha!Row, Cha!AddNode(n, row)
    PROVE  Compared'
<1>1. /\ node \in [Node -> Cha!Row \cup {None}] /\ loose \subseteq Node
      /\ node[n] = None /\ \A h \in Cha!Busy : chapterCall[h].of # n
      /\ node' = [node EXCEPT ![n] = row] /\ loose' = loose \cup {n}
      /\ UNCHANGED <<mapped, link, chapterCall>>
    BY DEF Compared, Cha!TypeOK, Cha!AddNode, Cha!Free, Cha!Busy
<1>2. \A q \in Node \ {n} : node'[q] = node[q]
    BY <1>1
<1>3. Cha!Busy' = Cha!Busy /\ Cha!Nodes' \ loose' = Cha!Nodes \ loose'
    BY <1>1, <1>2 DEF Cha!Busy, Cha!Nodes
<1>4. Cha!TypeOK' /\ ChapterCalls'
    BY <1>1, <1>3 DEF Compared, Cha!TypeOK, ChapterCalls
<1>5. NodesPlaced' /\ Cha!TitlesDistinct' /\ Cha!ChaptersHaveSubject'
    BY <1>1, <1>2, <1>3
    DEF Compared, NodesPlaced, Placed, Cha!TitlesDistinct, Cha!ChaptersHaveSubject, Cha!Nodes
<1>6. Reserved' /\ Staying'
    BY <1>1, <1>2, <1>3 DEF Compared, Reserved, Staying, Cha!TypeOK
<1>7. Judged'
    BY <1>1, <1>2, <1>3 DEF Compared, Judged, StillJudged, Placed, Alike, Cha!Nodes
<1> QED BY <1>4, <1>5, <1>6, <1>7 DEF Compared

LEMMA FailCompared ==
    ASSUME Compared, NEW h \in Handler, Cha!Fail(h)
    PROVE  Compared'
<1>1. /\ Cha!Busy' = Cha!Busy \ {h} /\ ChapterCalls' /\ Cha!Nodes' = Cha!Nodes
      /\ \A g \in Cha!Busy' : g \in Handler \ {h} /\ chapterCall'[g] = chapterCall[g]
    BY DEF Cha!Fail, Cha!Busy, Cha!Nodes, Compared, ChapterCalls
<1>2. Cha!TypeOK' /\ NodesPlaced' /\ Reserved' /\ Staying'
    BY <1>1 DEF Cha!Fail, Compared, Cha!TypeOK, NodesPlaced, Placed, Reserved, Staying
<1>3. Judged' /\ Cha!TitlesDistinct' /\ Cha!ChaptersHaveSubject'
    BY <1>1 DEF Cha!Fail, Compared, Judged, StillJudged, Placed, Alike, Cha!TitlesDistinct,
        Cha!ChaptersHaveSubject
<1> QED BY <1>1, <1>2, <1>3 DEF Compared

LEMMA StepCompared ==
    ASSUME Cha!NoneIsNothing, Compared, [Cha!Next]_(Cha!vars)
    PROVE  Compared'
<1>1. ASSUME NEW m \in Linked, Cha!Map(m) PROVE Compared'
    BY <1>1, LinkCompared DEF Cha!Map, Compared, Cha!TypeOK
<1>2. ASSUME NEW m \in Linked, NEW s \in Structure, Cha!Link(s, m) PROVE Compared'
    <2>1. link' \in Cha!Links /\ \A t \in Structure : link[t] # None => link'[t] # None
        BY <1>2 DEF Cha!Link, Compared, Cha!TypeOK, Cha!Links, Cha!NoneIsNothing
    <2> QED BY <1>2, <2>1, LinkCompared DEF Cha!Link, Compared, Cha!TypeOK
<1>3. ASSUME NEW h \in Handler, NEW n \in Node, NEW t \in Name, NEW s \in Structure,
             Cha!CreateChapter(h, n, s, t)
      PROVE  Compared'
    BY <1>3, CreateCompared DEF Cha!CreateChapter
<1>4. ASSUME NEW h \in Handler, NEW n \in Node, NEW t \in Name, NEW p \in Node,
             Cha!CreateTopic(h, n, p, t)
      PROVE  Compared'
    <2>1. node[p].structure \in Structure
        BY <1>4 DEF Cha!CreateTopic, Cha!Nodes, Compared, Cha!TypeOK, Cha!Row
    <2> QED BY <1>4, <2>1, CreateCompared DEF Cha!CreateTopic
<1>5. CASE UNCHANGED Cha!vars
    BY <1>5, LinkCompared DEF Cha!vars, Compared, Cha!TypeOK
<1> QED BY <1>1, <1>2, <1>3, <1>4, <1>5, UpdateCompared, WriteCompared, AddCompared, FailCompared
    DEF Cha!Next

\* The invariant: every request's row is still what was judged, or its node is loose.
THEOREM ComparedInvariant ==
    ASSUME Cha!NoneIsNothing
    PROVE  Cha!Spec => []Compared
<1>1. Cha!Init => Compared
    BY InitCompared
<1>2. Compared /\ [Cha!Next]_(Cha!vars) => Compared'
    BY StepCompared
<1> QED BY <1>1, <1>2, PTL DEF Cha!Spec

\* The variables of the chapters keep their types.
THEOREM ChaptersTyped ==
    ASSUME Cha!NoneIsNothing
    PROVE  Cha!Spec => []Cha!TypeOK
<1>1. Compared => Cha!TypeOK
    BY DEF Compared
<1> QED BY <1>1, ComparedInvariant, PTL

\* The chapters that were compared with each other have titles of their own.
THEOREM ChapterTitlesDistinct ==
    ASSUME Cha!NoneIsNothing
    PROVE  Cha!Spec => []Cha!TitlesDistinct
<1>1. Compared => Cha!TitlesDistinct
    BY DEF Compared
<1> QED BY <1>1, ComparedInvariant, PTL

\* Where the chapter service has put something there is a subject.
THEOREM SubjectsKept ==
    ASSUME Cha!NoneIsNothing
    PROVE  Cha!Spec => []Cha!ChaptersHaveSubject
<1>1. Compared => Cha!ChaptersHaveSubject
    BY DEF Compared
<1> QED BY <1>1, ComparedInvariant, PTL

-----------------------------------------------------------------------------
(* Learning resources *)

Rows == [Resource -> Lib!ResourceRow \cup {Lib!NoRow}]

\* What a request would leave a resource with as topic and title.
Goal(c) ==
    IF c.op = "create" THEN <<c.topic, c.title>>
    ELSE <<Lib!Given(c.topic, res[c.of].topic), Lib!Given(c.title, res[c.of].title)>>

\* A request has a resource: one that is there, or, if it creates, one that is nobody's.
Owning ==
    \A h \in Lib!Busy :
      LET c == resourceCall[h] IN
      /\ c.of \in Resource /\ c.op \in {"create", "update", "publish", "archive"}
      /\ c.op = "create" => /\ c.title \in Title /\ res[c.of] = Lib!NoRow
                            /\ \A g \in Lib!Busy : resourceCall[g].of = c.of => g = h
      /\ c.op # "create" => res[c.of] # Lib!NoRow

\* What it was checked against is still so, or its resource is written down as one of
\* overlapping requests.
Current ==
    \A h \in Lib!Busy :
      LET c == resourceCall[h] IN
      c.of \notin stale =>
        /\ c.op # "create" => res[c.of].status \in {"DRAFT", "PUBLISHED"}
        /\ (c.op = "create" \/ (c.op = "update" /\ c.title # None)) /\ Goal(c)[1] # None =>
               \A q \in Resource \ {c.of} : <<res[q].topic, res[q].title>> # Goal(c)

Approved == Lib!TypeOK /\ res \in Rows /\ Owning /\ Current /\ Lib!PublishedApproved

LEMMA InitApproved ==
    ASSUME Lib!NoneIsNothing, Lib!Init
    PROVE  Approved
<1>1. Lib!Busy = {}
    BY DEF Lib!Init, Lib!Busy
<1>2. Lib!TypeOK /\ res \in Rows
    BY DEF Lib!Init, Lib!TypeOK, Lib!Idle, Rows
<1>3. Lib!PublishedApproved
    BY DEF Lib!Init, Lib!NoRow, Lib!PublishedApproved, Lib!NoneIsNothing
<1> QED BY <1>1, <1>2, <1>3 DEF Approved, Owning, Current

\* A request comes in whose checks hold now.
LEMMA EnterApproved ==
    ASSUME Lib!NoneIsNothing, Approved, NEW h \in Handler, NEW r \in Resource,
           NEW op \in {"create", "update", "publish", "archive"},
           NEW topic \in Topic \cup {None}, NEW title \in Title \cup {None},
           Lib!Enter(h, op, r, topic, title),
           op = "create" => /\ title \in Title /\ res[r] = Lib!NoRow
                            /\ \A g \in Handler : resourceCall[g].of # r,
           op # "create" => res[r].status \in {"DRAFT", "PUBLISHED"},
           op = "create" \/ (op = "update" /\ title # None) =>
             LET goal == IF op = "create" THEN topic ELSE Lib!Given(topic, res[r].topic) IN
             goal # None => ~Lib!Titled(goal, title, r)
    PROVE  Approved'
<1> DEFINE c == [op |-> op, of |-> r, topic |-> topic, title |-> title]
<1>1. c.op = op /\ c.of = r /\ c.topic = topic /\ c.title = title /\ c # Lib!Idle
    BY DEF Lib!NoneIsNothing, Lib!Idle
<1>2. c \in [op : {None, "create", "update", "publish", "archive"}, of : Resource \cup {None},
              topic : Topic \cup {None}, title : Title \cup {None}]
    OBVIOUS
<1>3. resourceCall' = [resourceCall EXCEPT ![h] = c] /\ UNCHANGED <<res, stale>> /\ h \notin Lib!Busy
    BY DEF Lib!Enter, Lib!Busy
<1> HIDE DEF c
<1>4. resourceCall'[h] = c /\ \A g \in Handler \ {h} : resourceCall'[g] = resourceCall[g]
    BY <1>3 DEF Approved, Lib!TypeOK
<1>5. Lib!Busy' = Lib!Busy \cup {h} /\ \A g \in Lib!Busy : g \in Handler \ {h}
    BY <1>1, <1>3, <1>4 DEF Lib!Busy
<1>6. Lib!TypeOK' /\ (res \in Rows)' /\ Lib!PublishedApproved'
    BY <1>2, <1>3 DEF Approved, Lib!TypeOK, Rows, Lib!PublishedApproved
<1>7. op # "create" => res[r] # Lib!NoRow
    BY DEF Lib!NoneIsNothing, Lib!NoRow
<1>8. Owning'
    BY <1>1, <1>3, <1>4, <1>5, <1>7 DEF Approved, Owning
<1>9. Current'
    BY <1>1, <1>3, <1>4, <1>5 DEF Approved, Current, Goal, Lib!Titled, Lib!Given
<1> QED BY <1>6, <1>8, <1>9 DEF Approved

\* What is written to the one resource: a row that only publishing makes one that students
\* see, with the request's topic and title.
LEMMA WrittenRow ==
    ASSUME Lib!NoneIsNothing, Approved, NEW h \in Lib!Busy
    PROVE  LET c == resourceCall[h]  row == Lib!Written(c, res[c.of]) IN
           /\ row \in Lib!ResourceRow /\ row # Lib!NoRow
           /\ (res[c.of].status = "PUBLISHED" => res[c.of].approved)
                => (row.status = "PUBLISHED" => row.approved)
           /\ c.op \in {"create", "update"} => <<row.topic, row.title>> = Goal(c)
           /\ c.op \notin {"create", "update"} => row.topic = res[c.of].topic /\ row.title = res[c.of].title
<1> DEFINE c == resourceCall[h]
           old == res[c.of]
           row == Lib!Written(c, old)
<1>1. /\ c.of \in Resource /\ c.op \in {"create", "update", "publish", "archive"}
      /\ c.topic \in Topic \cup {None} /\ c.title \in Title \cup {None}
      /\ c.op = "create" => c.title \in Title
      /\ c.op # "create" => old \in Lib!ResourceRow
    BY DEF Approved, Owning, Lib!TypeOK, Lib!Busy
<1>2. CASE c.op = "create"
    <2>1. row = [status |-> "DRAFT", topic |-> c.topic, title |-> c.title, approved |-> FALSE]
        BY <1>2 DEF Lib!Written
    <2> QED BY <1>1, <1>2, <2>1 DEF Lib!ResourceRow, Lib!NoRow, Lib!NoneIsNothing, Goal
<1>3. CASE c.op = "update"
    <2>1. row = [old EXCEPT !.topic = Lib!Given(c.topic, old.topic), !.title = Lib!Given(c.title, old.title)]
        BY <1>3 DEF Lib!Written
    <2>2. Lib!Given(c.topic, old.topic) \in Topic \cup {None} /\ Lib!Given(c.title, old.title) \in Title
        BY <1>1, <1>3 DEF Lib!Given, Lib!ResourceRow
    <2> HIDE DEF row
    <2>3. /\ row \in Lib!ResourceRow /\ row.status = old.status /\ row.approved = old.approved
          /\ row.topic = Lib!Given(c.topic, old.topic) /\ row.title = Lib!Given(c.title, old.title)
        BY <1>1, <1>3, <2>1, <2>2 DEF Lib!ResourceRow
    <2> QED BY <1>1, <1>3, <2>3 DEF Lib!ResourceRow, Lib!NoRow, Lib!NoneIsNothing, Goal, row
<1>4. CASE c.op \in {"publish", "archive"}
    <2>1. row = IF c.op = "publish" THEN [old EXCEPT !.status = "PUBLISHED", !.approved = TRUE]
                                    ELSE [old EXCEPT !.status = "ARCHIVED"]
        BY <1>4 DEF Lib!Written, Lib!SetStatus
    <2> HIDE DEF row
    <2>2. /\ row \in Lib!ResourceRow /\ (row.status = "PUBLISHED" => row.approved)
          /\ row.topic = old.topic /\ row.title = old.title
        BY <1>1, <1>4, <2>1 DEF Lib!ResourceRow
    <2> QED BY <1>4, <2>2 DEF Lib!ResourceRow, Lib!NoRow, Lib!NoneIsNothing, row
<1> QED BY <1>1, <1>2, <1>3, <1>4

LEMMA LibraryWriteApproved ==
    ASSUME Lib!NoneIsNothing, Approved, NEW h \in Handler, Lib!Write(h)
    PROVE  Approved'
<1> DEFINE c == resourceCall[h]
           n == c.of
           row == Lib!Written(c, res[n])
<1>1. h \in Lib!Busy /\ n \in Resource
    BY DEF Lib!Write, Lib!Busy, Approved, Owning
<1>2. row \in Lib!ResourceRow /\ row # Lib!NoRow /\ (row.status = "PUBLISHED" => row.approved)
    BY <1>1, WrittenRow DEF Approved, Lib!PublishedApproved
<1>3. /\ res' = [res EXCEPT ![n] = row] /\ resourceCall' = [resourceCall EXCEPT ![h] = Lib!Idle]
      /\ stale' = IF Lib!Busy = {h} THEN stale ELSE stale \cup {resourceCall[g].of : g \in Lib!Busy}
    BY DEF Lib!Write
<1> HIDE DEF row
<1>4. /\ Lib!Busy' = Lib!Busy \ {h}
      /\ \A g \in Lib!Busy' : g \in Handler \ {h} /\ resourceCall'[g] = resourceCall[g]
    BY <1>3 DEF Lib!Busy, Approved, Lib!TypeOK
<1>5. /\ \A g \in Lib!Busy' : resourceCall'[g].of \in stale'
      /\ stale' \subseteq Resource
    BY <1>1, <1>3, <1>4 DEF Approved, Owning, Lib!TypeOK
<1>6. (res \in Rows)' /\ res'[n] = row /\ \A q \in Resource \ {n} : res'[q] = res[q]
    BY <1>1, <1>2, <1>3 DEF Approved, Rows
<1>7. Lib!Idle \in [op : {None, "create", "update", "publish", "archive"}, of : Resource \cup {None},
                     topic : Topic \cup {None}, title : Title \cup {None}]
    BY DEF Lib!Idle
<1>8. Lib!TypeOK'
    BY <1>3, <1>5, <1>6, <1>7 DEF Approved, Lib!TypeOK, Rows
<1>9. Owning'
    BY <1>1, <1>2, <1>4, <1>6 DEF Approved, Owning
<1>10. Current'
    BY <1>4, <1>5 DEF Current
<1>11. Lib!PublishedApproved'
    BY <1>2, <1>6 DEF Approved, Lib!PublishedApproved
<1> QED BY <1>6, <1>8, <1>9, <1>10, <1>11 DEF Approved

LEMMA LibraryFailApproved ==
    ASSUME Approved, NEW h \in Handler, Lib!Fail(h)
    PROVE  Approved'
<1>1. /\ Lib!Busy' = Lib!Busy \ {h}
      /\ \A g \in Lib!Busy' : g \in Handler \ {h} /\ resourceCall'[g] = resourceCall[g]
    BY DEF Lib!Fail, Lib!Busy, Approved, Lib!TypeOK
<1>2. Lib!Idle \in [op : {None, "create", "update", "publish", "archive"}, of : Resource \cup {None},
                     topic : Topic \cup {None}, title : Title \cup {None}]
    BY DEF Lib!Idle
<1>3. Lib!TypeOK' /\ (res \in Rows)' /\ Lib!PublishedApproved'
    BY <1>2 DEF Lib!Fail, Approved, Lib!TypeOK, Rows, Lib!PublishedApproved
<1>4. Owning' /\ Current'
    BY <1>1 DEF Lib!Fail, Approved, Owning, Current, Goal
<1> QED BY <1>3, <1>4 DEF Approved

LEMMA StepApproved ==
    ASSUME Lib!NoneIsNothing, Approved, [Lib!Next]_(Lib!vars)
    PROVE  Approved'
<1>1. ASSUME NEW h \in Handler, NEW r \in Resource, NEW topic \in Topic \cup {None}, NEW title \in Title,
             Lib!BeginCreate(h, r, topic, title)
      PROVE  Approved'
    BY <1>1, EnterApproved DEF Lib!BeginCreate
<1>2. ASSUME NEW h \in Handler, NEW r \in Resource, NEW topic \in Topic \cup {None},
             NEW title \in Title \cup {None}, Lib!BeginUpdate(h, r, topic, title)
      PROVE  Approved'
    BY <1>2, EnterApproved DEF Lib!BeginUpdate, Lib!Given
<1>3. ASSUME NEW h \in Handler, NEW r \in Resource, Lib!BeginPublish(h, r) PROVE Approved'
    BY <1>3, EnterApproved DEF Lib!BeginPublish
<1>4. ASSUME NEW h \in Handler, NEW r \in Resource, Lib!BeginArchive(h, r) PROVE Approved'
    BY <1>4, EnterApproved DEF Lib!BeginArchive
<1>5. CASE UNCHANGED Lib!vars
    BY <1>5 DEF Lib!vars, Approved, Lib!TypeOK, Rows, Lib!Busy, Owning, Current, Goal,
        Lib!PublishedApproved
<1> QED BY <1>1, <1>2, <1>3, <1>4, <1>5, LibraryWriteApproved, LibraryFailApproved DEF Lib!Next

\* The invariant: the checks of every request still hold, or its resource is stale.
THEOREM ApprovedInvariant ==
    ASSUME Lib!NoneIsNothing
    PROVE  Lib!Spec => []Approved
<1>1. Lib!Init => Approved
    BY InitApproved
<1>2. Approved /\ [Lib!Next]_(Lib!vars) => Approved'
    BY StepApproved
<1> QED BY <1>1, <1>2, PTL DEF Lib!Spec

\* Only a write changes resources, and only the one of its request.
LEMMA OnlyWrites ==
    ASSUME Approved, Lib!Next, res' # res
    PROVE  \E h \in Lib!Busy : /\ Lib!Write(h)
                               /\ res' = [res EXCEPT ![resourceCall[h].of] = Lib!Written(resourceCall[h], @)]
BY DEF Lib!Next, Lib!BeginCreate, Lib!BeginUpdate, Lib!BeginPublish, Lib!BeginArchive, Lib!Enter,
       Lib!Fail, Lib!Write, Lib!Busy

\* The variables of the resources keep their types.
THEOREM ResourcesTyped ==
    ASSUME Lib!NoneIsNothing
    PROVE  Lib!Spec => []Lib!TypeOK
<1>1. Approved => Lib!TypeOK
    BY DEF Approved
<1> QED BY <1>1, ApprovedInvariant, PTL

\* An archived resource comes back only through overlapping requests.
THEOREM ArchivedForGood ==
    ASSUME Lib!NoneIsNothing
    PROVE  Lib!Spec => [][Lib!ArchivedStays]_(Lib!vars)
<1>1. Approved /\ Lib!Next => Lib!ArchivedStays
    <2> SUFFICES ASSUME Approved, Lib!Next, NEW r \in Resource, res[r].status = "ARCHIVED",
                        res'[r] # res[r], r \notin stale
                 PROVE  FALSE
        BY DEF Lib!ArchivedStays
    <2>1. PICK h \in Lib!Busy : res' = [res EXCEPT ![resourceCall[h].of] = Lib!Written(resourceCall[h], @)]
        BY OnlyWrites
    <2>2. resourceCall[h].of = r
        BY <2>1 DEF Approved, Rows
    <2> QED BY <2>2 DEF Approved, Owning, Current, Lib!NoRow, Lib!NoneIsNothing
<1> QED BY <1>1, ApprovedInvariant, PTL DEF Lib!Spec

\* No step uses a title twice in a topic, unless it is one of overlapping requests or moves
\* a resource under its old title.
THEOREM TopicTitlesDistinct ==
    ASSUME Lib!NoneIsNothing
    PROVE  Lib!Spec => [][Lib!TitlesDistinct]_(Lib!vars)
<1>1. Approved /\ Lib!Next => Lib!TitlesDistinct
    <2> SUFFICES ASSUME Approved, Lib!Next, NEW r \in Resource, NEW q \in Resource,
                        r # q, res'[r].topic # None,
                        res'[r].topic = res'[q].topic, res'[r].title = res'[q].title,
                        ~(res[r].topic = res[q].topic /\ res[r].title = res[q].title),
                        r \notin stale', q \notin stale'
                 PROVE  \E h \in Handler : /\ resourceCall[h].op = "update" /\ resourceCall[h].title = None
                                           /\ resourceCall[h].of \in {r, q} /\ resourceCall'[h] = Lib!Idle
        BY DEF Lib!TitlesDistinct
    <2>1. PICK h \in Lib!Busy :
            /\ Lib!Write(h)
            /\ res' = [res EXCEPT ![resourceCall[h].of] = Lib!Written(resourceCall[h], @)]
        BY OnlyWrites
    <2> DEFINE c == resourceCall[h]
    <2>2. h \in Handler /\ resourceCall'[h] = Lib!Idle /\ stale \subseteq stale'
        BY <2>1 DEF Lib!Write, Lib!Busy, Approved, Lib!TypeOK
    <2>3. c.of \in Resource /\ res'[c.of] = Lib!Written(c, res[c.of]) /\ \A x \in Resource \ {c.of} : res'[x] = res[x]
        BY <2>1 DEF Approved, Rows, Owning
    <2>4. c.of \in {r, q}
        BY <2>3
    <2>5. /\ c.op \in {"create", "update"} => <<res'[c.of].topic, res'[c.of].title>> = Goal(c)
          /\ c.op \notin {"create", "update"} => res'[c.of].topic = res[c.of].topic /\ res'[c.of].title = res[c.of].title
        BY <2>1, <2>3, WrittenRow
    <2>6. c.op \in {"create", "update"}
        BY <2>3, <2>4, <2>5
    <2>7. Goal(c)[1] = res'[c.of].topic /\ Goal(c)[2] = res'[c.of].title
        BY <2>5, <2>6
    <2>8. \E x \in Resource \ {c.of} : <<res[x].topic, res[x].title>> = Goal(c)
        BY <2>3, <2>4, <2>5, <2>6
    <2>9. ~(c.op = "create" \/ (c.op = "update" /\ c.title # None))
        BY <2>1, <2>2, <2>4, <2>7, <2>8 DEF Approved, Current
    <2>10. c.op = "update" /\ c.title = None
        BY <2>6, <2>9
    <2> QED BY <2>2, <2>4, <2>10
<1> QED BY <1>1, ApprovedInvariant, PTL DEF Lib!Spec

\* What students may see was approved.
THEOREM StudentsSeeApproved ==
    ASSUME Lib!NoneIsNothing
    PROVE  Lib!Spec => []Lib!PublishedApproved
<1>1. Approved => Lib!PublishedApproved
    BY DEF Approved
<1> QED BY <1>1, ApprovedInvariant, PTL

-----------------------------------------------------------------------------
(* Tool runs *)

\* A child keeps its nature, and its exit once it has exited.
Children == child \in Run!Child

Signal == {"SIGTERM", "SIGKILL"}

Timed ==
    /\ timedOut \in BOOLEAN
    /\ timer \in {"armed", "cleared"} <=> ~timedOut
    /\ timedOut <=> signals # <<>>
    /\ timedOut => child.state # "new"
    /\ signals \in Seq(Signal)

Counted ==
    /\ captured \in Nat /\ produced \in Nat /\ truncated \in BOOLEAN
    /\ ~truncated => captured = produced
    /\ truncated => captured = MaxOutput /\ produced > MaxOutput
    /\ captured <= MaxOutput

Reported == Children /\ Timed /\ Run!OutcomeTruthful

\* What the steps do to a child: it starts, it ends, or it loses its heir.
ChildStep ==
    /\ child' \in Run!Child
    /\ child'.killable = child.killable
    /\ child'.state = "new" => child.state = "new"
    /\ child.state = "exited" => child'.state = "exited" /\ child'.exit = child.exit

LEMMA ChildSteps ==
    ASSUME Children, Run!Next
    PROVE  ChildStep
<1> USE DEF Children, Run!Child, Run!Exit, ChildStep
<1>1. CASE UNCHANGED child
    BY <1>1
<1>2. CASE Run!Spawn
    BY <1>2 DEF Run!Spawn
<1>3. CASE Run!ChildExits
    BY <1>3 DEF Run!ChildExits
<1>4. CASE Run!HeirEnds
    BY <1>4 DEF Run!HeirEnds
<1>5. ASSUME NEW signal, Run!Send(signal) PROVE ChildStep
    BY <1>5 DEF Run!Send
<1>6. CASE Run!Timeout \/ Run!ForceKill
    BY <1>5, <1>6 DEF Run!Timeout, Run!ForceKill
<1> QED
    BY <1>1, <1>2, <1>3, <1>4, <1>6 DEF Run!Next, Run!SpawnThrows, Run!Data, Run!ErrorEvent,
        Run!Close

\* Outcomes are written by Finish alone, each with what it says of its child.
Says(o) ==
    /\ o.status = "success" => child.state = "exited" /\ child.exit = "zero" /\ ~o.timedOut
    /\ o.timedOut <=> o.status = "timeout"
    /\ o.status = "timeout" => o.signals # <<>> /\ (child.state = "exited" \/ ~child.killable)

LEMMA OutcomeSteps ==
    ASSUME Reported, Run!Next
    PROVE  \/ outcome' = outcome
           \/ Says(outcome') /\ UNCHANGED <<child, timedOut, signals>>
<1> USE DEF Reported, Children, Run!Child, Timed
<1>1. CASE Run!SpawnThrows
    BY <1>1 DEF Run!SpawnThrows, Run!Finish, Says, Run!Outcome
<1>2. CASE Run!ErrorEvent
    BY <1>2 DEF Run!ErrorEvent, Run!Finish, Says, Run!Outcome
<1>3. CASE Run!Close
    BY <1>3 DEF Run!Close, Run!Finish, Says, Run!Outcome
<1> QED
    BY <1>1, <1>2, <1>3
    DEF Run!Next, Run!Spawn, Run!ChildExits, Run!HeirEnds, Run!Data, Run!Timeout, Run!ForceKill

LEMMA TimersStep ==
    ASSUME Children, Timed, Run!Next
    PROVE  Timed'
<1> USE DEF Timed
<1>1. child'.state = "new" => child.state = "new"
    BY ChildSteps DEF ChildStep
<1>2. CASE UNCHANGED <<timer, timedOut, signals>>
    BY <1>1, <1>2
<1>3. ASSUME NEW o, Run!Finish(o) PROVE timer' \in {"armed", "cleared"} <=> timer \in {"armed", "cleared"}
    BY <1>3 DEF Run!Finish
<1>4. CASE Run!SpawnThrows \/ Run!ErrorEvent \/ Run!Close
    <2>1. UNCHANGED <<child, timedOut, signals>>
        BY <1>4 DEF Run!SpawnThrows, Run!ErrorEvent, Run!Close
    <2>2. \E o : Run!Finish(o)
        BY <1>4 DEF Run!SpawnThrows, Run!ErrorEvent, Run!Close
    <2> QED
        BY <1>3, <2>1, <2>2
<1>5. CASE Run!Timeout
    <2>1. signals' = Append(signals, "SIGTERM") /\ signals' # <<>> /\ signals' \in Seq(Signal)
        BY <1>5, AppendProperties DEF Run!Timeout, Signal
    <2> QED
        BY <1>1, <1>5, <2>1 DEF Run!Timeout
<1>6. CASE Run!ForceKill
    <2>1. signals' = Append(signals, "SIGKILL") /\ signals' # <<>> /\ signals' \in Seq(Signal)
        BY <1>6, AppendProperties DEF Run!ForceKill, Signal
    <2> QED
        BY <1>1, <1>6, <2>1 DEF Run!ForceKill
<1> QED
    BY <1>2, <1>4, <1>5, <1>6 DEF Run!Next, Run!Spawn, Run!ChildExits, Run!HeirEnds, Run!Data

LEMMA ReportedInv == Run!Spec => []Reported
<1>1. Run!Init => Reported
    <2> SUFFICES ASSUME Run!Init PROVE Reported
        OBVIOUS
    <2>1. Children /\ Run!OutcomeTruthful
        BY DEF Run!Init, Children, Run!OutcomeTruthful
    <2>2. timer = "armed" /\ ~timedOut /\ timedOut \in BOOLEAN /\ signals = <<>>
        BY DEF Run!Init
    <2>4. <<>> \in Seq(Signal)
        OBVIOUS
    <2>3. Timed
        BY <2>2, <2>4 DEF Timed
    <2> QED
        BY <2>1, <2>3 DEF Reported
<1>2. Reported /\ [Run!Next]_(Run!vars) => Reported'
    <2> SUFFICES ASSUME Reported, [Run!Next]_(Run!vars) PROVE Reported'
        OBVIOUS
    <2>1. CASE UNCHANGED Run!vars
        BY <2>1 DEF Run!vars, Reported, Children, Timed, Run!OutcomeTruthful
    <2>2. CASE Run!Next
        <3>1. ChildStep /\ Timed'
            BY <2>2, ChildSteps, TimersStep DEF Reported
        <3>2. CASE outcome' = outcome
            BY <3>1, <3>2 DEF Reported, Children, ChildStep, Run!OutcomeTruthful
        <3>3. CASE Says(outcome') /\ UNCHANGED <<child, timedOut, signals>>
            BY <3>1, <3>3 DEF Says, Reported, Children, Run!OutcomeTruthful
        <3> QED
            BY <2>2, <3>1, <3>2, <3>3, OutcomeSteps DEF Reported, Children, ChildStep
    <2> QED
        BY <2>1, <2>2
<1> QED
    BY <1>1, <1>2, PTL DEF Run!Spec

\* A run is reported as a success only if its child ended by itself with exit code 0, and
\* as timed out only with the signals sent and no child left that a signal can reach.
THEOREM OutcomesTruthful == Run!Spec => []Run!OutcomeTruthful
<1>1. Reported => Run!OutcomeTruthful
    BY DEF Reported
<1> QED
    BY <1>1, ReportedInv, PTL

(* The captured output *)

LEMMA PushCounts ==
    ASSUME Run!Bounds, Counted, NEW n \in Nat \ {0}, Run!Push(n), produced' = produced + n
    PROVE  Counted'
<1> USE DEF Run!Bounds, Counted
<1>1. CASE MaxOutput - captured = 0
    BY <1>1 DEF Run!Push
<1>2. CASE MaxOutput - captured # 0 /\ n <= MaxOutput - captured
    BY <1>2 DEF Run!Push
<1>3. CASE MaxOutput - captured # 0 /\ ~(n <= MaxOutput - captured)
    BY <1>3 DEF Run!Push
<1> QED
    BY <1>1, <1>2, <1>3

LEMMA CountedInv == ASSUME Run!Bounds PROVE Run!Spec => []Counted
<1>1. Run!Init => Counted
    <2> SUFFICES ASSUME Run!Init PROVE Counted
        OBVIOUS
    <2>1. captured = 0 /\ produced = 0 /\ ~truncated /\ truncated \in BOOLEAN
        BY DEF Run!Init
    <2> QED
        BY <2>1 DEF Counted, Run!Bounds
<1>2. Counted /\ [Run!Next]_(Run!vars) => Counted'
    <2> SUFFICES ASSUME Counted, [Run!Next]_(Run!vars) PROVE Counted'
        OBVIOUS
    <2>1. CASE UNCHANGED <<captured, produced, truncated>>
        BY <2>1 DEF Counted
    <2>2. ASSUME NEW n \in 1 .. MaxChunk, Run!Data(n) PROVE Counted'
        BY <2>2, PushCounts DEF Run!Data, Run!Bounds
    <2> QED
        BY <2>1, <2>2
        DEF Run!Next, Run!vars, Run!SpawnThrows, Run!Spawn, Run!ChildExits, Run!HeirEnds, Run!Timeout,
            Run!ForceKill, Run!ErrorEvent, Run!Close
<1> QED
    BY <1>1, <1>2, PTL DEF Run!Spec

\* The capture keeps within its bound and says so exactly when bytes are missing, whatever
\* the sizes of the chunks.
THEOREM CaptureTruthful == ASSUME Run!Bounds PROVE Run!Spec => []Run!CaptureBounded
<1>1. Counted => Run!CaptureBounded
    BY DEF Counted, Run!CaptureBounded, Run!Bounds
<1> QED
    BY <1>1, CountedInv, PTL

(* The types *)

\* The signals sent are those of the timers that have fired.
Sent ==
    /\ timer \in {"armed", "cleared", "grace", "done"}
    /\ timer \in {"armed", "cleared"} => signals = <<>>
    /\ timer = "grace" => signals = <<"SIGTERM">>
    /\ timer = "done" => signals = <<"SIGTERM", "SIGKILL">>

Within == produced \in 0 .. MaxProduced

Named == outcome = None \/ outcome.status \in {"success", "failure", "timeout", "spawn-error"}

LEMMA SentBoth ==
    ASSUME NEW x \in Signal, NEW y \in Signal
    PROVE  Append(<<x>>, y) = <<x, y>>
<1>1. Len(Append(<<x>>, y)) = 2 /\ Append(<<x>>, y)[1] = x /\ Append(<<x>>, y)[2] = y
    OBVIOUS
<1>2. Append(<<x>>, y) \in Seq(Signal) /\ <<x, y>> \in Seq(Signal)
    OBVIOUS
<1>3. \A i \in 1 .. 2 : Append(<<x>>, y)[i] = <<x, y>>[i]
    BY <1>1
<1> QED
    BY <1>1, <1>2, <1>3, SeqEqual

LEMMA SentStep == ASSUME Sent, Run!Next PROVE Sent'
<1> USE DEF Sent
<1>1. CASE UNCHANGED <<timer, signals>>
    BY <1>1
<1>2. ASSUME NEW o, Run!Finish(o), UNCHANGED signals PROVE Sent'
    BY <1>2 DEF Run!Finish
<1>3. CASE Run!SpawnThrows \/ Run!ErrorEvent \/ Run!Close
    BY <1>2, <1>3 DEF Run!SpawnThrows, Run!ErrorEvent, Run!Close
<1>4. CASE Run!Timeout
    <2>1. signals' = <<"SIGTERM">>
        BY <1>4 DEF Run!Timeout
    <2> QED
        BY <1>4, <2>1 DEF Run!Timeout
<1>5. CASE Run!ForceKill
    <2>1. signals' = <<"SIGTERM", "SIGKILL">>
        BY <1>5, SentBoth DEF Run!ForceKill, Signal
    <2> QED
        BY <1>5, <2>1 DEF Run!ForceKill
<1> QED
    BY <1>1, <1>3, <1>4, <1>5 DEF Run!Next, Run!Spawn, Run!ChildExits, Run!HeirEnds, Run!Data

LEMMA NamedStep == ASSUME Named, Run!Next PROVE Named'
<1> USE DEF Named
<1>1. CASE outcome' = outcome
    BY <1>1
<1>2. ASSUME NEW word \in {"success", "failure", "timeout", "spawn-error"}, NEW exit, NEW terms,
             Run!Finish(Run!Outcome(word, exit, terms))
      PROVE  Named'
    BY <1>2 DEF Run!Finish, Run!Outcome
<1>3. CASE Run!SpawnThrows \/ Run!ErrorEvent \/ Run!Close
    BY <1>2, <1>3 DEF Run!SpawnThrows, Run!ErrorEvent, Run!Close
<1> QED
    BY <1>1, <1>3 DEF Run!Next, Run!Spawn, Run!ChildExits, Run!HeirEnds, Run!Data, Run!Timeout,
        Run!ForceKill

\* Every variable of a tool run keeps its type: SIGKILL is sent at most once and only
\* after SIGTERM.
THEOREM RunTyped == ASSUME Run!Bounds PROVE Run!Spec => []Run!TypeOK
<1>1. Run!Init => Sent /\ Within /\ Named
    BY DEF Run!Init, Sent, Within, Named, Run!Bounds
<1>2. Within /\ [Run!Next]_(Run!vars) => Within'
    <2>1. CASE UNCHANGED produced
        BY <2>1 DEF Within
    <2>2. ASSUME Within, NEW n \in 1 .. MaxChunk, Run!Data(n) PROVE Within'
        BY <2>2 DEF Within, Run!Data, Run!Bounds
    <2> QED
        BY <2>1, <2>2
        DEF Run!Next, Run!vars, Run!SpawnThrows, Run!Spawn, Run!ChildExits, Run!HeirEnds, Run!Timeout,
            Run!ForceKill, Run!ErrorEvent, Run!Close
<1>3. Sent /\ [Run!Next]_(Run!vars) => Sent'
    BY SentStep DEF Sent, Run!vars
<1>4. Named /\ [Run!Next]_(Run!vars) => Named'
    BY NamedStep DEF Named, Run!vars
<1>5. Reported /\ Counted /\ Sent /\ Within /\ Named => Run!TypeOK
    BY DEF Reported, Children, Timed, Counted, Sent, Within, Named, Run!TypeOK, Run!Bounds
<1> QED
    BY <1>1, <1>2, <1>3, <1>4, <1>5, ReportedInv, CountedInv, PTL DEF Run!Spec

-----------------------------------------------------------------------------
(* Academic calendars *)

\* A request that creates a period has its dates in order and an id of its own, which no
\* row has; what the others are about is a row that was there.
Booking(c) ==
    /\ c.op \in {"create", "update", "delete"} => c.of \in Period
    /\ c.op = "create" => c.input \in Cal!Row

IdReserved ==
      \A h \in Handler : calendarCall[h].op = "create" =>
        /\ periodRow[calendarCall[h].of] = None
        /\ \A g \in Handler \ {h} : calendarCall[g].of # calendarCall[h].of

Booked ==
    /\ Cal!TypeOK /\ Cal!PeriodsHeld /\ Cal!EventsOnPublished /\ IdReserved
    /\ \A h \in Handler : Booking(calendarCall[h])

CalendarCall == [op : {None, "create", "update", "delete", "publish", "retire"},
                 of : Period \cup {None}, input : Cal!Input]


LEMMA PeriodRowOf ==
    ASSUME Cal!DayBound, NEW i \in Cal!Input, i.from # None, i.to # None, i.from <= i.to
    PROVE  i \in Cal!Row
BY DEF Cal!DayBound, Cal!Input, Cal!Row, Cal!Day

LEMMA NoInputIs == Cal!NoInput \in Cal!Input
<1>1. PICK d : d = <<None, None>>
    OBVIOUS
<1>2. Cal!NoInput = [parent |-> None, from |-> d[1], to |-> d[2]]
    BY <1>1 DEF Cal!NoInput
<1>3. d \in Dates \cup {<<None, None>>} /\ None \in Period \cup {None}
    BY <1>1
<1> QED
    BY <1>2, <1>3 DEF Cal!Input

LEMMA IdleBooks ==
    ASSUME Cal!NoneIsNothing
    PROVE  Cal!Idle \in CalendarCall /\ Booking(Cal!Idle) /\ Cal!Idle.op = None /\ Cal!Idle.of = None
<1>1. Cal!NoInput \in Cal!Input
    BY NoInputIs
<1> QED
    BY <1>1 DEF Cal!NoneIsNothing, Cal!Idle, CalendarCall, Booking

LEMMA EnterBooks ==
    ASSUME Cal!NoneIsNothing, Booked, NEW h \in Handler,
           NEW op \in {"create", "update", "delete", "publish", "retire"}, NEW p \in Period \cup {None},
           NEW input \in Cal!Input, Cal!Enter(h, op, p, input),
           op \in {"create", "update", "delete"} => p \in Period,
           op = "create" => /\ input \in Cal!Row /\ periodRow[p] = None
                            /\ \A g \in Handler : calendarCall[g].of # p,
           op \in {"update", "delete"} => periodRow[p] # None,
           op \in {"publish", "retire"} => p = None
    PROVE  Booked'
<1>1. PICK c : c = [op |-> op, of |-> p, input |-> input]
    OBVIOUS
<1>2. c \in CalendarCall /\ c.op = op /\ c.of = p /\ c.input = input
    BY <1>1 DEF CalendarCall
<1>3. /\ calendarCall \in [Handler -> CalendarCall] /\ calendarCall' = [calendarCall EXCEPT ![h] = c]
      /\ UNCHANGED <<calendarScope, calendarStatus, periodRow, eventPeriod>>
    BY <1>1 DEF Cal!Enter, Booked, Cal!TypeOK, CalendarCall
<1>4. /\ calendarCall' \in [Handler -> CalendarCall] /\ calendarCall'[h] = c
      /\ \A g \in Handler \ {h} : calendarCall'[g] = calendarCall[g]
    BY <1>2, <1>3
<1>5. Cal!TypeOK' /\ Cal!PeriodsHeld' /\ Cal!EventsOnPublished'
    BY <1>3, <1>4 DEF Booked, Cal!TypeOK, CalendarCall, Cal!PeriodsHeld, Cal!EventsOnPublished,
        Cal!Periods
<1>6. \A g \in Handler : Booking(calendarCall'[g])
    BY <1>2, <1>4 DEF Booked, Booking
<1>7. IdReserved'
    <2> SUFFICES ASSUME NEW k \in Handler, calendarCall'[k].op = "create"
                 PROVE  /\ periodRow'[calendarCall'[k].of] = None
                        /\ \A g \in Handler \ {k} : calendarCall'[g].of # calendarCall'[k].of
        BY DEF IdReserved
    <2>1. CASE k = h
        BY <1>2, <1>3, <1>4, <2>1
    <2>2. CASE k # h
        <3>1. /\ calendarCall[k].op = "create" /\ calendarCall'[k] = calendarCall[k]
              /\ periodRow[calendarCall[k].of] = None
              /\ calendarCall[k].of \in Period /\ \A g \in Handler \ {k} : calendarCall[g].of # calendarCall[k].of
            BY <1>4, <2>2 DEF Booked, IdReserved, Booking
        <3>2. calendarCall[k].of # p
            <4>1. CASE op \in {"publish", "retire"}
                BY <3>1, <4>1 DEF Cal!NoneIsNothing
            <4>2. CASE op \in {"update", "delete"}
                BY <3>1, <4>2
            <4>3. CASE op = "create"
                BY <4>3
            <4> QED
                BY <4>1, <4>2, <4>3
        <3> QED
            BY <1>2, <1>3, <1>4, <3>1, <3>2
    <2> QED
        BY <2>1, <2>2
<1> QED
    BY <1>5, <1>6, <1>7 DEF Booked

\* A request that leaves takes nothing with it.
LEMMA LeaveBooks ==
    ASSUME Cal!NoneIsNothing, Booked, NEW h \in Handler, Cal!Leave(h),
           \A g \in Handler \ {h} : calendarCall[g].op = "create" => periodRow'[calendarCall[g].of] = None
    PROVE  /\ calendarCall' \in [Handler -> CalendarCall] /\ IdReserved'
           /\ \A g \in Handler : Booking(calendarCall'[g])
<1>1. calendarCall \in [Handler -> CalendarCall] /\ calendarCall' = [calendarCall EXCEPT ![h] = Cal!Idle]
    BY DEF Cal!Leave, Booked, Cal!TypeOK, CalendarCall
<1>2. /\ calendarCall' \in [Handler -> CalendarCall] /\ calendarCall'[h].op = None /\ calendarCall'[h].of = None
      /\ Booking(calendarCall'[h]) /\ \A g \in Handler \ {h} : calendarCall'[g] = calendarCall[g]
    BY <1>1, IdleBooks
<1>3. \A g \in Handler : Booking(calendarCall'[g])
    BY <1>2 DEF Booked
<1>4. IdReserved'
    <2> SUFFICES ASSUME NEW k \in Handler, calendarCall'[k].op = "create"
                 PROVE  /\ periodRow'[calendarCall'[k].of] = None
                        /\ \A g \in Handler \ {k} : calendarCall'[g].of # calendarCall'[k].of
        BY DEF IdReserved
    <2>1. k # h /\ calendarCall'[k] = calendarCall[k] /\ calendarCall[k].of \in Period
        BY <1>2 DEF Cal!NoneIsNothing, Booked, Booking
    <2>2. \A g \in Handler \ {k} : calendarCall[g].of # calendarCall[k].of
        BY <2>1 DEF Booked, IdReserved
    <2> QED
        BY <1>2, <2>1, <2>2 DEF Cal!NoneIsNothing
<1> QED
    BY <1>2, <1>3, <1>4

LEMMA BeginBooks ==
    ASSUME Cal!NoneIsNothing, Cal!DayBound, Booked, NEW h \in Handler,
           \/ \E op \in {"publish", "retire"} : Cal!BeginStatus(h, op)
           \/ \E p \in Period, i \in Cal!Input : Cal!BeginCreate(h, p, i) \/ Cal!BeginUpdate(h, p, i)
           \/ \E p \in Period : Cal!BeginDelete(h, p)
    PROVE  Booked'
<1>1. Cal!NoInput \in Cal!Input
    BY NoInputIs
<1>2. ASSUME NEW op \in {"publish", "retire"}, Cal!BeginStatus(h, op) PROVE Booked'
    BY <1>1, <1>2, EnterBooks DEF Cal!BeginStatus
<1>3. ASSUME NEW p \in Period, NEW i \in Cal!Input, Cal!BeginCreate(h, p, i) PROVE Booked'
    BY <1>3, PeriodRowOf, EnterBooks DEF Cal!BeginCreate
<1>4. ASSUME NEW p \in Period, NEW i \in Cal!Input, Cal!BeginUpdate(h, p, i) PROVE Booked'
    BY <1>4, EnterBooks DEF Cal!BeginUpdate, Cal!Periods
<1>5. ASSUME NEW p \in Period, Cal!BeginDelete(h, p) PROVE Booked'
    BY <1>1, <1>5, EnterBooks DEF Cal!BeginDelete, Cal!Periods
<1> QED
    BY <1>2, <1>3, <1>4, <1>5

LEMMA WriteBooks ==
    ASSUME Cal!NoneIsNothing, Booked, NEW h \in Handler,
           Cal!SetStatus(h) \/ Cal!InsertPeriod(h) \/ Cal!UpdatePeriod(h) \/ Cal!DeletePeriod(h) \/ Cal!Fail(h)
    PROVE  Booked'
<1>1. /\ Cal!Leave(h) /\ calendarCall \in [Handler -> CalendarCall] /\ UNCHANGED <<calendarScope, eventPeriod>>
      /\ calendarCall[h] \in CalendarCall /\ Booking(calendarCall[h])
    BY DEF Cal!SetStatus, Cal!InsertPeriod, Cal!UpdatePeriod, Cal!DeletePeriod, Cal!Fail, Booked,
        Cal!TypeOK, CalendarCall
<1>2. CASE Cal!SetStatus(h) \/ Cal!Fail(h)
    <2>1. periodRow' = periodRow /\ \/ calendarStatus' = calendarStatus
                                    \/ calendarStatus' \in {"PUBLISHED", "RETIRED"}
        BY <1>2 DEF Cal!SetStatus, Cal!Fail
    <2>2. calendarCall' \in [Handler -> CalendarCall] /\ IdReserved' /\ \A g \in Handler : Booking(calendarCall'[g])
        BY <1>1, <2>1, LeaveBooks DEF Booked, IdReserved
    <2> QED
        BY <1>1, <2>1, <2>2
        DEF Booked, Cal!TypeOK, CalendarCall, Cal!Status, Cal!PeriodsHeld, Cal!EventsOnPublished,
            Cal!Periods
<1>3. CASE Cal!InsertPeriod(h)
    <2>1. PICK p, row : p = calendarCall[h].of /\ row = calendarCall[h].input
        OBVIOUS
    <2>2. /\ p \in Period /\ row \in Cal!Row /\ row # None /\ (row.parent # None => row.parent \in Cal!Periods)
          /\ periodRow' = [periodRow EXCEPT ![p] = row] /\ calendarStatus' = calendarStatus
        BY <1>1, <1>3, <2>1 DEF Cal!InsertPeriod, Booking, Cal!NoneIsNothing
    <2>3. /\ periodRow' \in [Period -> Cal!Row \cup {None}] /\ periodRow'[p] = row
          /\ \A x \in Period \ {p} : periodRow'[x] = periodRow[x]
        BY <2>2 DEF Booked, Cal!TypeOK
    <2>4. Cal!Periods' = Cal!Periods \cup {p}
        BY <2>2, <2>3 DEF Cal!Periods
    <2>5. \A g \in Handler \ {h} : calendarCall[g].op = "create" => periodRow'[calendarCall[g].of] = None
        BY <1>3, <2>1, <2>3 DEF Booked, IdReserved, Booking, Cal!InsertPeriod
    <2>6. calendarCall' \in [Handler -> CalendarCall] /\ IdReserved' /\ \A g \in Handler : Booking(calendarCall'[g])
        BY <1>1, <2>5, LeaveBooks
    <2>7. Cal!PeriodsHeld'
        BY <1>1, <2>2, <2>3, <2>4 DEF Booked, Cal!PeriodsHeld, Cal!Periods
    <2> QED
        BY <1>1, <2>2, <2>3, <2>6, <2>7 DEF Booked, Cal!TypeOK, CalendarCall, Cal!EventsOnPublished
<1>4. CASE Cal!UpdatePeriod(h)
    <2>1. PICK p, row : p = calendarCall[h].of /\ row = Cal!Updated(p, calendarCall[h].input)
        OBVIOUS
    <2>2. /\ p \in Cal!Periods /\ p \in Period /\ row \in Cal!Row /\ row # None
          /\ (row.parent # None => row.parent \in Cal!Periods)
          /\ periodRow' = [periodRow EXCEPT ![p] = row] /\ calendarStatus' = calendarStatus
        BY <1>1, <1>4, <2>1 DEF Cal!UpdatePeriod, Cal!NoneIsNothing, Cal!Periods
    <2>3. /\ periodRow' \in [Period -> Cal!Row \cup {None}] /\ periodRow'[p] = row
          /\ \A x \in Period \ {p} : periodRow'[x] = periodRow[x]
        BY <2>2 DEF Booked, Cal!TypeOK
    <2>4. Cal!Periods' = Cal!Periods
        BY <2>2, <2>3 DEF Cal!Periods
    <2>5. \A g \in Handler \ {h} : calendarCall[g].op = "create" => periodRow'[calendarCall[g].of] = None
        BY <2>2, <2>3 DEF Booked, IdReserved, Booking, Cal!Periods
    <2>6. calendarCall' \in [Handler -> CalendarCall] /\ IdReserved' /\ \A g \in Handler : Booking(calendarCall'[g])
        BY <1>1, <2>5, LeaveBooks
    <2>7. Cal!PeriodsHeld'
        BY <1>1, <2>2, <2>3, <2>4 DEF Booked, Cal!PeriodsHeld, Cal!Periods
    <2> QED
        BY <1>1, <2>2, <2>3, <2>6, <2>7 DEF Booked, Cal!TypeOK, CalendarCall, Cal!EventsOnPublished
<1>5. CASE Cal!DeletePeriod(h)
    <2>1. PICK p : p = calendarCall[h].of
        OBVIOUS
    <2>2. /\ p \in Cal!Periods /\ p \in Period /\ Cal!Children(p) \subseteq {p}
          /\ \A e \in Event : eventPeriod[e] # p
          /\ periodRow' = [periodRow EXCEPT ![p] = None] /\ calendarStatus' = calendarStatus
        BY <1>1, <1>5, <2>1 DEF Cal!DeletePeriod, Cal!Periods
    <2>3. /\ periodRow' \in [Period -> Cal!Row \cup {None}] /\ periodRow'[p] = None
          /\ \A x \in Period \ {p} : periodRow'[x] = periodRow[x]
        BY <2>2 DEF Booked, Cal!TypeOK
    <2>4. Cal!Periods' = Cal!Periods \ {p}
        BY <2>2, <2>3 DEF Cal!Periods
    <2>5. \A g \in Handler \ {h} : calendarCall[g].op = "create" => periodRow'[calendarCall[g].of] = None
        BY <2>2, <2>3 DEF Booked, IdReserved, Booking
    <2>6. calendarCall' \in [Handler -> CalendarCall] /\ IdReserved' /\ \A g \in Handler : Booking(calendarCall'[g])
        BY <1>1, <2>5, LeaveBooks
    <2>7. Cal!PeriodsHeld'
        <3>1. \A x \in Cal!Periods \ {p} : periodRow[x].parent # p
            BY <2>2 DEF Cal!Children
        <3> QED
            BY <1>1, <2>2, <2>3, <2>4, <3>1 DEF Booked, Cal!PeriodsHeld, Cal!Periods
    <2> QED
        BY <1>1, <2>2, <2>3, <2>6, <2>7 DEF Booked, Cal!TypeOK, CalendarCall, Cal!EventsOnPublished
<1> QED
    BY <1>2, <1>3, <1>4, <1>5

LEMMA BookedStep ==
    ASSUME Cal!NoneIsNothing, Cal!DayBound, Booked, Cal!Next
    PROVE  Booked'
<1>1. ASSUME NEW e \in Event, NEW p \in Period, Cal!Schedule(e, p) PROVE Booked'
    <2>1. /\ p \in Cal!Periods
          /\ calendarScope = "REFERENCE" => calendarStatus = "PUBLISHED"
          /\ eventPeriod' \in Cal!Events /\ UNCHANGED <<calendarScope, calendarStatus, periodRow, calendarCall>>
          /\ \A x \in Event : eventPeriod'[x] \in {eventPeriod[x], p}
        BY <1>1 DEF Cal!Schedule, Booked, Cal!TypeOK, Cal!Events
    <2>2. Cal!TypeOK' /\ Cal!PeriodsHeld' /\ Cal!EventsOnPublished'
        BY <2>1 DEF Booked, Cal!TypeOK, Cal!PeriodsHeld, Cal!Periods, Cal!EventsOnPublished
    <2>3. IdReserved' /\ \A h \in Handler : Booking(calendarCall'[h])
        BY <2>1 DEF Booked, IdReserved
    <2> QED
        BY <2>2, <2>3 DEF Booked
<1> QED
    BY <1>1, BeginBooks, WriteBooks DEF Cal!Next

LEMMA BookedInit == ASSUME Cal!NoneIsNothing, Cal!Init PROVE Booked
<1>1. /\ calendarCall \in [Handler -> CalendarCall]
      /\ \A h \in Handler : Booking(calendarCall[h]) /\ calendarCall[h].op = None
    BY IdleBooks DEF Cal!Init
<1> QED
    BY <1>1 DEF Cal!NoneIsNothing, Cal!Init, Booked, Cal!TypeOK, CalendarCall, Cal!Events,
        Cal!PeriodsHeld, Cal!Periods, Cal!EventsOnPublished, IdReserved

LEMMA BookedStutter == ASSUME Booked, UNCHANGED Cal!vars PROVE Booked'
BY DEF Cal!vars, Booked, Cal!TypeOK, Cal!PeriodsHeld, Cal!Periods, Cal!EventsOnPublished,
    IdReserved, Booking

\* The inductive invariant of a calendar.
THEOREM CalendarBooked == ASSUME Cal!NoneIsNothing, Cal!DayBound PROVE Cal!Spec => []Booked
<1>1. Booked /\ [Cal!Next]_(Cal!vars) => Booked'
    BY BookedStep, BookedStutter
<1> QED
    BY <1>1, BookedInit, PTL DEF Cal!Spec

LEMMA CalendarSteps ==
    ASSUME Cal!NoneIsNothing, Booked, [Cal!Next]_(Cal!vars)
    PROVE  Cal!ReferenceKept /\ Cal!ReferenceForward
<1> USE DEF Cal!ReferenceKept, Cal!ReferenceForward
<1>1. CASE UNCHANGED <<calendarScope, calendarStatus, periodRow>>
    BY <1>1
<1>2. ASSUME NEW h \in Handler, Cal!SetStatus(h) PROVE Cal!ReferenceKept /\ Cal!ReferenceForward
    BY <1>2 DEF Cal!SetStatus, Cal!Follows
<1>3. ASSUME NEW h \in Handler, Cal!InsertPeriod(h) PROVE Cal!ReferenceKept /\ Cal!ReferenceForward
    <2>1. calendarCall[h].of \notin Cal!Periods /\ calendarStatus' = calendarStatus
        BY <1>3 DEF Cal!InsertPeriod, Booked, IdReserved, Cal!Periods
    <2> QED
        BY <1>3, <2>1 DEF Cal!InsertPeriod, Booked, Cal!TypeOK, Cal!Periods
<1>4. ASSUME NEW h \in Handler, Cal!UpdatePeriod(h) \/ Cal!DeletePeriod(h)
      PROVE Cal!ReferenceKept /\ Cal!ReferenceForward
    BY <1>4 DEF Cal!UpdatePeriod, Cal!DeletePeriod
<1> QED
    BY <1>1, <1>2, <1>3, <1>4
    DEF Cal!Next, Cal!vars, Cal!BeginStatus, Cal!BeginCreate, Cal!BeginUpdate, Cal!BeginDelete,
        Cal!Enter, Cal!Fail, Cal!Schedule

\* A published reference calendar keeps its periods and moves forward only.
THEOREM ReferenceStays ==
    ASSUME Cal!NoneIsNothing, Cal!DayBound
    PROVE  Cal!Spec => [][Cal!ReferenceKept /\ Cal!ReferenceForward]_(Cal!vars)
<1>1. Booked /\ [Cal!Next]_(Cal!vars) => [Cal!ReferenceKept /\ Cal!ReferenceForward]_(Cal!vars)
    BY CalendarSteps
<1> QED
    BY <1>1, CalendarBooked, PTL DEF Cal!Spec

-----------------------------------------------------------------------------
(* Assignments *)

DraftRow == [of : Homework \cup {None}, class : Group \cup {None}, due : Ass!Deadline]


\* What a request will write names an assignment and a class, and work is only on
\* assignments that were opened.
HandedIn ==
    /\ Ass!TypeOK /\ Ass!WorkBelongs /\ Ass!SubjectMapped
    /\ assignmentRow \in [Homework -> Ass!AssignmentRow \cup {Ass!NoRow}]
    /\ \A t \in Handler : editDraft[t] = Ass!NoDraft
                       \/ (editDraft[t].of \in Homework /\ editDraft[t].class \in Group)
    /\ \A a \in Homework, s \in Pupil : Ass!Submitted(a, s) => assignmentRow[a].status \in {"OPEN", "CLOSED"}

LEMMA AssignmentApart ==
    ASSUME Ass!NoneIsNothing
    PROVE  /\ Ass!NoRow.status = None /\ Ass!NoRow.class = None /\ Ass!NoRow.due = None
           /\ Ass!NoRow \notin Ass!AssignmentRow
           /\ \A r \in Ass!AssignmentRow : r # Ass!NoRow /\ r.status \in Ass!Status /\ r.class \in Group /\ r.due \in Ass!Deadline
BY DEF Ass!NoneIsNothing, Ass!NoRow, Ass!AssignmentRow

\* A step that only writes a row keeps the work on it where it was.
LEMMA AssignmentWritten ==
    ASSUME Ass!NoneIsNothing, HandedIn, NEW a \in Homework, NEW r \in Ass!AssignmentRow,
           assignmentRow' = [assignmentRow EXCEPT ![a] = r], UNCHANGED <<submission, classSubject, pupils>>,
           classSubject[r.class] # None, editDraft' \in [Handler -> DraftRow],
           \A t \in Handler : editDraft'[t] = Ass!NoDraft \/ editDraft'[t] = editDraft[t],
           assignmentRow[a].status \in {"OPEN", "CLOSED"} => r.status \in {"OPEN", "CLOSED"},
           r.status = "OPEN" => assignmentRow[a].status \in {None, "DRAFT", "PUBLISHED", "OPEN"},
           movedOn' \subseteq Homework, movedOn \subseteq movedOn',
           assignmentRow[a].status \in {"OPEN", "CLOSED"} /\ assignmentRow[a].class # r.class => a \in movedOn'
    PROVE  HandedIn'
<1>1. /\ assignmentRow' \in [Homework -> Ass!AssignmentRow \cup {Ass!NoRow}] /\ assignmentRow'[a] = r
      /\ \A b \in Homework \ {a} : assignmentRow'[b] = assignmentRow[b]
    BY DEF HandedIn
<1>2. Ass!TypeOK'
    BY <1>1 DEF HandedIn, Ass!TypeOK, DraftRow
<1>3. \A t \in Handler : editDraft'[t] = Ass!NoDraft
                           \/ (editDraft'[t].of \in Homework /\ editDraft'[t].class \in Group)
    BY DEF HandedIn
<1>4. \A b \in Homework, s \in Pupil : Ass!Submitted(b, s)' => assignmentRow'[b].status \in {"OPEN", "CLOSED"}
    BY <1>1 DEF HandedIn, Ass!Submitted
<1>5. Ass!SubjectMapped'
    BY <1>1 DEF HandedIn, Ass!SubjectMapped
<1>6. Ass!WorkBelongs'
    <2> SUFFICES ASSUME NEW b \in Homework \ movedOn', NEW s \in Pupil, Ass!Submitted(b, s)'
                 PROVE  /\ assignmentRow'[b].status \in {"OPEN", "CLOSED"}
                        /\ <<s, assignmentRow'[b].class>> \in pupils'
        BY DEF Ass!WorkBelongs, Ass!Completed, Ass!Asks, Ass!Shown
    <2>1. Ass!Submitted(b, s) /\ b \in Homework \ movedOn
        BY DEF Ass!Submitted
    <2>2. <<s, assignmentRow[b].class>> \in pupils /\ assignmentRow[b].status \in {"OPEN", "CLOSED"}
        BY <2>1 DEF HandedIn, Ass!WorkBelongs, Ass!Completed, Ass!Asks
    <2> QED
        BY <1>1, <1>4, <2>1, <2>2
<1> QED
    BY <1>1, <1>2, <1>3, <1>4, <1>5, <1>6 DEF HandedIn

LEMMA AssignmentMoves ==
    ASSUME Ass!NoneIsNothing, HandedIn, NEW a \in Homework,
           Ass!PassDeadline(a) \/ Ass!Publish(a) \/ Ass!OpenIt(a) \/ Ass!Close(a)
    PROVE  HandedIn'
<1>1. PICK r : r = assignmentRow'[a]
    OBVIOUS
<1>2. /\ assignmentRow[a] \in Ass!AssignmentRow
      /\ UNCHANGED <<submission, classSubject, pupils, editDraft, movedOn>>
      /\ \/ assignmentRow' = [assignmentRow EXCEPT ![a].due = "over"]
         \/ assignmentRow' = [assignmentRow EXCEPT ![a].status = "PUBLISHED"]
         \/ assignmentRow' = [assignmentRow EXCEPT ![a].status = "OPEN"]
         \/ assignmentRow' = [assignmentRow EXCEPT ![a].status = "CLOSED"]
    BY AssignmentApart DEF Ass!PassDeadline, Ass!Publish, Ass!OpenIt, Ass!Close, Ass!Move,
        HandedIn, Ass!NoneIsNothing, Ass!Status
<1>3. /\ r \in Ass!AssignmentRow /\ r.class = assignmentRow[a].class
      /\ assignmentRow' = [assignmentRow EXCEPT ![a] = r]
    BY <1>1, <1>2 DEF HandedIn, Ass!AssignmentRow, Ass!Status, Ass!Deadline
<1>4. /\ assignmentRow[a].status \in {"OPEN", "CLOSED"} => r.status \in {"OPEN", "CLOSED"}
      /\ r.status = "OPEN" => assignmentRow[a].status \in {None, "DRAFT", "PUBLISHED", "OPEN"}
    BY <1>1, <1>2 DEF Ass!PassDeadline, Ass!Publish, Ass!OpenIt, Ass!Close, Ass!Move, HandedIn,
        Ass!AssignmentRow
<1>5. classSubject[r.class] # None
    BY <1>2, <1>3, AssignmentApart DEF HandedIn, Ass!SubjectMapped
<1>6. editDraft \in [Handler -> DraftRow] /\ movedOn \subseteq Homework
    BY DEF HandedIn, Ass!TypeOK, DraftRow
<1> QED
    BY <1>2, <1>3, <1>4, <1>5, <1>6, AssignmentWritten

LEMMA DraftWritten ==
    ASSUME Ass!NoneIsNothing, HandedIn, NEW t \in Handler, Ass!Create(t) \/ Ass!Update(t)
    PROVE  HandedIn'
<1>1. PICK a, r : a = editDraft[t].of /\ r = assignmentRow'[a]
    OBVIOUS
<1>2. /\ a \in Homework /\ editDraft[t].class \in Group /\ editDraft[t].due \in Ass!Deadline
      /\ classSubject[editDraft[t].class] # None /\ UNCHANGED <<submission, classSubject, pupils>>
      /\ editDraft \in [Handler -> DraftRow] /\ movedOn \subseteq Homework
    BY <1>1 DEF Ass!Create, Ass!Update, Ass!Written, HandedIn, Ass!TypeOK, DraftRow
<1>3. PICK st : /\ st \in Ass!Status
                /\ assignmentRow' = [assignmentRow EXCEPT ![a] =
                      [status |-> st, class |-> editDraft[t].class, due |-> editDraft[t].due]]
                /\ \/ assignmentRow[a] = Ass!NoRow /\ st = "DRAFT" /\ movedOn' = movedOn
                   \/ /\ st = assignmentRow[a].status
                      /\ movedOn' = (IF assignmentRow[a].status # "DRAFT" /\ assignmentRow[a].class # editDraft[t].class
                                     THEN movedOn \cup {a} ELSE movedOn)
    <2>1. CASE Ass!Create(t)
        BY <1>1, <2>1 DEF Ass!Create, Ass!Written, Ass!Status
    <2>2. CASE Ass!Update(t)
        <3>1. assignmentRow[a].status \in Ass!Status
            BY <1>1, <1>2, <2>2, AssignmentApart DEF Ass!Update, HandedIn
        <3> QED
            BY <1>1, <2>2, <3>1 DEF Ass!Update, Ass!Written
    <2> QED
        BY <2>1, <2>2
<1>4. /\ r \in Ass!AssignmentRow /\ r.status = st /\ r.class = editDraft[t].class
      /\ assignmentRow' = [assignmentRow EXCEPT ![a] = r]
    BY <1>1, <1>2, <1>3 DEF HandedIn, Ass!AssignmentRow
<1>5. editDraft' = [editDraft EXCEPT ![t] = Ass!NoDraft]
    BY DEF Ass!Create, Ass!Update, Ass!Written
<1>6. Ass!NoDraft \in DraftRow
    BY DEF Ass!NoDraft, DraftRow, Ass!Deadline
<1>7. /\ editDraft' \in [Handler -> DraftRow]
      /\ \A u \in Handler : editDraft'[u] = Ass!NoDraft \/ editDraft'[u] = editDraft[u]
    BY <1>2, <1>5, <1>6
<1>8. /\ assignmentRow[a].status \in {"OPEN", "CLOSED"} => r.status \in {"OPEN", "CLOSED"}
      /\ r.status = "OPEN" => assignmentRow[a].status \in {None, "DRAFT", "PUBLISHED", "OPEN"}
      /\ assignmentRow[a].status \in {"OPEN", "CLOSED"} /\ assignmentRow[a].class # r.class => a \in movedOn'
      /\ movedOn' \subseteq Homework /\ movedOn \subseteq movedOn'
    BY <1>2, <1>3, <1>4, AssignmentApart DEF Ass!NoneIsNothing, Ass!Status
<1> QED
    BY <1>2, <1>4, <1>7, <1>8, AssignmentWritten

LEMMA WorkMoves ==
    ASSUME Ass!NoneIsNothing, HandedIn, NEW a \in Homework, NEW s \in Pupil,
           Ass!Submit(a, s) \/ \E d \in Ass!Decision : Ass!Decide(a, s, d)
    PROVE  HandedIn'
<1>1. /\ UNCHANGED <<assignmentRow, classSubject, pupils, editDraft, movedOn>> /\ <<a, s>> \in Homework \X Pupil
      /\ submission \in [Homework \X Pupil -> {None, "unread"} \cup Ass!Decision]
    BY DEF Ass!Submit, Ass!Decide, HandedIn, Ass!TypeOK
<1>2. PICK v \in {"unread"} \cup Ass!Decision : submission' = [submission EXCEPT ![<<a, s>>] = v]
    BY DEF Ass!Submit, Ass!Insert, Ass!Decide, Ass!SetDecision
<1>3. /\ submission' \in [Homework \X Pupil -> {None, "unread"} \cup Ass!Decision] /\ submission'[<<a, s>>] = v
      /\ \A x \in (Homework \X Pupil) \ {<<a, s>>} : submission'[x] = submission[x]
    BY <1>1, <1>2
<1>4. \A b \in Homework, u \in Pupil : Ass!Submitted(b, u)' => (Ass!Submitted(b, u) \/ (b = a /\ u = s))
    BY <1>3 DEF Ass!Submitted
<1>5. \/ Ass!Submitted(a, s)
      \/ assignmentRow[a].status = "OPEN" /\ <<s, assignmentRow[a].class>> \in pupils
    BY DEF Ass!Submit, Ass!Insert, Ass!Decide, Ass!SetDecision
<1>6. \A b \in Homework, u \in Pupil : Ass!Submitted(b, u)' => assignmentRow'[b].status \in {"OPEN", "CLOSED"}
    BY <1>1, <1>4, <1>5 DEF HandedIn
<1>7. Ass!WorkBelongs'
    <2> SUFFICES ASSUME NEW b \in Homework \ movedOn', NEW u \in Pupil, Ass!Submitted(b, u)'
                 PROVE  /\ assignmentRow'[b].status \in {"OPEN", "CLOSED"}
                        /\ <<u, assignmentRow'[b].class>> \in pupils'
        BY DEF Ass!WorkBelongs, Ass!Completed, Ass!Asks, Ass!Shown
    <2> QED
        BY <1>1, <1>4, <1>5, <1>6 DEF HandedIn, Ass!WorkBelongs, Ass!Completed, Ass!Asks
<1> QED
    BY <1>1, <1>3, <1>6, <1>7 DEF HandedIn, Ass!TypeOK, Ass!SubjectMapped

\* Nothing but the rows, the work and the moves matters to the work.
LEMMA AroundHandedIn ==
    ASSUME Ass!NoneIsNothing, HandedIn, UNCHANGED <<assignmentRow, submission, movedOn>>,
           pupils \subseteq pupils', Ass!TypeOK',
           \A t \in Handler : editDraft'[t] = Ass!NoDraft
                                   \/ (editDraft'[t].of \in Homework /\ editDraft'[t].class \in Group),
           Ass!SubjectMapped'
    PROVE  HandedIn'
BY DEF HandedIn, Ass!WorkBelongs, Ass!Completed, Ass!Asks, Ass!Shown, Ass!Submitted

LEMMA HandedInStep ==
    ASSUME Ass!NoneIsNothing, HandedIn, [Ass!Next]_(Ass!vars)
    PROVE  HandedIn'
<1>1. ASSUME NEW c \in Group, NEW st \in {"ACTIVE", "INACTIVE"}, Ass!MapSubject(c, st) PROVE HandedIn'
    <2>1. Ass!TypeOK' /\ Ass!SubjectMapped'
        BY <1>1, AssignmentApart
            DEF Ass!MapSubject, HandedIn, Ass!TypeOK, Ass!SubjectMapped, Ass!NoneIsNothing
    <2> QED
        BY <1>1, <2>1, AroundHandedIn DEF Ass!MapSubject, HandedIn
<1>2. ASSUME NEW c \in Group, Ass!UnmapSubject(c) PROVE HandedIn'
    <2>1. Ass!TypeOK' /\ Ass!SubjectMapped'
        BY <1>2, AssignmentApart DEF Ass!UnmapSubject, HandedIn, Ass!TypeOK, Ass!SubjectMapped
    <2> QED
        BY <1>2, <2>1, AroundHandedIn DEF Ass!UnmapSubject, HandedIn
<1>3. ASSUME NEW s \in Pupil, NEW c \in Group, Ass!Enrol(s, c) PROVE HandedIn'
    <2>1. Ass!TypeOK' /\ Ass!SubjectMapped'
        BY <1>3 DEF Ass!Enrol, HandedIn, Ass!TypeOK, Ass!SubjectMapped
    <2> QED
        BY <1>3, <2>1, AroundHandedIn DEF Ass!Enrol, HandedIn
<1>4. ASSUME NEW t \in Handler, NEW a \in Homework, NEW c \in Group, NEW due \in Ass!Deadline,
             Ass!Open(t, a, c, due)
      PROVE  HandedIn'
    <2>1. PICK r : r = [of |-> a, class |-> c, due |-> due]
        OBVIOUS
    <2>2. r \in DraftRow /\ r.of = a /\ r.class = c /\ editDraft' = [editDraft EXCEPT ![t] = r]
        BY <1>4, <2>1 DEF DraftRow, Ass!Open
    <2>3. /\ editDraft \in [Handler -> DraftRow] /\ editDraft' \in [Handler -> DraftRow] /\ editDraft'[t] = r
          /\ \A u \in Handler \ {t} : editDraft'[u] = editDraft[u]
        BY <2>2 DEF HandedIn, Ass!TypeOK, DraftRow
    <2>4. Ass!TypeOK' /\ Ass!SubjectMapped'
        BY <1>4, <2>3 DEF Ass!Open, HandedIn, Ass!TypeOK, Ass!SubjectMapped, DraftRow
    <2> QED
        BY <1>4, <2>2, <2>3, <2>4, AroundHandedIn DEF Ass!Open, HandedIn
<1>5. ASSUME NEW t \in Handler, Ass!WriteFails(t) PROVE HandedIn'
    <2>1. Ass!NoDraft \in DraftRow
        BY DEF Ass!NoDraft, DraftRow, Ass!Deadline
    <2>2. /\ editDraft' \in [Handler -> DraftRow]
          /\ \A u \in Handler : editDraft'[u] = Ass!NoDraft \/ editDraft'[u] = editDraft[u]
        BY <1>5, <2>1 DEF Ass!WriteFails, HandedIn, Ass!TypeOK, DraftRow
    <2>3. Ass!TypeOK' /\ Ass!SubjectMapped'
        BY <1>5, <2>2 DEF Ass!WriteFails, HandedIn, Ass!TypeOK, Ass!SubjectMapped, DraftRow
    <2> QED
        BY <1>5, <2>2, <2>3, AroundHandedIn DEF Ass!WriteFails, HandedIn
<1>6. CASE UNCHANGED Ass!vars
    BY <1>6 DEF Ass!vars, HandedIn, Ass!TypeOK, Ass!WorkBelongs, Ass!Completed, Ass!Asks,
        Ass!Shown, Ass!Submitted, Ass!SubjectMapped
<1> QED
    BY <1>1, <1>2, <1>3, <1>4, <1>5, <1>6, AssignmentMoves, DraftWritten, WorkMoves
    DEF Ass!Next, Ass!BeginCreate, Ass!BeginUpdate

LEMMA HandedInInit == ASSUME Ass!NoneIsNothing, Ass!Init PROVE HandedIn
<1>1. Ass!NoDraft \in DraftRow
    BY DEF Ass!NoDraft, DraftRow, Ass!Deadline
<1>2. \A a \in Homework, s \in Pupil : submission[<<a, s>>] = None
    BY DEF Ass!Init
<1> QED
    BY <1>1, <1>2, AssignmentApart
    DEF Ass!Init, HandedIn, Ass!TypeOK, DraftRow, Ass!WorkBelongs, Ass!Submitted, Ass!SubjectMapped

\* What is handed in shows as completed to its student unless a stale edit moved the
\* assignment, and the class of an assignment has its subject.
THEOREM WorkHandedIn == ASSUME Ass!NoneIsNothing PROVE Ass!Spec => []HandedIn
BY HandedInInit, HandedInStep, PTL DEF Ass!Spec

LEMMA WorkSteps ==
    ASSUME Ass!NoneIsNothing, HandedIn, [Ass!Next]_(Ass!vars)
    PROVE  Ass!WorkKept /\ Ass!EditsSettle
<1>1. Ass!WorkKept
    <2> SUFFICES ASSUME NEW a \in Homework, NEW s \in Pupil, submission'[<<a, s>>] # submission[<<a, s>>]
                 PROVE  IF Ass!Submitted(a, s) THEN submission'[<<a, s>>] \in Ass!Decision
                         ELSE assignmentRow[a].status = "OPEN"
        BY DEF Ass!WorkKept
    <2>1. submission \in [Homework \X Pupil -> {None, "unread"} \cup Ass!Decision]
        BY DEF HandedIn, Ass!TypeOK
    <2>2. PICK b \in Homework, u \in Pupil : Ass!Submit(b, u) \/ \E d \in Ass!Decision : Ass!Decide(b, u, d)
        BY DEF Ass!Next, Ass!vars, Ass!MapSubject, Ass!UnmapSubject, Ass!Enrol, Ass!PassDeadline,
            Ass!Publish, Ass!OpenIt, Ass!Close, Ass!Move,
               Ass!BeginCreate, Ass!BeginUpdate, Ass!Open, Ass!Create, Ass!Update, Ass!Written,
               Ass!WriteFails
    <2>3. b = a /\ u = s
        BY <2>1, <2>2 DEF Ass!Submit, Ass!Insert, Ass!Decide, Ass!SetDecision
    <2> QED
        BY <2>1, <2>2, <2>3 DEF Ass!Submit, Ass!Insert, Ass!Decide, Ass!SetDecision
<1>2. Ass!EditsSettle
    <2> SUFFICES ASSUME NEW a \in Homework, assignmentRow[a].status \notin {None, "DRAFT"}
                 PROVE  /\ \A t \in Handler : editDraft'[t].of = a => editDraft[t] = editDraft'[t]
                        /\ assignmentRow[a].class # assignmentRow'[a].class =>
                                       \E t \in Handler : editDraft[t].of = a /\ editDraft'[t] = Ass!NoDraft
        BY DEF Ass!EditsSettle
    <2>1. assignmentRow[a] # Ass!NoRow /\ Ass!NoDraft.of # a
        BY DEF Ass!NoRow, Ass!NoDraft, Ass!NoneIsNothing
    <2>2. editDraft \in [Handler -> DraftRow] /\ assignmentRow \in [Homework -> Ass!AssignmentRow \cup {Ass!NoRow}]
        BY DEF HandedIn, Ass!TypeOK, DraftRow
    <2>3. ASSUME NEW t \in Handler, NEW b \in Homework, NEW c \in Group, NEW due \in Ass!Deadline,
                 Ass!BeginCreate(t, b, c, due) \/ Ass!BeginUpdate(t, b, c, due)
          PROVE  /\ assignmentRow' = assignmentRow
                 /\ \A u \in Handler : editDraft'[u].of = a => editDraft[u] = editDraft'[u]
        <3>1. /\ b # a
              /\ editDraft' = [editDraft EXCEPT ![t] = [of |-> b, class |-> c, due |-> due]]
              /\ assignmentRow' = assignmentRow
            BY <2>1, <2>3 DEF Ass!BeginCreate, Ass!BeginUpdate, Ass!Open
        <3> QED
            BY <2>2, <3>1
    <2>4. ASSUME NEW t \in Handler, Ass!Create(t) \/ Ass!Update(t) \/ Ass!WriteFails(t)
          PROVE  /\ \A u \in Handler : editDraft'[u].of = a => editDraft[u] = editDraft'[u]
                 /\ assignmentRow[a].class # assignmentRow'[a].class => editDraft[t].of = a /\ editDraft'[t] = Ass!NoDraft
        <3>1. editDraft' = [editDraft EXCEPT ![t] = Ass!NoDraft]
            BY <2>4 DEF Ass!Create, Ass!Update, Ass!Written, Ass!WriteFails
        <3>2. editDraft'[t] = Ass!NoDraft /\ \A u \in Handler \ {t} : editDraft'[u] = editDraft[u]
            BY <2>2, <3>1
        <3>3. editDraft[t].of # a => assignmentRow'[a] = assignmentRow[a]
            BY <2>2, <2>4 DEF Ass!Create, Ass!Update, Ass!Written, Ass!WriteFails
        <3> QED
            BY <2>1, <3>2, <3>3
    <2>5. ASSUME NEW b \in Homework, Ass!PassDeadline(b) \/ Ass!Publish(b) \/ Ass!OpenIt(b) \/ Ass!Close(b)
          PROVE  assignmentRow'[a].class = assignmentRow[a].class /\ editDraft' = editDraft
        <3>1. assignmentRow[b] \in Ass!AssignmentRow
            BY <2>5, AssignmentApart DEF Ass!PassDeadline, Ass!Publish, Ass!OpenIt, Ass!Close,
                Ass!Move, HandedIn, Ass!NoneIsNothing, Ass!Status
        <3> QED
            BY <2>2, <2>5, <3>1
                DEF Ass!PassDeadline, Ass!Publish, Ass!OpenIt, Ass!Close, Ass!Move,
                Ass!AssignmentRow
    <2>6. CASE UNCHANGED <<assignmentRow, editDraft>>
        BY <2>6
    <2> QED
        BY <2>3, <2>4, <2>5, <2>6
        DEF Ass!Next, Ass!vars, Ass!MapSubject, Ass!UnmapSubject, Ass!Enrol, Ass!Submit, Ass!Decide
<1> QED
    BY <1>1, <1>2

\* Handed-in work is kept, and a published assignment is settled by the edits under way.
THEOREM WorkStays == ASSUME Ass!NoneIsNothing PROVE Ass!Spec => [][Ass!WorkKept /\ Ass!EditsSettle]_(Ass!vars)
<1>1. HandedIn /\ [Ass!Next]_(Ass!vars) => [Ass!WorkKept /\ Ass!EditsSettle]_(Ass!vars)
    BY WorkSteps
<1> QED
    BY <1>1, WorkHandedIn, PTL DEF Ass!Spec

-----------------------------------------------------------------------------
(* Homework on time *)

LEMMA DueFinite == \A S : Tim!IsFiniteSet(S) = IsFiniteSet(S)
BY DEF Tim!IsFiniteSet, IsFiniteSet

LEMMA DueCardinal == \A S : Tim!Cardinality(S) = Cardinality(S)
BY DEF Tim!Cardinality, Cardinality


HomeRow == [status : {"OPEN", "CLOSED"}, class : DueClass, due : Tim!Due, submitted : Tim!Due]
Reading == [stage : {None, "scope", "assigned", "rows", "classify"}, classes : SUBSET DueClass,
            rows : SUBSET (Tim!Due \X Tim!Due \X DueWork)]


\* A row that was read is of an assignment that is still there, with the same deadline and,
\* if it was handed in by then, the same work; if not, it was not at the beginning either.
Fits(x) ==
    /\ x[3] \in DueWork /\ dueRow[x[3]] # Tim!NoRow /\ x[1] = dueRow[x[3]].due /\ x[2] \in Tim!Due
    /\ x[2] # None => dueRow[x[3]].submitted = x[2]
    /\ x[2] = None => x[3] \notin begun

Single(rows) == \A x, y \in rows : x[3] = y[3] => x = y
Names(rows)  == {x[3] : x \in rows}

Told ==
    /\ Tim!TypeOK /\ Tim!CountsTruthful
    /\ dueRow \in [DueWork -> HomeRow \cup {Tim!NoRow}] /\ reader \in Reading
    /\ begun \subseteq Tim!Handed
    /\ \A x \in reader.rows : Fits(x)
    /\ Single(reader.rows)

LEMMA HomeApart ==
    ASSUME Tim!NoneIsNothing
    PROVE  /\ Tim!NoRow.status = None /\ Tim!NoRow.class = None
           /\ Tim!NoRow.due = None /\ Tim!NoRow.submitted = None
           /\ Tim!NoRow \notin HomeRow
           /\ \A r \in HomeRow : /\ r # Tim!NoRow /\ r.status \in {"OPEN", "CLOSED"} /\ r.class \in DueClass
                                 /\ r.due \in Tim!Due /\ r.submitted \in Tim!Due
BY DEF Tim!NoneIsNothing, Tim!NoRow, HomeRow

\* As many rows as assignments they are of.
LEMMA OneRowEach ==
    ASSUME Tim!Finite, NEW rows, Names(rows) \subseteq DueWork, Single(rows)
    PROVE  IsFiniteSet(rows) /\ Cardinality(rows) = Cardinality(Names(rows))
<1>1. PICK f : f = [x \in rows |-> x[3]]
    OBVIOUS
<1>2. f \in Bijection(rows, Names(rows))
    BY <1>1 DEF Bijection, Injection, Surjection, IsInjective, Names, Single
<1>3. PICK g : g = [a \in Names(rows) |-> CHOOSE x \in rows : x[3] = a]
    OBVIOUS
<1>4. \A a \in Names(rows) : g[a] \in rows /\ g[a][3] = a
    BY <1>3 DEF Names
<1>5. g \in Bijection(Names(rows), rows)
    <2>1. g \in [Names(rows) -> rows]
        BY <1>3, <1>4
    <2>2. \A x \in rows : x[3] \in Names(rows) /\ g[x[3]] = x
        BY <1>4 DEF Names, Single
    <2>3. \A a, b \in Names(rows) : g[a] = g[b] => a = b
        BY <1>4
    <2> QED
        BY <2>1, <2>2, <2>3 DEF Bijection, Injection, Surjection, IsInjective
<1>6. IsFiniteSet(Names(rows))
    BY FS_Subset, DueFinite DEF Tim!Finite
<1> QED
    BY <1>5, <1>6, FS_Bijection DEF ExistsBijection

\* Rows that are all of some assignments are no more than these.
LEMMA NoMoreThan ==
    ASSUME Tim!Finite, NEW rows, Single(rows), NEW those \in SUBSET DueWork, Names(rows) \subseteq those
    PROVE  /\ IsFiniteSet(rows) /\ Cardinality(rows) \in Nat /\ Cardinality(those) \in Nat
           /\ Cardinality(rows) <= Cardinality(those)
           /\ Names(rows) = those => Cardinality(rows) = Cardinality(those)
<1>1. IsFiniteSet(those)
    BY FS_Subset, DueFinite DEF Tim!Finite
<1>2. Cardinality(Names(rows)) <= Cardinality(those) /\ Cardinality(those) \in Nat
    BY <1>1, FS_Subset, FS_CardinalityType
<1>3. IsFiniteSet(rows) /\ Cardinality(rows) = Cardinality(Names(rows))
    BY OneRowEach
<1> QED
    BY <1>2, <1>3, FS_CardinalityType

LEMMA ApartAdd ==
    ASSUME NEW R, IsFiniteSet(R), NEW A, A \subseteq R, NEW B, B \subseteq R, A \cap B = {}
    PROVE  Cardinality(A \cup B) = Cardinality(A) + Cardinality(B)
<1>1. IsFiniteSet(A) /\ IsFiniteSet(B)
    BY FS_Subset
<1>2. Cardinality(A) \in Nat /\ Cardinality(B) \in Nat
    BY <1>1, FS_CardinalityType
<1>3. Cardinality(A \cap B) = 0
    BY FS_EmptySet
<1>4. Cardinality(A \cup B) = Cardinality(A) + Cardinality(B) - Cardinality(A \cap B)
    BY <1>1, FS_Union
<1> QED
    BY <1>2, <1>3, <1>4

LEMMA ApartAdd4 ==
    ASSUME NEW R, IsFiniteSet(R), NEW A, A \subseteq R, NEW B, B \subseteq R,
           NEW C, C \subseteq R, NEW D, D \subseteq R,
           A \cap B = {}, (A \cup B) \cap C = {}, ((A \cup B) \cup C) \cap D = {}
    PROVE  Cardinality(((A \cup B) \cup C) \cup D) =
              Cardinality(A) + Cardinality(B) + Cardinality(C) + Cardinality(D)
<1>1. /\ Cardinality(A) \in Nat /\ Cardinality(B) \in Nat
      /\ Cardinality(C) \in Nat /\ Cardinality(D) \in Nat
    BY FS_Subset, FS_CardinalityType
<1>2. PICK P, Q : P = A \cup B /\ Q = P \cup C
    OBVIOUS
<1>3. P \subseteq R /\ P \cap C = {} /\ Q \subseteq R /\ Q \cap D = {}
    BY <1>2
<1>4. Cardinality(A \cup B) = Cardinality(A) + Cardinality(B)
    BY ApartAdd
<1>5. Cardinality(P \cup C) = Cardinality(P) + Cardinality(C)
    BY <1>3, ApartAdd
<1>6. Cardinality(Q \cup D) = Cardinality(Q) + Cardinality(D)
    BY <1>3, ApartAdd
<1> QED
    BY <1>1, <1>2, <1>4, <1>5, <1>6

In(rows, state) == {x \in rows : Tim!StateOf(x[1], x[2]) = state}

LEMMA States ==
    ASSUME Tim!NoneIsNothing, Tim!ClockBound, clock \in Tim!Time, NEW due \in Tim!Due, NEW submitted \in Tim!Due
    PROVE  /\ Tim!StateOf(due, submitted) = "ON_TIME" <=> submitted # None /\ (due = None \/ submitted <= due)
           /\ Tim!StateOf(due, submitted) = "LATE" <=> submitted # None /\ due # None /\ submitted > due
           /\ Tim!StateOf(due, submitted) = "OVERDUE" <=> submitted = None /\ due # None /\ clock > due
           /\ Tim!StateOf(due, submitted) \in {"ON_TIME", "LATE", "OVERDUE", "PENDING"}
           /\ Tim!StateOf(due, submitted) \in {"ON_TIME", "LATE"} <=> submitted # None
BY DEF Tim!NoneIsNothing, Tim!ClockBound, Tim!Time, Tim!Due, Tim!StateOf

\* A row has one state, and the four of them make up all rows.
LEMMA FourStates ==
    ASSUME Tim!NoneIsNothing, Tim!ClockBound, clock \in Tim!Time, NEW rows, IsFiniteSet(rows),
           \A x \in rows : x[1] \in Tim!Due /\ x[2] \in Tim!Due
    PROVE  /\ Cardinality(rows) = Cardinality(In(rows, "ON_TIME")) + Cardinality(In(rows, "LATE"))
                + Cardinality(In(rows, "PENDING")) + Cardinality(In(rows, "OVERDUE"))
           /\ Cardinality({x \in rows : x[2] # None}) =
                Cardinality(In(rows, "ON_TIME")) + Cardinality(In(rows, "LATE"))
<1>1. PICK A, B, C, D : /\ A = In(rows, "ON_TIME") /\ B = In(rows, "LATE")
                        /\ C = In(rows, "PENDING") /\ D = In(rows, "OVERDUE")
    OBVIOUS
<1>2. /\ A \subseteq rows /\ B \subseteq rows /\ C \subseteq rows /\ D \subseteq rows
      /\ A \cap B = {} /\ (A \cup B) \cap C = {} /\ ((A \cup B) \cup C) \cap D = {}
    BY <1>1 DEF In
<1>3. rows = ((A \cup B) \cup C) \cup D /\ {x \in rows : x[2] # None} = A \cup B
    BY <1>1, States DEF In
<1>4. Cardinality(((A \cup B) \cup C) \cup D) =
           Cardinality(A) + Cardinality(B) + Cardinality(C) + Cardinality(D)
    BY <1>2, ApartAdd4
<1>5. Cardinality(A \cup B) = Cardinality(A) + Cardinality(B)
    BY <1>2, ApartAdd
<1> QED
    BY <1>1, <1>3, <1>4, <1>5

-----------------------------------------------------------------------------
\* Rows only get on: they stay, with their deadline and the work handed in.
GetsOn == \A a \in DueWork : dueRow[a] # Tim!NoRow =>
            /\ dueRow'[a] # Tim!NoRow /\ dueRow'[a].due = dueRow[a].due
            /\ dueRow[a].submitted # None => dueRow'[a].submitted = dueRow[a].submitted

LEMMA AroundTold ==
    ASSUME Tim!NoneIsNothing, Told, GetsOn, Tim!Changed, dueRow' \in [DueWork -> HomeRow \cup {Tim!NoRow}],
           classesNow' \subseteq DueClass, teachingNow' \subseteq DueClass, clock' \in Tim!Time
    PROVE  Told'
<1>1. reader' = reader /\ begun' = begun /\ counts' = None
    BY DEF Tim!Changed
<1>2. begun' \subseteq Tim!Handed'
    BY <1>1, HomeApart DEF Told, Tim!Handed, GetsOn
<1>3. \A x \in reader'.rows : Fits(x)'
    BY <1>1 DEF Told, Fits, GetsOn
<1>4. Tim!TypeOK'
    BY <1>1 DEF Told, Tim!TypeOK, HomeRow
<1> QED
    BY <1>1, <1>2, <1>3, <1>4 DEF Told, Tim!CountsTruthful, Single

LEMMA RowsTold ==
    ASSUME Tim!NoneIsNothing, Tim!ClockBound, Told, NEW a \in DueWork,
           \/ Tim!CloseAssignment(a) \/ Tim!HandIn(a)
           \/ \E c \in DueClass, due \in Tim!Due : Tim!OpenAssignment(a, c, due)
    PROVE  Told'
<1>1. PICK r : r = dueRow'[a]
    OBVIOUS
<1>2. /\ Tim!Changed /\ UNCHANGED <<classesNow, teachingNow, clock>>
      /\ dueRow \in [DueWork -> HomeRow \cup {Tim!NoRow}]
      /\ clock \in Tim!Time
    BY DEF Tim!CloseAssignment, Tim!HandIn, Tim!OpenAssignment, Told, Tim!TypeOK
<1>3. /\ r \in HomeRow /\ dueRow' = [dueRow EXCEPT ![a] = r]
      /\ dueRow[a] # Tim!NoRow => /\ r.due = dueRow[a].due
                                  /\ dueRow[a].submitted # None => r.submitted = dueRow[a].submitted
    <2>1. CASE \E c \in DueClass, due \in Tim!Due : Tim!OpenAssignment(a, c, due)
        <3>1. PICK c \in DueClass, due \in Tim!Due : Tim!OpenAssignment(a, c, due)
            BY <2>1
        <3>2. PICK new : new = [status |-> "OPEN", class |-> c, due |-> due, submitted |-> None]
            OBVIOUS
        <3>3. new \in HomeRow
            BY <3>2 DEF HomeRow, Tim!Due
        <3> QED
            BY <1>1, <1>2, <3>1, <3>2, <3>3 DEF Tim!OpenAssignment
    <2>2. CASE Tim!CloseAssignment(a)
        <3>1. dueRow[a] \in HomeRow
            BY <1>2, <2>2, HomeApart DEF Tim!CloseAssignment, Tim!NoneIsNothing
        <3> QED
            BY <1>1, <1>2, <2>2, <3>1 DEF Tim!CloseAssignment, HomeRow
    <2>3. CASE Tim!HandIn(a)
        <3>1. dueRow[a] \in HomeRow
            BY <1>2, <2>3, HomeApart DEF Tim!HandIn, Tim!NoneIsNothing
        <3> QED
            BY <1>1, <1>2, <2>3, <3>1 DEF Tim!HandIn, HomeRow, Tim!Due
    <2> QED
        BY <2>1, <2>2, <2>3
<1>4. dueRow' \in [DueWork -> HomeRow \cup {Tim!NoRow}] /\ GetsOn
    BY <1>2, <1>3, HomeApart DEF GetsOn
<1> QED
    BY <1>2, <1>4, AroundTold DEF Told, Tim!TypeOK

LEMMA ReaderTold ==
    ASSUME Tim!NoneIsNothing, Told, UNCHANGED <<Tim!around, counts>>,
           begun' = begun, reader' \in Reading, reader'.rows \subseteq reader.rows
    PROVE  Told'
<1>1. Tim!TypeOK'
    BY DEF Tim!around, Told, Tim!TypeOK, Reading
<1>2. Tim!CountsTruthful'
    BY DEF Tim!around, Told, Tim!CountsTruthful, Tim!Handed
<1>3. begun' \subseteq Tim!Handed' /\ \A x \in reader'.rows : Fits(x)'
    BY DEF Tim!around, Told, Tim!Handed, Fits
<1> QED
    BY <1>1, <1>2, <1>3 DEF Tim!around, Told, Single

\* What is read fits, and there is one row of each assignment.
LEMMA RowsFit ==
    ASSUME Tim!NoneIsNothing, Told
    PROVE  /\ Tim!HomeworkRows \subseteq Tim!Due \X Tim!Due \X DueWork
           /\ \A x \in Tim!HomeworkRows : Fits(x)
           /\ Single(Tim!HomeworkRows)
           /\ Names(Tim!HomeworkRows) = {b \in DueWork : dueRow[b].class \in classesNow}
<1>1. \A x \in Tim!HomeworkRows : \E a \in DueWork :
        /\ x = <<dueRow[a].due, dueRow[a].submitted, a>> /\ dueRow[a] \in HomeRow /\ dueRow[a].class \in classesNow
    BY HomeApart DEF Tim!HomeworkRows, Tim!NoneIsNothing, Told
<1>2. \A a \in DueWork : dueRow[a].class \in classesNow =>
        dueRow[a] \in HomeRow /\ <<dueRow[a].due, dueRow[a].submitted, a>> \in Tim!HomeworkRows
    <2> SUFFICES ASSUME NEW a \in DueWork, dueRow[a].class \in classesNow
                 PROVE  dueRow[a] \in HomeRow /\ <<dueRow[a].due, dueRow[a].submitted, a>> \in Tim!HomeworkRows
        OBVIOUS
    <2>1. dueRow[a] \in HomeRow
        BY HomeApart DEF Told, Tim!TypeOK, Tim!NoneIsNothing
    <2> QED
        BY <2>1, HomeApart DEF Tim!HomeworkRows
<1>3. Tim!HomeworkRows \subseteq Tim!Due \X Tim!Due \X DueWork
    BY <1>1, HomeApart
<1>4. \A x \in Tim!HomeworkRows : Fits(x)
    <2> SUFFICES ASSUME NEW x \in Tim!HomeworkRows PROVE Fits(x)
        OBVIOUS
    <2>1. PICK a \in DueWork : /\ x = <<dueRow[a].due, dueRow[a].submitted, a>> /\ dueRow[a] \in HomeRow
                                  /\ dueRow[a].class \in classesNow
        BY <1>1
    <2>2. dueRow[a].submitted = None => a \notin begun
        BY DEF Told, Tim!Handed
    <2> QED
        BY <2>1, <2>2, HomeApart DEF Fits
<1>5. Single(Tim!HomeworkRows)
    BY <1>1 DEF Single
<1>6. Names(Tim!HomeworkRows) = {b \in DueWork : dueRow[b].class \in classesNow}
    <2>1. \A x \in Tim!HomeworkRows : x[3] \in DueWork /\ dueRow[x[3]].class \in classesNow
        BY <1>1
    <2>2. \A b \in DueWork : dueRow[b].class \in classesNow =>
             <<dueRow[b].due, dueRow[b].submitted, b>> \in Tim!HomeworkRows
              /\ <<dueRow[b].due, dueRow[b].submitted, b>>[3] = b
        BY <1>2
    <2> QED
        BY <2>1, <2>2 DEF Names
<1> QED
    BY <1>3, <1>4, <1>5, <1>6

\* The rows classified in one state are of assignments that are in it.
LEMMA CountsTold ==
    ASSUME Tim!NoneIsNothing, Tim!ClockBound, Tim!Finite, Told, Tim!Classify
    PROVE  Tim!CountsTruthful' /\ Tim!TypeOK'
<1> DEFINE R == reader.rows
           onTime == {a \in Tim!Handed : dueRow[a].due = None \/ dueRow[a].submitted <= dueRow[a].due}
           past   == {a \in DueWork : dueRow[a].due # None /\ dueRow[a].due < clock}
           asked  == {a \in DueWork : dueRow[a] # Tim!NoRow}
<1>1. /\ \A x \in R : Fits(x) /\ x[1] \in Tim!Due /\ x[2] \in Tim!Due
      /\ Single(R) /\ clock \in Tim!Time /\ Names(R) \subseteq DueWork
    BY DEF Told, Tim!TypeOK, Reading, Fits, Names
<1>2. IsFiniteSet(R) /\ Cardinality(R) <= Cardinality(DueWork)
    BY <1>1, NoMoreThan
<1>3. \A state : In(R, state) \subseteq R /\ Single(In(R, state))
    BY <1>1 DEF In, Single
<1>4. /\ Names(In(R, "ON_TIME")) \subseteq onTime /\ Names(In(R, "LATE")) \subseteq Tim!Handed \ onTime
      /\ Names(In(R, "OVERDUE")) \subseteq past \ begun /\ Names(In(R, "PENDING")) \subseteq asked \ begun
    <2> SUFFICES ASSUME NEW x \in R
                 PROVE  /\ x \in In(R, "ON_TIME") => x[3] \in onTime
                        /\ x \in In(R, "LATE") => x[3] \in Tim!Handed \ onTime
                        /\ x \in In(R, "OVERDUE") => x[3] \in past \ begun
                        /\ x \in In(R, "PENDING") => x[3] \in asked \ begun
        BY <1>3 DEF Names
    <2>1. /\ x[1] \in Tim!Due /\ x[2] \in Tim!Due /\ x[3] \in DueWork /\ dueRow[x[3]] # Tim!NoRow
          /\ x[1] = dueRow[x[3]].due
          /\ x[2] # None => dueRow[x[3]].submitted = x[2]
          /\ x[2] = None => x[3] \notin begun
        BY <1>1 DEF Fits
    <2>2. x \in In(R, "ON_TIME") => x[3] \in onTime
        BY <1>1, <2>1, States DEF In, Tim!Handed
    <2>3. x \in In(R, "LATE") => x[3] \in Tim!Handed \ onTime
        BY <1>1, <2>1, States
            DEF In, Tim!Handed, Tim!Due, Tim!Time, Tim!ClockBound, Tim!NoneIsNothing
    <2>4. x \in In(R, "OVERDUE") => x[3] \in past \ begun
        BY <1>1, <2>1, States DEF In, Tim!Due, Tim!Time, Tim!ClockBound, Tim!NoneIsNothing
    <2>5. x \in In(R, "PENDING") => x[3] \in asked \ begun
        <3>1. x \in In(R, "PENDING") => x[2] = None
            BY <1>1, <2>1, States DEF In
        <3> QED
            BY <2>1, <3>1
    <2> QED
        BY <2>2, <2>3, <2>4, <2>5
<1>5. /\ Cardinality(In(R, "ON_TIME")) <= Cardinality(onTime)
      /\ Cardinality(In(R, "LATE")) <= Cardinality(Tim!Handed \ onTime)
      /\ Cardinality(In(R, "OVERDUE")) <= Cardinality(past \ begun)
      /\ Cardinality(In(R, "PENDING")) <= Cardinality(asked \ begun)
    <2>1. /\ onTime \in SUBSET DueWork /\ Tim!Handed \ onTime \in SUBSET DueWork
          /\ past \ begun \in SUBSET DueWork /\ asked \ begun \in SUBSET DueWork
        BY DEF Tim!Handed
    <2> HIDE DEF R, onTime, past, asked
    <2> QED
        BY <1>3, <1>4, <2>1, NoMoreThan
<1>6. Cardinality(R) = Cardinality(In(R, "ON_TIME")) + Cardinality(In(R, "LATE"))
                + Cardinality(In(R, "PENDING")) + Cardinality(In(R, "OVERDUE"))
    BY <1>1, <1>2, FourStates
<1>7. /\ counts' = [onTime |-> Cardinality(In(R, "ON_TIME")), late |-> Cardinality(In(R, "LATE")),
                    pending |-> Cardinality(In(R, "PENDING")), overdue |-> Cardinality(In(R, "OVERDUE")),
                    total |-> Cardinality(R)]
      /\ UNCHANGED <<Tim!around, begun>> /\ reader' = Tim!Idle
    BY DueCardinal DEF Tim!Classify, In
<1>8. Tim!CountsTruthful'
    BY <1>5, <1>6, <1>7, DueCardinal DEF Tim!CountsTruthful, Tim!Handed, Tim!around
<1>9. Tim!TypeOK'
    BY <1>2, <1>7, DueCardinal DEF Told, Tim!TypeOK, Tim!around, Tim!Idle
<1> QED
    BY <1>8, <1>9

LEMMA ToldStep ==
    ASSUME Tim!NoneIsNothing, Tim!ClockBound, Tim!Finite, Told, [Tim!Next]_(Tim!vars)
    PROVE  Told'
<1>0. /\ dueRow \in [DueWork -> HomeRow \cup {Tim!NoRow}]
      /\ classesNow \subseteq DueClass /\ teachingNow \subseteq DueClass
      /\ clock \in Tim!Time /\ reader \in Reading /\ Tim!Idle \in Reading /\ Tim!Idle.rows = {}
    BY DEF Told, Tim!TypeOK, Reading, Tim!Idle
<1>1. ASSUME NEW c \in DueClass, Tim!Enrol(c) \/ Tim!EndEnrolment(c) \/ Tim!Assign(c) PROVE Told'
    <2>1. GetsOn
        BY <1>1 DEF GetsOn, Tim!Enrol, Tim!EndEnrolment, Tim!Assign
    <2> QED
        BY <1>0, <1>1, <2>1, AroundTold DEF Tim!Enrol, Tim!EndEnrolment, Tim!Assign
<1>2. CASE Tim!Tick
    <2>1. GetsOn /\ clock' \in Tim!Time
        BY <1>0, <1>2 DEF GetsOn, Tim!Tick, Tim!Time, Tim!ClockBound
    <2> QED
        BY <1>0, <1>2, <2>1, AroundTold DEF Tim!Tick
<1>3. ASSUME NEW teacher \in BOOLEAN, Tim!Ask(teacher) PROVE Told'
    <2>1. /\ reader' \in Reading /\ reader'.rows = {} /\ counts' = None /\ UNCHANGED Tim!around
          /\ begun' = Tim!Handed
        BY <1>0, <1>3 DEF Tim!Ask, Reading, Tim!Idle
    <2>2. Tim!Handed' = Tim!Handed /\ Tim!Handed \subseteq DueWork
        BY <2>1 DEF Tim!Handed, Tim!around
    <2> QED
        BY <2>1, <2>2 DEF Told, Tim!TypeOK, Tim!CountsTruthful, Tim!around, Single, Reading
<1>4. CASE Tim!ReadScope
    <2>1. reader' \in Reading /\ reader'.rows = {} /\ UNCHANGED <<Tim!around, counts, begun>>
        BY <1>0, <1>4 DEF Tim!ReadScope, Tim!Goes, Reading, Tim!Idle
    <2> QED
        BY <2>1, ReaderTold
<1>5. ASSUME NEW c \in DueClass, Tim!CheckAssigned(c) PROVE Told'
    <2>1. /\ reader' \in Reading /\ reader'.rows \subseteq reader.rows
          /\ UNCHANGED <<Tim!around, counts, begun>>
        BY <1>0, <1>5 DEF Tim!CheckAssigned, Tim!Goes, Reading, Tim!Idle
    <2> QED
        BY <2>1, ReaderTold
<1>6. CASE Tim!Refuse
    BY <1>0, <1>6, ReaderTold DEF Tim!Refuse, Tim!Goes
<1>7. CASE Tim!ReadRows
    <2>1. PICK R : R = Tim!HomeworkRows
        OBVIOUS
    <2>2. /\ reader' = [Tim!Idle EXCEPT !.stage = "classify", !.rows = R] /\ UNCHANGED <<Tim!around, counts, begun>>
          /\ R \in SUBSET (Tim!Due \X Tim!Due \X DueWork) /\ \A x \in R : Fits(x)
          /\ Single(R)
        BY <1>7, <2>1, RowsFit DEF Tim!ReadRows, Tim!Goes
    <2>3. reader' \in Reading /\ reader'.rows = R
        BY <2>2 DEF Reading, Tim!Idle
    <2>4. Tim!TypeOK' /\ Tim!CountsTruthful' /\ Tim!Handed' = Tim!Handed
        BY <2>2, <2>3 DEF Told, Tim!TypeOK, Reading, Tim!CountsTruthful, Tim!Handed, Tim!around
    <2> QED
        BY <2>2, <2>3, <2>4 DEF Told, Fits, Tim!around
<1>8. CASE Tim!Classify
    <2>1. UNCHANGED <<Tim!around, begun>> /\ reader' = Tim!Idle
        BY <1>8 DEF Tim!Classify
    <2> QED
        BY <1>0, <1>8, <2>1, CountsTold DEF Told, Tim!Handed, Single, Tim!around
<1>9. CASE UNCHANGED Tim!vars
    <2>1. UNCHANGED <<Tim!around, counts, begun, reader>>
        BY <1>9 DEF Tim!vars
    <2> QED
        BY <1>0, <2>1, ReaderTold
<1> QED
    BY <1>1, <1>2, <1>3, <1>4, <1>5, <1>6, <1>7, <1>8, <1>9, RowsTold DEF Tim!Next

LEMMA ToldInit == ASSUME Tim!NoneIsNothing, Tim!ClockBound, Tim!Init PROVE Told
BY HomeApart, DueCardinal DEF Tim!Init, Told, Tim!TypeOK, Tim!CountsTruthful, Reading, Tim!Idle,
    Single, Tim!Time, Tim!ClockBound, Tim!Handed

\* What is told of a student's homework was so while the answer was made.
THEOREM HomeworkTold == ASSUME Tim!NoneIsNothing, Tim!ClockBound, Tim!Finite PROVE Tim!Spec => []Told
BY ToldInit, ToldStep, PTL DEF Tim!Spec

LEMMA CompleteStep ==
    ASSUME Tim!NoneIsNothing, Tim!ClockBound, Tim!Finite, Told
    PROVE  Tim!CountsComplete
<1> SUFFICES ASSUME Tim!Classify, reader.rows = Tim!HomeworkRows
             PROVE  /\ counts'.total = Cardinality({a \in DueWork : dueRow[a].class \in classesNow})
                    /\ counts'.onTime + counts'.late = Cardinality({a \in Tim!Handed : dueRow[a].class \in classesNow})
    BY DueCardinal DEF Tim!CountsComplete
<1> DEFINE R == Tim!HomeworkRows
           done == {x \in R : x[2] # None}
           those == {a \in DueWork : dueRow[a].class \in classesNow}
           handed == {a \in Tim!Handed : dueRow[a].class \in classesNow}
<1>1. /\ \A x \in R : Fits(x) /\ x[1] \in Tim!Due /\ x[2] \in Tim!Due
      /\ Single(R) /\ clock \in Tim!Time /\ Names(R) = those /\ those \in SUBSET DueWork
      /\ handed \in SUBSET DueWork
    BY RowsFit DEF Told, Tim!TypeOK, Fits, Tim!Handed
<1>2. IsFiniteSet(R) /\ Cardinality(R) = Cardinality(those)
    BY <1>1, NoMoreThan
<1>3. Single(done)
    BY <1>1 DEF Single
<1>4. Names(done) = handed
    <2>1. \A x \in R : (x[2] # None) = (dueRow[x[3]].submitted # None) /\ dueRow[x[3]].class \in classesNow
        BY DEF Tim!HomeworkRows
    <2>2. \A x \in R : x[3] \in DueWork
        BY <1>1 DEF Fits
    <2>3. Names(done) \subseteq handed
        BY <2>1, <2>2 DEF Names, Tim!Handed
    <2>4. \A a \in handed : \E x \in done : x[3] = a
        BY <1>1, <2>1 DEF Names, Tim!Handed
    <2> QED
        BY <2>3, <2>4 DEF Names
<1>5. Cardinality(done) = Cardinality(handed)
    BY <1>1, <1>3, <1>4, NoMoreThan
<1>6. Cardinality(done) = Cardinality(In(R, "ON_TIME")) + Cardinality(In(R, "LATE"))
    BY <1>1, <1>2, FourStates
<1>7. /\ counts'.total = Cardinality(R) /\ counts'.onTime = Cardinality(In(R, "ON_TIME"))
      /\ counts'.late = Cardinality(In(R, "LATE"))
    BY DueCardinal DEF Tim!Classify, In
<1> QED
    BY <1>2, <1>5, <1>6, <1>7

\* An answer made while nothing changed counts exactly what there is.
THEOREM HomeworkComplete ==
    ASSUME Tim!NoneIsNothing, Tim!ClockBound, Tim!Finite PROVE Tim!Spec => [][Tim!CountsComplete]_(Tim!vars)
<1>1. Told => [Tim!CountsComplete]_(Tim!vars)
    BY CompleteStep
<1> QED
    BY <1>1, HomeworkTold, PTL DEF Tim!Spec

-----------------------------------------------------------------------------
(* Enrolment *)

InviteKind == [class : Class \cup {None}, status : {"NONE", "ACTIVE", "REVOKED"},
               expired : BOOLEAN, max : (1..MaxUses) \cup {None}, count : Nat]
EnrolKind  == [student : User \cup {None}, class : Class \cup {None},
               year : Year \cup {None}, via : Invite \cup {None}]
CallKind   == [op : {"idle", "join", "commit", "register"}, user : User \cup {None},
               invite : Invite \cup {None}, year : Year \cup {None}, profile : BOOLEAN]

EnrolmentRows ==
    /\ account \in [User -> Enr!UserStatus]
    /\ studentMember \subseteq User
    /\ profile \in [User -> Enr!Status \cup {None}]
    /\ yearClass \in [Class -> [status : Enr!Status, year : Year \cup {None}]]
    /\ invite \in [Invite -> InviteKind]
    /\ enrol \in [Enrol -> EnrolKind]
    /\ current \in Enr!Selection
    /\ enrolCall \in [Handler -> CallKind]

\* An invitation that was ever given has a class.
Offered == \A i \in Invite : invite[i].status # "NONE" => invite[i].class \in Class

\* A request under way has its user and invitation; who joins is active, and a student member
\* once the transaction has looked.
Serving ==
    \A h \in Handler : enrolCall[h].op # "idle" =>
        /\ enrolCall[h].user \in User /\ enrolCall[h].invite \in Invite
        /\ enrolCall[h].op # "register" => account[enrolCall[h].user] = "ACTIVE"
        /\ enrolCall[h].op = "commit" => enrolCall[h].user \in studentMember

\* Who is not registered has no profile and is enrolled nowhere.
NewAreBare ==
    \A u \in User : account[u] = "NEW" =>
        profile[u] = None /\ \A e \in Enrol : enrol[e].student # u

Admitted ==
    /\ EnrolmentRows /\ Offered /\ Serving /\ NewAreBare
    /\ Enr!OncePerNamedYear /\ Enr!NoHalfAccounts /\ Enr!SelectionBelongs

-----------------------------------------------------------------------------
LEMMA EnrolFinite == \A S : Enr!IsFiniteSet(S) = IsFiniteSet(S)
BY DEF Enr!IsFiniteSet, IsFiniteSet

LEMMA EnrolCardinal == \A S : Enr!Cardinality(S) = Cardinality(S)
BY DEF Enr!Cardinality, Cardinality

LEMMA InitAdmitted == ASSUME Enr!SeededAreUsers, Enr!NoneIsNothing PROVE Enr!Init => Admitted
<1> SUFFICES ASSUME Enr!Init PROVE Admitted
    OBVIOUS
<1> USE DEF Enr!NoneIsNothing
<1>1. Enr!NoInvite \in InviteKind /\ Enr!NoEnrol \in EnrolKind /\ Enr!Idle \in CallKind
    BY DEF Enr!NoInvite, InviteKind, Enr!NoEnrol, EnrolKind, Enr!Idle, CallKind
<1>2. EnrolmentRows
    BY <1>1 DEF Enr!Init, EnrolmentRows, Enr!UserStatus, Enr!Status, Enr!Selection,
        Enr!SeededAreUsers
<1>3. Offered /\ Serving
    BY DEF Enr!Init, Offered, Serving, Enr!NoInvite, Enr!Idle
<1>4. \A e \in Enrol : enrol[e].student = None
    BY DEF Enr!Init, Enr!NoEnrol
<1>5. NewAreBare
    BY <1>4 DEF Enr!Init, NewAreBare
<1>6. Enr!OncePerNamedYear
    BY <1>4 DEF Enr!OncePerNamedYear, Enr!EnrolmentsIn
<1>7. Enr!NoHalfAccounts /\ Enr!SelectionBelongs
    BY DEF Enr!Init, Enr!NoHalfAccounts, Enr!SelectionBelongs
<1> QED
    BY <1>2, <1>3, <1>5, <1>6, <1>7 DEF Admitted

\* A new enrolment of u keeps students once in a class and year if none has its year, and
\* every selection.
LEMMA NewEnrolment ==
    ASSUME Enr!NoneIsNothing, Admitted, NEW e \in Enrol, enrol[e] = Enr!NoEnrol,
           NEW row \in EnrolKind, row.student \in User,
           enrol' = [enrol EXCEPT ![e] = row], UNCHANGED current,
           row.year # None =>
             \A g \in Enr!EnrolmentsIn(row.student, row.class) : enrol[g].year # row.year
    PROVE  /\ enrol' \in [Enrol -> EnrolKind]
           /\ \A g \in Enrol : g # e => enrol'[g] = enrol[g]
           /\ enrol'[e] = row
           /\ Enr!OncePerNamedYear' /\ Enr!SelectionBelongs'
<1> USE DEF Enr!NoneIsNothing
<1>1. /\ enrol' \in [Enrol -> EnrolKind] /\ enrol'[e] = row
      /\ \A g \in Enrol : g # e => enrol'[g] = enrol[g]
    BY DEF Admitted, EnrolmentRows
<1>2. Enr!OncePerNamedYear'
  <2> SUFFICES ASSUME NEW u \in User, NEW c \in Class, NEW f \in Enrol, NEW g \in Enrol,
                      enrol'[f].student = u, enrol'[f].class = c,
                      enrol'[g].student = u, enrol'[g].class = c,
                      enrol'[f].year = enrol'[g].year, enrol'[f].year # None
               PROVE  f = g
      BY DEF Enr!OncePerNamedYear, Enr!EnrolmentsIn
  <2>1. CASE f # e /\ g # e
      BY <2>1, <1>1 DEF Admitted, Enr!OncePerNamedYear, Enr!EnrolmentsIn
  <2>2. CASE f = e /\ g # e
      BY <2>2, <1>1 DEF Enr!EnrolmentsIn
  <2>3. CASE g = e /\ f # e
      BY <2>3, <1>1 DEF Enr!EnrolmentsIn
  <2> QED
      BY <2>1, <2>2, <2>3
<1>3. Enr!SelectionBelongs'
  <2> SUFFICES ASSUME NEW u \in User, current[u] # None PROVE enrol'[current[u]].student = u
      BY DEF Enr!SelectionBelongs
  <2>1. current[u] \in Enrol /\ enrol[current[u]].student = u
      BY DEF Admitted, EnrolmentRows, Enr!Selection, Enr!SelectionBelongs
  <2>2. current[u] # e
      BY <2>1 DEF Enr!NoEnrol
  <2> QED
      BY <2>1, <2>2, <1>1
<1> QED
    BY <1>1, <1>2, <1>3

-----------------------------------------------------------------------------
(* Steps that enrol, register and select nobody *)

LEMMA EnrolmentRowsStay ==
    ASSUME Admitted, UNCHANGED <<account, studentMember, profile, enrol, current>>
    PROVE  NewAreBare' /\ Enr!OncePerNamedYear' /\ Enr!NoHalfAccounts' /\ Enr!SelectionBelongs'
BY DEF Admitted, NewAreBare, Enr!OncePerNamedYear, Enr!EnrolmentsIn, Enr!NoHalfAccounts,
    Enr!SelectionBelongs

LEMMA InvitingKept ==
    ASSUME Enr!NoneIsNothing, Enr!Bounds, Admitted, NEW i \in Invite,
           \/ \E c \in Class, max \in 1..MaxUses \cup {None} : Enr!Invitation(i, c, max)
           \/ Enr!Revoke(i) \/ Enr!Expire(i)
    PROVE  Admitted'
<1>1. UNCHANGED <<account, studentMember, profile, yearClass, enrol, current, enrolCall>>
    BY DEF Enr!Invitation, Enr!Revoke, Enr!Expire
<1>2. invite' \in [Invite -> InviteKind] /\ Offered'
  <2>1. CASE \E c \in Class, max \in 1..MaxUses \cup {None} : Enr!Invitation(i, c, max)
      BY <2>1 DEF Admitted, EnrolmentRows, Offered, Enr!Invitation, InviteKind
  <2>2. CASE Enr!Revoke(i)
      BY <2>2 DEF Admitted, EnrolmentRows, Offered, Enr!Revoke, InviteKind
  <2>3. CASE Enr!Expire(i)
      BY <2>3 DEF Admitted, EnrolmentRows, Offered, Enr!Expire, InviteKind
  <2> QED
      BY <2>1, <2>2, <2>3
<1>3. EnrolmentRows'
    BY <1>1, <1>2 DEF Admitted, EnrolmentRows, Enr!Selection
<1>4. Serving'
    BY <1>1 DEF Admitted, Serving
<1> QED
    BY <1>1, <1>2, <1>3, <1>4, EnrolmentRowsStay DEF Admitted

LEMMA ClassKept ==
    ASSUME Admitted, NEW c \in Class, NEW st \in Enr!Status, NEW y \in Year \cup {None},
           Enr!EditClass(c, st, y)
    PROVE  Admitted'
<1>1. EnrolmentRows'
    BY DEF Enr!EditClass, Admitted, EnrolmentRows, Enr!Selection
<1>2. Offered' /\ Serving'
    BY DEF Enr!EditClass, Admitted, Offered, Serving
<1>3. UNCHANGED <<account, studentMember, profile, enrol, current>>
    BY DEF Enr!EditClass
<1> QED
    BY <1>1, <1>2, <1>3, EnrolmentRowsStay DEF Admitted

LEMMA AskKept ==
    ASSUME Enr!NoneIsNothing, Admitted, NEW h \in Handler, NEW u \in User, NEW i \in Invite,
           Enr!AskJoin(h, u, i) \/ Enr!AskRegister(h, u, i)
    PROVE  Admitted'
<1>1. PICK op \in {"join", "register"} :
        Enr!Ask(h, op, u, i) /\ Enr!Usable(i) /\ (op = "join" => account[u] = "ACTIVE")
    BY DEF Enr!AskJoin, Enr!AskRegister
<1>2. invite[i].class \in Class
    BY <1>1 DEF Enr!Usable, Admitted, Offered
<1>3. yearClass[invite[i].class].year \in Year \cup {None}
    BY <1>2 DEF Admitted, EnrolmentRows
<1> DEFINE c == [op |-> op, user |-> u, invite |-> i,
                 year |-> yearClass[invite[i].class].year, profile |-> FALSE]
<1>4. enrolCall' = [enrolCall EXCEPT ![h] = c] /\ UNCHANGED <<account, studentMember, profile, yearClass, invite, enrol, current>>
    BY <1>1 DEF Enr!Ask
<1>5. c \in CallKind
    BY <1>3 DEF CallKind
<1>6. EnrolmentRows'
    BY <1>4, <1>5 DEF Admitted, EnrolmentRows, Enr!Selection
<1>7. Offered'
    BY <1>4 DEF Admitted, Offered
<1>8. Serving'
  <2> SUFFICES ASSUME NEW g \in Handler, enrolCall'[g].op # "idle"
               PROVE  /\ enrolCall'[g].user \in User /\ enrolCall'[g].invite \in Invite
                      /\ enrolCall'[g].op # "register" => account[enrolCall'[g].user] = "ACTIVE"
                      /\ enrolCall'[g].op = "commit" => enrolCall'[g].user \in studentMember
      BY <1>4 DEF Serving
  <2>1. CASE g = h
      BY <2>1, <1>1, <1>4 DEF Admitted, EnrolmentRows
  <2>2. CASE g # h
      BY <2>2, <1>4 DEF Admitted, EnrolmentRows, Serving
  <2> QED
      BY <2>1, <2>2
<1> QED
    BY <1>4, <1>6, <1>7, <1>8, EnrolmentRowsStay DEF Admitted

\* A request that ends leaves the rest of the calls well formed.
LEMMA LeaveKept ==
    ASSUME Admitted, NEW h \in Handler, Enr!Leave(h), studentMember \subseteq studentMember',
           \A u \in User : account[u] = "ACTIVE" => account'[u] = "ACTIVE"
    PROVE  enrolCall' \in [Handler -> CallKind] /\ Serving'
<1>1. Enr!Idle \in CallKind
    BY DEF Enr!Idle, CallKind
<1>2. enrolCall' \in [Handler -> CallKind]
    BY <1>1 DEF Enr!Leave, Admitted, EnrolmentRows
<1>3. \A g \in Handler : g # h => enrolCall'[g] = enrolCall[g]
    BY DEF Enr!Leave, Admitted, EnrolmentRows
<1>4. enrolCall'[h].op = "idle"
    BY DEF Enr!Leave, Admitted, EnrolmentRows, Enr!Idle
<1>5. Serving'
    BY <1>3, <1>4 DEF Serving, Admitted
<1> QED
    BY <1>2, <1>5

LEMMA LookKept == ASSUME Admitted, NEW h \in Handler, Enr!Look(h) PROVE Admitted'
<1>1. UNCHANGED <<account, studentMember, profile, yearClass, invite, enrol, current>>
    BY DEF Enr!Look
<1>2. enrolCall' \in [Handler -> CallKind] /\ Serving'
  <2>1. CASE Enr!Leave(h)
      BY <2>1, <1>1, LeaveKept
  <2>2. CASE ~Enr!Leave(h)
    <3> DEFINE found == profile[enrolCall[h].user] # None
    <3>1. /\ enrolCall' = [enrolCall EXCEPT ![h].op = "commit", ![h].profile = found]
          /\ enrolCall[h].op = "join" /\ enrolCall[h].user \in studentMember
        BY <2>2 DEF Enr!Look
    <3>2. enrolCall' \in [Handler -> CallKind]
      <4> DEFINE c == [enrolCall[h] EXCEPT !.op = "commit", !.profile = found]
      <4>1. found \in BOOLEAN
          BY Zenon
      <4> HIDE DEF found
      <4>2. enrolCall[h] \in CallKind
          BY DEF Admitted, EnrolmentRows
      <4>3. c \in CallKind
          BY <4>1, <4>2 DEF CallKind
      <4>4. enrolCall' = [enrolCall EXCEPT ![h] = c]
          BY <3>1
      <4> HIDE DEF c
      <4> QED
          BY <4>3, <4>4 DEF Admitted, EnrolmentRows
    <3>3. \A g \in Handler : /\ enrolCall'[g].user = enrolCall[g].user /\ enrolCall'[g].invite = enrolCall[g].invite
                             /\ g # h => enrolCall'[g] = enrolCall[g]
        BY <3>1 DEF Admitted, EnrolmentRows, CallKind
    <3>4. enrolCall'[h].op = "commit" /\ account[enrolCall[h].user] = "ACTIVE"
        BY <3>1 DEF Admitted, EnrolmentRows, CallKind, Serving
    <3>5. Serving'
      <4> SUFFICES ASSUME NEW g \in Handler, enrolCall'[g].op # "idle"
                   PROVE  /\ enrolCall[g].user \in User /\ enrolCall[g].invite \in Invite
                          /\ enrolCall'[g].op # "register" => account[enrolCall[g].user] = "ACTIVE"
                          /\ enrolCall'[g].op = "commit" => enrolCall[g].user \in studentMember
          BY <3>3, <1>1 DEF Serving
      <4>1. CASE g = h
          BY <4>1, <3>1, <3>4 DEF Admitted, Serving
      <4>2. CASE g # h
          BY <4>2, <3>3 DEF Admitted, Serving
      <4> QED
          BY <4>1, <4>2
    <3> QED
        BY <3>2, <3>5
  <2> QED
      BY <2>1, <2>2
<1>3. EnrolmentRows' /\ Offered'
    BY <1>1, <1>2 DEF Admitted, EnrolmentRows, Offered, Enr!Selection
<1> QED
    BY <1>1, <1>2, <1>3, EnrolmentRowsStay DEF Admitted

LEMMA FailKept == ASSUME Admitted, NEW h \in Handler, Enr!Fail(h) PROVE Admitted'
<1>1. UNCHANGED <<account, studentMember, profile, yearClass, invite, enrol, current>> /\ Enr!Leave(h)
    BY DEF Enr!Fail
<1>2. enrolCall' \in [Handler -> CallKind] /\ Serving'
    BY <1>1, LeaveKept
<1>3. EnrolmentRows' /\ Offered'
    BY <1>1, <1>2 DEF Admitted, EnrolmentRows, Offered, Enr!Selection
<1> QED
    BY <1>1, <1>2, <1>3, EnrolmentRowsStay DEF Admitted

-----------------------------------------------------------------------------
(* Profiles, accounts and selections *)

LEMMA ProfileKept ==
    ASSUME Enr!NoneIsNothing, Admitted, NEW u \in User,
           Enr!CreateStudent(u) \/ \E st \in Enr!Status : Enr!SetStudentStatus(u, st)
    PROVE  Admitted'
<1>1. PICK st \in Enr!Status : profile' = [profile EXCEPT ![u] = st]
    BY DEF Enr!CreateStudent, Enr!SetStudentStatus, Enr!Status
<1>2. UNCHANGED <<account, studentMember, yearClass, invite, enrol, current, enrolCall>>
    BY DEF Enr!CreateStudent, Enr!SetStudentStatus
<1>3. account[u] # "NEW"
    BY DEF Enr!CreateStudent, Enr!SetStudentStatus, Admitted, NewAreBare
<1>4. EnrolmentRows' /\ Offered' /\ Serving'
    BY <1>1, <1>2 DEF Admitted, EnrolmentRows, Offered, Serving, Enr!Selection
<1>5. NewAreBare'
    BY <1>1, <1>2, <1>3 DEF Admitted, EnrolmentRows, NewAreBare
<1>6. Enr!OncePerNamedYear' /\ Enr!SelectionBelongs'
    BY <1>2 DEF Admitted, Enr!OncePerNamedYear, Enr!EnrolmentsIn, Enr!SelectionBelongs
<1>7. Enr!NoHalfAccounts'
    BY <1>1, <1>2 DEF Admitted, EnrolmentRows, Enr!NoHalfAccounts, Enr!NoneIsNothing
<1> QED
    BY <1>4, <1>5, <1>6, <1>7 DEF Admitted

LEMMA RegisterAloneKept == ASSUME Admitted, NEW u \in User, Enr!RegisterAlone(u) PROVE Admitted'
<1>1. /\ account' = [account EXCEPT ![u] = "PENDING_VERIFICATION"] /\ account[u] = "NEW"
      /\ UNCHANGED <<studentMember, profile, yearClass, invite, enrol, current, enrolCall>>
    BY DEF Enr!RegisterAlone
<1>2. EnrolmentRows' /\ Offered'
    BY <1>1 DEF Admitted, EnrolmentRows, Offered, Enr!UserStatus, Enr!Selection
<1>3. Serving'
    BY <1>1 DEF Admitted, EnrolmentRows, Serving
<1>4. NewAreBare' /\ Enr!NoHalfAccounts'
    BY <1>1 DEF Admitted, EnrolmentRows, NewAreBare, Enr!NoHalfAccounts
<1>5. Enr!OncePerNamedYear' /\ Enr!SelectionBelongs'
    BY <1>1 DEF Admitted, Enr!OncePerNamedYear, Enr!EnrolmentsIn, Enr!SelectionBelongs
<1> QED
    BY <1>2, <1>3, <1>4, <1>5 DEF Admitted

LEMMA SelectKept ==
    ASSUME Admitted, NEW u \in User, NEW e \in Enrol, Enr!Select(u, e)
    PROVE  Admitted'
<1>1. /\ current' = [current EXCEPT ![u] = e] /\ enrol[e].student = u
      /\ UNCHANGED <<account, studentMember, profile, yearClass, invite, enrol, enrolCall>>
    BY DEF Enr!Select, Enr!Selectable
<1>2. EnrolmentRows'
    BY <1>1 DEF Admitted, EnrolmentRows, Enr!Selection
<1>3. Offered' /\ Serving' /\ NewAreBare' /\ Enr!OncePerNamedYear' /\ Enr!NoHalfAccounts'
    BY <1>1 DEF Admitted, Offered, Serving, NewAreBare, Enr!OncePerNamedYear, Enr!EnrolmentsIn,
        Enr!NoHalfAccounts
<1>4. Enr!SelectionBelongs'
    BY <1>1 DEF Admitted, EnrolmentRows, Enr!Selection, Enr!SelectionBelongs
<1> QED
    BY <1>2, <1>3, <1>4 DEF Admitted

-----------------------------------------------------------------------------
(* Enrolling *)

LEMMA ByHandKept ==
    ASSUME Enr!NoneIsNothing, Admitted, NEW u \in User, NEW c \in Class, Enr!EnrolByHand(u, c)
    PROVE  Admitted'
<1> DEFINE row == [student |-> u, class |-> c, year |-> None, via |-> None]
<1>1. PICK e \in Enrol : enrol[e] = Enr!NoEnrol /\ enrol' = [enrol EXCEPT ![e] = row]
    BY DEF Enr!EnrolByHand
<1>2. UNCHANGED <<account, studentMember, profile, yearClass, invite, current, enrolCall>> /\ profile[u] # None
    BY DEF Enr!EnrolByHand
<1>3. row \in EnrolKind /\ row.student = u /\ row.year = None
    BY DEF EnrolKind
<1> HIDE DEF row
<1>4. /\ enrol' \in [Enrol -> EnrolKind] /\ enrol'[e] = row
      /\ \A g \in Enrol : g # e => enrol'[g] = enrol[g]
      /\ Enr!OncePerNamedYear' /\ Enr!SelectionBelongs'
    BY <1>1, <1>2, <1>3, NewEnrolment
<1>5. EnrolmentRows' /\ Offered' /\ Serving'
    BY <1>2, <1>4 DEF Admitted, EnrolmentRows, Offered, Serving, Enr!Selection
<1>6. NewAreBare'
    BY <1>2, <1>3, <1>4 DEF Admitted, NewAreBare
<1>7. Enr!NoHalfAccounts'
    BY <1>1, <1>2, <1>4 DEF Admitted, Enr!NoHalfAccounts, Enr!NoEnrol
<1> QED
    BY <1>4, <1>5, <1>6, <1>7 DEF Admitted

\* A use counted on an invitation leaves the rest of its row as it was.
LEMMA UseCounted ==
    ASSUME NEW i \in Invite, invite \in [Invite -> InviteKind], Offered, Enr!CountUse(i)
    PROVE  invite' \in [Invite -> InviteKind] /\ Offered'
<1>1. invite' = [invite EXCEPT ![i].count = @ + 1]
    BY DEF Enr!CountUse
<1>2. /\ [invite[i] EXCEPT !.count = @ + 1] \in InviteKind
      /\ invite'[i].status = invite[i].status /\ invite'[i].class = invite[i].class
      /\ \A j \in Invite : j # i => invite'[j] = invite[j]
    BY <1>1 DEF InviteKind
<1>3. invite' \in [Invite -> InviteKind]
    BY <1>1, <1>2
<1>4. Offered'
    BY <1>2 DEF Offered
<1> QED
    BY <1>3, <1>4

\* What joining and registering have in common: the enrolment, the use and the profile.
LEMMA ViaKept ==
    ASSUME Enr!NoneIsNothing, Admitted, NEW h \in Handler, enrolCall[h].op # "idle",
           \E e \in Enrol : Enr!EnrolVia(h, e), Enr!CountUse(enrolCall[h].invite), Enr!Enlist(enrolCall[h].user),
           Enr!Leave(h), UNCHANGED <<yearClass, current>>,
           \A g \in Enr!EnrolmentsIn(enrolCall[h].user, invite[enrolCall[h].invite].class) :
             enrolCall[h].year # None => enrol[g].year # enrolCall[h].year,
           studentMember' \subseteq User, studentMember \subseteq studentMember', enrolCall[h].user \in studentMember',
           account' \in [User -> Enr!UserStatus], account'[enrolCall[h].user] = "ACTIVE",
           \A u \in User : u # enrolCall[h].user => account'[u] = account[u],
           account[enrolCall[h].user] = "ACTIVE" \/ account[enrolCall[h].user] = "NEW"
    PROVE  Admitted'
<1> USE DEF Enr!NoneIsNothing
<1> DEFINE u == enrolCall[h].user
           i == enrolCall[h].invite
           row == [student |-> u, year |-> enrolCall[h].year, class |-> invite[i].class, via |-> i]
<1>1. u \in User /\ i \in Invite
    BY DEF Admitted, Serving
<1>2. PICK e \in Enrol : enrol[e] = Enr!NoEnrol /\ enrol' = [enrol EXCEPT ![e] = row]
    BY DEF Enr!EnrolVia
<1>3. enrolCall[h].year \in Year \cup {None} /\ invite[i].class \in Class \cup {None}
    BY <1>1 DEF Admitted, EnrolmentRows, CallKind, InviteKind
<1>4. /\ row \in EnrolKind /\ row.student = u /\ row.via = i
      /\ row.class = invite[i].class /\ row.year = enrolCall[h].year
    BY <1>1, <1>3 DEF EnrolKind
<1>5. profile' \in [User -> Enr!Status \cup {None}] /\ profile'[u] # None
      /\ \A v \in User : v # u => profile'[v] = profile[v]
    BY <1>1 DEF Enr!Enlist, Admitted, EnrolmentRows, Enr!Status
<1>6. invite' \in [Invite -> InviteKind] /\ Offered'
    BY <1>1, UseCounted DEF Admitted, EnrolmentRows
<1>7. enrolCall' \in [Handler -> CallKind] /\ Serving'
  <2>1. \A v \in User : account[v] = "ACTIVE" => account'[v] = "ACTIVE"
      OBVIOUS
  <2> QED
      BY <2>1, LeaveKept
<1> HIDE DEF u, i, row
<1>8. /\ enrol' \in [Enrol -> EnrolKind] /\ enrol'[e] = row
      /\ \A g \in Enrol : g # e => enrol'[g] = enrol[g]
      /\ Enr!OncePerNamedYear' /\ Enr!SelectionBelongs'
  <2>1. row.year # None => \A g \in Enr!EnrolmentsIn(row.student, row.class) : enrol[g].year # row.year
      BY <1>4 DEF u, i
  <2> QED
      BY <1>1, <1>2, <1>4, <2>1, NewEnrolment
<1>9. EnrolmentRows'
    BY <1>5, <1>6, <1>7, <1>8 DEF Admitted, EnrolmentRows, Enr!Selection
<1>10. NewAreBare'
    BY <1>4, <1>5, <1>8 DEF Admitted, NewAreBare, u
<1>11. Enr!NoHalfAccounts'
  <2> SUFFICES ASSUME NEW v \in User \ Seeded, account'[v] = "ACTIVE"
               PROVE  /\ v \in studentMember' /\ profile'[v] # None
                      /\ \E f \in Enrol : enrol'[f].student = v /\ enrol'[f].via # None
      BY DEF Enr!NoHalfAccounts
  <2>1. CASE v = u
    <3>1. enrol'[e].student = v /\ enrol'[e].via # None
        BY <2>1, <1>1, <1>4, <1>8
    <3> QED
        BY <3>1, <2>1, <1>5 DEF u
  <2>2. CASE v # u
    <3>1. account[v] = "ACTIVE"
        BY <2>2 DEF u
    <3>2. PICK f \in Enrol : enrol[f].student = v /\ enrol[f].via # None
        BY <3>1 DEF Admitted, Enr!NoHalfAccounts
    <3>3. f # e
        BY <3>2, <1>2 DEF Enr!NoEnrol
    <3> QED
        BY <2>2, <3>1, <3>2, <3>3, <1>5, <1>8 DEF Admitted, Enr!NoHalfAccounts
  <2> QED
      BY <2>1, <2>2
<1> QED
    BY <1>6, <1>7, <1>8, <1>9, <1>10, <1>11 DEF Admitted

LEMMA JoinKept ==
    ASSUME Enr!NoneIsNothing, Admitted, NEW h \in Handler, Enr!Join(h)
    PROVE  Admitted'
<1>1. enrolCall[h].op = "commit" /\ Enr!Leave(h) /\ UNCHANGED <<account, studentMember, yearClass, current>>
    BY DEF Enr!Join
<1>2. enrolCall[h].user \in User /\ account[enrolCall[h].user] = "ACTIVE"
    BY <1>1 DEF Admitted, Serving
<1>3. CASE Enr!Rejected(h)
  <2>1. UNCHANGED <<profile, invite, enrol>>
      BY <1>3 DEF Enr!Join
  <2>2. enrolCall' \in [Handler -> CallKind] /\ Serving'
      BY <1>1, LeaveKept
  <2>3. EnrolmentRows' /\ Offered'
      BY <1>1, <2>1, <2>2 DEF Admitted, EnrolmentRows, Offered, Enr!Selection
  <2> QED
      BY <1>1, <2>1, <2>2, <2>3, EnrolmentRowsStay DEF Admitted
<1>4. CASE ~Enr!Rejected(h)
  <2>1. \E e \in Enrol : Enr!EnrolVia(h, e)
      BY <1>4 DEF Enr!Join
  <2>2. Enr!CountUse(enrolCall[h].invite) /\ Enr!Enlist(enrolCall[h].user)
      BY <1>4 DEF Enr!Join
  <2>3. \A g \in Enr!EnrolmentsIn(enrolCall[h].user, invite[enrolCall[h].invite].class) :
          enrolCall[h].year # None => enrol[g].year # enrolCall[h].year
      BY <1>4 DEF Enr!Rejected
  <2>4. enrolCall[h].user \in studentMember'
      BY <1>1 DEF Admitted, Serving
  <2> QED
      BY <1>1, <1>2, <2>1, <2>2, <2>3, <2>4, ViaKept DEF Admitted, EnrolmentRows
<1> QED
    BY <1>3, <1>4

LEMMA RegisterKept ==
    ASSUME Enr!NoneIsNothing, Admitted, NEW h \in Handler, Enr!Register(h)
    PROVE  Admitted'
<1>1. enrolCall[h].op = "register" /\ Enr!Leave(h) /\ UNCHANGED <<yearClass, current>>
    BY DEF Enr!Register
<1>2. enrolCall[h].user \in User
    BY <1>1 DEF Admitted, Serving
<1>3. CASE account[enrolCall[h].user] # "NEW"
  <2>1. UNCHANGED <<account, studentMember, profile, invite, enrol>>
      BY <1>3 DEF Enr!Register
  <2>2. enrolCall' \in [Handler -> CallKind] /\ Serving'
      BY <1>1, <2>1, LeaveKept
  <2>3. EnrolmentRows' /\ Offered'
      BY <1>1, <2>1, <2>2 DEF Admitted, EnrolmentRows, Offered, Enr!Selection
  <2> QED
      BY <1>1, <2>1, <2>2, <2>3, EnrolmentRowsStay DEF Admitted
<1>4. CASE account[enrolCall[h].user] = "NEW"
  <2>1. /\ account' = [account EXCEPT ![enrolCall[h].user] = "ACTIVE"]
        /\ studentMember' = studentMember \cup {enrolCall[h].user}
      BY <1>4 DEF Enr!Register
  <2>2. \E e \in Enrol : Enr!EnrolVia(h, e)
      BY <1>4 DEF Enr!Register
  <2>3. Enr!CountUse(enrolCall[h].invite) /\ Enr!Enlist(enrolCall[h].user)
      BY <1>4 DEF Enr!Register
  <2>4. Enr!EnrolmentsIn(enrolCall[h].user, invite[enrolCall[h].invite].class) = {}
      BY <1>2, <1>4 DEF Admitted, NewAreBare, Enr!EnrolmentsIn
  <2>5. /\ account' \in [User -> Enr!UserStatus] /\ account'[enrolCall[h].user] = "ACTIVE"
        /\ \A v \in User : v # enrolCall[h].user => account'[v] = account[v]
      BY <1>2, <2>1 DEF Admitted, EnrolmentRows, Enr!UserStatus
  <2>6. studentMember' \subseteq User /\ studentMember \subseteq studentMember' /\ enrolCall[h].user \in studentMember'
      BY <1>2, <2>1 DEF Admitted, EnrolmentRows
  <2> QED
      BY <1>1, <1>4, <2>2, <2>3, <2>4, <2>5, <2>6, ViaKept
<1> QED
    BY <1>3, <1>4

LEMMA StepAdmitted ==
    ASSUME Enr!NoneIsNothing, Enr!Bounds, Admitted, [Enr!Next]_(Enr!vars) PROVE Admitted'
<1>1. CASE \E c \in Class, st \in Enr!Status, y \in Year \cup {None} : Enr!EditClass(c, st, y)
    BY <1>1, ClassKept
<1>2. CASE \E i \in Invite : \/ \E c \in Class, max \in 1..MaxUses \cup {None} : Enr!Invitation(i, c, max)
                           \/ Enr!Revoke(i) \/ Enr!Expire(i)
    BY <1>2, InvitingKept
<1>3. CASE \E u \in User : Enr!CreateStudent(u) \/ \E st \in Enr!Status : Enr!SetStudentStatus(u, st)
    BY <1>3, ProfileKept
<1>4. CASE \E u \in User : Enr!RegisterAlone(u)
    BY <1>4, RegisterAloneKept
<1>5. CASE \E u \in User, c \in Class : Enr!EnrolByHand(u, c)
    BY <1>5, ByHandKept
<1>6. CASE \E u \in User, e \in Enrol : Enr!Select(u, e)
    BY <1>6, SelectKept
<1>7. CASE \E h \in Handler, u \in User, i \in Invite : Enr!AskJoin(h, u, i) \/ Enr!AskRegister(h, u, i)
    BY <1>7, AskKept
<1>8. CASE \E h \in Handler : Enr!Look(h) \/ Enr!Fail(h)
    BY <1>8, LookKept, FailKept
<1>9. CASE \E h \in Handler : Enr!Join(h)
    BY <1>9, JoinKept
<1>10. CASE \E h \in Handler : Enr!Register(h)
    BY <1>10, RegisterKept
<1>11. CASE UNCHANGED Enr!vars
  <2>1. EnrolmentRows' /\ Offered' /\ Serving'
      BY <1>11 DEF Enr!vars, Admitted, EnrolmentRows, Offered, Serving, Enr!Selection
  <2> QED
      BY <1>11, <2>1, EnrolmentRowsStay DEF Enr!vars, Admitted
<1> QED
    BY <1>1, <1>2, <1>3, <1>4, <1>5, <1>6, <1>7, <1>8, <1>9, <1>10, <1>11 DEF Enr!Next

-----------------------------------------------------------------------------
\* The invariant: requests have found what they go on with, and who is new has nothing yet.
THEOREM AdmittedInvariant ==
    ASSUME Enr!SeededAreUsers, Enr!NoneIsNothing, Enr!Bounds
    PROVE  Enr!Spec => []Admitted
<1>1. Enr!Init => Admitted
    BY InitAdmitted
<1>2. Admitted /\ [Enr!Next]_(Enr!vars) => Admitted'
    BY StepAdmitted
<1> QED
    BY <1>1, <1>2, PTL DEF Enr!Spec

\* Registering by invitation leaves no half account, however many registrations and joins
\* overlap and wherever one fails (server.ts, POST /api/auth/register).
THEOREM AccountsWhole ==
    ASSUME Enr!SeededAreUsers, Enr!NoneIsNothing, Enr!Bounds
    PROVE  Enr!Spec => []Enr!NoHalfAccounts
<1>1. Admitted => Enr!NoHalfAccounts
    BY DEF Admitted
<1> QED
    BY <1>1, AdmittedInvariant, PTL

\* A student is in a class once for each named year: joining is kept apart by the unique
\* index, registering by the address being new.
THEOREM YearsSingle ==
    ASSUME Enr!SeededAreUsers, Enr!NoneIsNothing, Enr!Bounds
    PROVE  Enr!Spec => []Enr!OncePerNamedYear
<1>1. Admitted => Enr!OncePerNamedYear
    BY DEF Admitted
<1> QED
    BY <1>1, AdmittedInvariant, PTL

\* What is selected, and what is shown as current, is an enrolment of that student.
THEOREM SelectionsOwn ==
    ASSUME Enr!SeededAreUsers, Enr!NoneIsNothing, Enr!Bounds
    PROVE  Enr!Spec => [](Enr!SelectionBelongs /\ Enr!CurrentIsListed)
<1>1. Admitted => Enr!SelectionBelongs /\ Enr!CurrentIsListed
  <2> SUFFICES ASSUME Admitted PROVE Enr!CurrentIsListed
      BY DEF Admitted
  <2> SUFFICES ASSUME NEW u \in User, Enr!CurrentEnrolment(u) # None
               PROVE  Enr!CurrentEnrolment(u) \in Enr!ListEnrolments(u)
      BY DEF Enr!CurrentIsListed
  <2>1. /\ profile[u] = "ACTIVE" /\ Enr!CurrentEnrolment(u) = current[u] /\ current[u] # None
        /\ enrol[current[u]].student = u /\ yearClass[enrol[current[u]].class].status = "ACTIVE"
      BY DEF Enr!CurrentEnrolment
  <2>2. current[u] \in Enrol
      BY <2>1 DEF Admitted, EnrolmentRows, Enr!Selection
  <2> QED
      BY <2>1, <2>2 DEF Enr!ListEnrolments
<1> QED
    BY <1>1, AdmittedInvariant, PTL

-----------------------------------------------------------------------------
(* Invitations: uses and limits.  One that no two requests have used at a  *)
(* time has at most one request past its test, and room for its use.       *)

InviteFull == [class : Class, status : {"ACTIVE", "REVOKED"}, expired : BOOLEAN,
               max : (1..MaxUses) \cup {None}, count : Nat]

Recorded ==
    /\ \A i \in Invite : invite[i] = Enr!NoInvite \/ invite[i] \in InviteFull
    /\ \A e \in Enrol : enrol[e] = Enr!NoEnrol \/ enrol[e] \in Enr!EnrolRow
    /\ \A e \in Enrol, i \in Invite : enrol[e].via = i => invite[i] # Enr!NoInvite
    /\ \A h \in Handler : enrolCall[h] = Enr!Idle \/ (enrolCall[h].op # "idle" /\ invite[enrolCall[h].invite] # Enr!NoInvite)

UsesLimited ==
    \A i \in Invite \ raced :
        /\ \A g, h \in Enr!Using(i) : g = h
        /\ invite[i].max # None => invite[i].count <= invite[i].max
        /\ invite[i].max # None /\ Enr!Using(i) # {} => invite[i].count < invite[i].max

Metered ==
    /\ Admitted /\ Recorded /\ Enr!UsesCounted /\ UsesLimited
    /\ raced \subseteq Invite /\ enrolSteps \in 0..MaxCalls

\* The steps, by what they do to invitations, enrolments and requests.
EnrolmentQuiet == UNCHANGED <<invite, enrol, enrolCall, raced>>

Manages(i) ==
    /\ \/ \E c \in Class, max \in 1..MaxUses \cup {None} : Enr!Invitation(i, c, max)
       \/ Enr!Revoke(i) \/ Enr!Expire(i)
    /\ UNCHANGED <<enrol, enrolCall, raced>>

Places == (\E u \in User, c \in Class : Enr!EnrolByHand(u, c)) /\ UNCHANGED <<invite, enrolCall, raced>>

EnrolmentAsks(h, u, i) == \E op \in {"join", "register"} : Enr!Usable(i) /\ Enr!Ask(h, op, u, i)

Proceeds(h) ==
    /\ enrolCall[h].op # "idle" /\ enrolCall'[h].op # "idle" /\ enrolCall'[h].invite = enrolCall[h].invite
    /\ \A g \in Handler \ {h} : enrolCall'[g] = enrolCall[g]
    /\ UNCHANGED <<invite, enrol, raced>>

Gives(h) == enrolCall[h].op # "idle" /\ Enr!Leave(h) /\ UNCHANGED <<invite, enrol, raced>>

Enters(h, e) ==
    /\ enrolCall[h].op # "idle" /\ Enr!Leave(h) /\ Enr!EnrolVia(h, e) /\ Enr!CountUse(enrolCall[h].invite)
    /\ UNCHANGED raced

LEMMA StepKinds ==
    ASSUME Metered, [Enr!Next]_(Enr!vars)
    PROVE  \/ EnrolmentQuiet \/ Places
           \/ \E i \in Invite : Manages(i)
           \/ \E h \in Handler : \/ \E u \in User, i \in Invite : EnrolmentAsks(h, u, i)
                                 \/ Proceeds(h) \/ Gives(h)
                                 \/ \E e \in Enrol : Enters(h, e)
<1>1. CASE \E c \in Class, st \in Enr!Status, y \in Year \cup {None} : Enr!EditClass(c, st, y)
    BY <1>1 DEF Enr!EditClass, EnrolmentQuiet
<1>2. CASE \E i \in Invite : \/ \E c \in Class, max \in 1..MaxUses \cup {None} : Enr!Invitation(i, c, max)
                           \/ Enr!Revoke(i) \/ Enr!Expire(i)
  <2>1. UNCHANGED <<enrol, enrolCall, raced>>
      BY <1>2 DEF Enr!Invitation, Enr!Revoke, Enr!Expire
  <2> QED
      BY <1>2, <2>1 DEF Manages
<1>3. CASE \E u \in User : Enr!CreateStudent(u) \/ \E st \in Enr!Status : Enr!SetStudentStatus(u, st)
    BY <1>3 DEF Enr!CreateStudent, Enr!SetStudentStatus, EnrolmentQuiet
<1>4. CASE \E u \in User : Enr!RegisterAlone(u)
    BY <1>4 DEF Enr!RegisterAlone, EnrolmentQuiet
<1>5. CASE \E u \in User, c \in Class : Enr!EnrolByHand(u, c)
    BY <1>5 DEF Enr!EnrolByHand, Places
<1>6. CASE \E u \in User, e \in Enrol : Enr!Select(u, e)
    BY <1>6 DEF Enr!Select, EnrolmentQuiet
<1>7. CASE \E h \in Handler, u \in User, i \in Invite : Enr!AskJoin(h, u, i) \/ Enr!AskRegister(h, u, i)
    BY <1>7 DEF Enr!AskJoin, Enr!AskRegister, EnrolmentAsks
<1>8. ASSUME NEW h \in Handler, Enr!Look(h) PROVE Proceeds(h) \/ Gives(h)
  <2>1. enrolCall[h].op = "join" /\ UNCHANGED <<invite, enrol, raced>>
      BY <1>8 DEF Enr!Look
  <2>2. CASE Enr!Leave(h)
      BY <2>1, <2>2 DEF Gives
  <2>3. CASE ~Enr!Leave(h)
    <3>1. enrolCall' = [enrolCall EXCEPT ![h].op = "commit", ![h].profile = profile[enrolCall[h].user] # None]
        BY <1>8, <2>3 DEF Enr!Look
    <3>2. /\ enrolCall'[h].op = "commit" /\ enrolCall'[h].invite = enrolCall[h].invite
          /\ \A g \in Handler \ {h} : enrolCall'[g] = enrolCall[g]
        BY <3>1 DEF Metered, Admitted, EnrolmentRows, CallKind
    <3> QED
        BY <2>1, <3>2 DEF Proceeds
  <2> QED
      BY <2>2, <2>3
<1>9. ASSUME NEW h \in Handler, Enr!Fail(h) PROVE Gives(h) \/ EnrolmentQuiet
  <2>1. CASE enrolCall[h].op # "idle"
      BY <1>9, <2>1 DEF Enr!Fail, Gives
  <2>2. CASE enrolCall[h].op = "idle"
      BY <1>9, <2>2 DEF Enr!Fail, Metered, Recorded
  <2> QED
      BY <2>1, <2>2
<1>10. ASSUME NEW h \in Handler, Enr!Join(h) PROVE Gives(h) \/ \E e \in Enrol : Enters(h, e)
  <2>1. enrolCall[h].op # "idle" /\ Enr!Leave(h) /\ UNCHANGED raced
      BY <1>10 DEF Enr!Join
  <2>2. CASE Enr!Rejected(h)
      BY <1>10, <2>1, <2>2 DEF Enr!Join, Gives
  <2>3. CASE ~Enr!Rejected(h)
      BY <1>10, <2>1, <2>3 DEF Enr!Join, Enters
  <2> QED
      BY <2>2, <2>3
<1>11. ASSUME NEW h \in Handler, Enr!Register(h) PROVE Gives(h) \/ \E e \in Enrol : Enters(h, e)
  <2>1. enrolCall[h].op # "idle" /\ Enr!Leave(h) /\ UNCHANGED raced
      BY <1>11 DEF Enr!Register
  <2>2. CASE account[enrolCall[h].user] # "NEW"
      BY <1>11, <2>1, <2>2 DEF Enr!Register, Gives
  <2>3. CASE account[enrolCall[h].user] = "NEW"
      BY <1>11, <2>1, <2>3 DEF Enr!Register, Enters
  <2> QED
      BY <2>2, <2>3
<1>12. CASE UNCHANGED Enr!vars
    BY <1>12 DEF Enr!vars, EnrolmentQuiet
<1> QED
    BY <1>1, <1>2, <1>3, <1>4, <1>5, <1>6, <1>7, <1>8, <1>9, <1>10, <1>11, <1>12 DEF Enr!Next

\* What every kind of step has to keep.
CountsKept == Recorded' /\ Enr!UsesCounted' /\ UsesLimited' /\ raced' \subseteq Invite /\ Enr!WithdrawnAdmitsNobody

LEMMA EnrolSizes ==
    ASSUME Enr!Finite
    PROVE  /\ \A S \in SUBSET Enrol : IsFiniteSet(S) /\ Cardinality(S) \in 0..Cardinality(Enrol)
      /\ \A S \in SUBSET Handler : IsFiniteSet(S) /\ Cardinality(S) \in Nat
<1>1. Cardinality(Enrol) \in Nat /\ Cardinality(Handler) \in Nat
    BY FS_CardinalityType, EnrolFinite DEF Enr!Finite
<1>2. ASSUME NEW S \in SUBSET Enrol
      PROVE  IsFiniteSet(S) /\ Cardinality(S) \in Nat /\ Cardinality(S) <= Cardinality(Enrol)
    BY FS_Subset, FS_CardinalityType, EnrolFinite DEF Enr!Finite
<1>3. ASSUME NEW S \in SUBSET Handler PROVE IsFiniteSet(S) /\ Cardinality(S) \in Nat
    BY FS_Subset, FS_CardinalityType, EnrolFinite DEF Enr!Finite
<1> QED
    BY <1>1, <1>2, <1>3

\* Enrolments and requests that stay where they are admit nobody.
LEMMA NobodyAdmitted ==
    ASSUME Enr!Finite,
           \A i \in Invite : invite[i] # Enr!NoInvite /\ ~Enr!Usable(i) =>
             Enr!Via(i)' = Enr!Via(i) /\ Enr!Using(i)' \subseteq Enr!Using(i)
    PROVE  Enr!WithdrawnAdmitsNobody
<1> SUFFICES ASSUME NEW i \in Invite, invite[i] # Enr!NoInvite, ~Enr!Usable(i)
             PROVE  Cardinality(Enr!Via(i))' + Cardinality(Enr!Using(i))' <= Cardinality(Enr!Via(i)) + Cardinality(Enr!Using(i))
    BY EnrolCardinal DEF Enr!WithdrawnAdmitsNobody
<1>1. Enr!Via(i) \in SUBSET Enrol /\ Enr!Using(i) \in SUBSET Handler
    BY DEF Enr!Via, Enr!Using
<1>2. Enr!Via(i)' = Enr!Via(i) /\ Enr!Using(i)' \subseteq Enr!Using(i)
    OBVIOUS
<1>3. Enr!Using(i)' \in SUBSET Handler
    BY <1>1, <1>2
<1>4. Cardinality(Enr!Using(i)') <= Cardinality(Enr!Using(i))
    BY <1>1, <1>2, EnrolSizes, FS_Subset
<1>5. /\ Cardinality(Enr!Via(i)) \in Nat /\ Cardinality(Enr!Using(i)) \in Nat
      /\ Cardinality(Enr!Using(i)') \in Nat
    BY <1>1, <1>3, EnrolSizes
<1> QED
    BY <1>2, <1>4, <1>5

LEMMA QuietMetered == ASSUME Enr!Finite, Metered, EnrolmentQuiet PROVE CountsKept
<1>1. \A i : Enr!Via(i)' = Enr!Via(i) /\ Enr!Using(i)' = Enr!Using(i)
    BY DEF EnrolmentQuiet, Enr!Via, Enr!Using
<1>2. Recorded' /\ raced' \subseteq Invite
    BY DEF EnrolmentQuiet, Metered, Recorded
<1>3. Enr!UsesCounted'
    BY <1>1, EnrolCardinal DEF EnrolmentQuiet, Metered, Enr!UsesCounted
<1>4. UsesLimited'
    BY <1>1 DEF EnrolmentQuiet, Metered, UsesLimited
<1> QED
    BY <1>1, <1>2, <1>3, <1>4, NobodyAdmitted DEF CountsKept

\* Giving, revoking and expiring an invitation: one that is new has no uses.
LEMMA ManagesMetered ==
    ASSUME Enr!Finite, Enr!NoneIsNothing, Enr!Bounds, Metered, NEW i \in Invite, Manages(i) PROVE CountsKept
<1>1. \A j : Enr!Via(j)' = Enr!Via(j) /\ Enr!Using(j)' = Enr!Using(j)
    BY DEF Manages, Enr!Via, Enr!Using
<1>2. /\ \A j \in Invite \ {i} : invite'[j] = invite[j]
      /\ invite'[i] \in InviteFull /\ invite'[i] # Enr!NoInvite
      /\ invite[i] = Enr!NoInvite => invite'[i].count = 0
      /\ invite[i] # Enr!NoInvite => invite'[i].count = invite[i].count /\ invite'[i].max = invite[i].max
  <2>1. invite \in [Invite -> InviteKind]
      BY DEF Metered, Admitted, EnrolmentRows
  <2>2. CASE \E c \in Class, max \in 1..MaxUses \cup {None} : Enr!Invitation(i, c, max)
    <3>1. PICK c \in Class, max \in (1..MaxUses) \cup {None} : Enr!Invitation(i, c, max)
        BY <2>2
    <3> DEFINE x == [class |-> c, status |-> "ACTIVE", expired |-> FALSE, max |-> max, count |-> 0]
    <3>2. invite[i] = Enr!NoInvite /\ invite' = [invite EXCEPT ![i] = x]
        BY <3>1 DEF Enr!Invitation
    <3>3. x \in InviteFull /\ x # Enr!NoInvite /\ x.count = 0
        BY DEF InviteFull, Enr!NoInvite
    <3> QED
        BY <2>1, <3>2, <3>3
  <2>3. CASE Enr!Revoke(i)
    <3>1. invite[i].status = "ACTIVE" /\ invite' = [invite EXCEPT ![i].status = "REVOKED"]
        BY <2>3 DEF Enr!Revoke
    <3>2. invite[i] \in InviteFull
        BY <3>1 DEF Metered, Recorded, Enr!NoInvite
    <3> QED
        BY <2>1, <3>1, <3>2 DEF InviteFull, Enr!NoInvite
  <2>4. CASE Enr!Expire(i)
    <3>1. invite[i] # Enr!NoInvite /\ invite' = [invite EXCEPT ![i].expired = TRUE]
        BY <2>4 DEF Enr!Expire
    <3>2. invite[i] \in InviteFull
        BY <3>1 DEF Metered, Recorded
    <3> QED
        BY <2>1, <3>1, <3>2 DEF InviteFull, Enr!NoInvite
  <2> QED
      BY <2>2, <2>3, <2>4 DEF Manages
<1>3. invite[i] = Enr!NoInvite => Enr!Via(i) = {} /\ Enr!Using(i) = {}
  <2> SUFFICES ASSUME invite[i] = Enr!NoInvite PROVE Enr!Via(i) = {} /\ Enr!Using(i) = {}
      OBVIOUS
  <2>1. Enr!Via(i) = {}
      BY DEF Metered, Recorded, Enr!Via
  <2>2. Enr!Using(i) = {}
      BY DEF Metered, Recorded, Enr!Using, Enr!Idle, Enr!NoneIsNothing
  <2> QED
      BY <2>1, <2>2
<1>4. Recorded'
  <2>1. \A j \in Invite : invite'[j] = Enr!NoInvite \/ invite'[j] \in InviteFull
      BY <1>2 DEF Metered, Recorded
  <2>2. /\ \A e \in Enrol : enrol'[e] = Enr!NoEnrol \/ enrol'[e] \in Enr!EnrolRow
        /\ \A e \in Enrol, j \in Invite : enrol'[e].via = j => invite'[j] # Enr!NoInvite
      BY <1>2 DEF Manages, Metered, Recorded
  <2>3. ASSUME NEW h \in Handler, enrolCall'[h] # Enr!Idle
        PROVE  enrolCall'[h].op # "idle" /\ invite'[enrolCall'[h].invite] # Enr!NoInvite
    <3>1. enrolCall[h] # Enr!Idle /\ enrolCall[h].op # "idle" /\ invite[enrolCall[h].invite] # Enr!NoInvite /\ enrolCall' = enrolCall
        BY <2>3 DEF Manages, Metered, Recorded
    <3>2. enrolCall[h].invite \in Invite
        BY <3>1 DEF Metered, Admitted, Serving
    <3> QED
        BY <3>1, <3>2, <1>2
  <2> QED
      BY <2>1, <2>2, <2>3 DEF Recorded
<1>5. Enr!UsesCounted'
  <2> SUFFICES ASSUME NEW j \in Invite, invite'[j] # Enr!NoInvite PROVE invite'[j].count = Cardinality(Enr!Via(j)')
      BY EnrolCardinal DEF Enr!UsesCounted
  <2>1. CASE invite[j] = Enr!NoInvite
    <3>1. j = i
        BY <2>1, <1>2
    <3> QED
        BY <3>1, <2>1, <1>1, <1>2, <1>3, FS_EmptySet
  <2>2. CASE invite[j] # Enr!NoInvite
    <3>1. invite'[j].count = invite[j].count
        BY <2>2, <1>2
    <3> QED
        BY <2>2, <3>1, <1>1, EnrolCardinal DEF Metered, Enr!UsesCounted
  <2> QED
      BY <2>1, <2>2
<1>6. UsesLimited'
  <2> SUFFICES ASSUME NEW j \in Invite \ raced
               PROVE  /\ \A g, h \in Enr!Using(j) : g = h
                      /\ invite'[j].max # None => invite'[j].count <= invite'[j].max
                      /\ invite'[j].max # None /\ Enr!Using(j) # {} => invite'[j].count < invite'[j].max
      BY <1>1 DEF UsesLimited, Manages
  <2>1. CASE j # i \/ invite[i] # Enr!NoInvite
    <3>1. invite'[j].max = invite[j].max /\ invite'[j].count = invite[j].count
        BY <2>1, <1>2
    <3> QED
        BY <3>1 DEF Metered, UsesLimited
  <2>2. CASE j = i /\ invite[i] = Enr!NoInvite
      BY <2>2, <1>2, <1>3 DEF InviteFull, Enr!Bounds
  <2> QED
      BY <2>1, <2>2
<1>7. raced' \subseteq Invite
    BY DEF Manages, Metered
<1> QED
    BY <1>1, <1>4, <1>5, <1>6, <1>7, NobodyAdmitted DEF CountsKept

LEMMA PlacesMetered == ASSUME Enr!Finite, Enr!NoneIsNothing, Metered, Places PROVE CountsKept
<1>1. PICK u \in User, c \in Class : Enr!EnrolByHand(u, c)
    BY DEF Places
<1> DEFINE row == [student |-> u, class |-> c, year |-> None, via |-> None]
<1>2. PICK e \in Enrol : enrol[e] = Enr!NoEnrol /\ enrol' = [enrol EXCEPT ![e] = row]
    BY <1>1 DEF Enr!EnrolByHand
<1>3. row \in Enr!EnrolRow /\ row.via = None
    BY DEF Enr!EnrolRow
<1> HIDE DEF row
<1>4. enrol'[e] = row /\ \A f \in Enrol \ {e} : enrol'[f] = enrol[f]
    BY <1>2 DEF Metered, Admitted, EnrolmentRows
<1>5. \A i \in Invite : Enr!Via(i)' = Enr!Via(i) /\ Enr!Using(i)' = Enr!Using(i)
  <2> TAKE i \in Invite
  <2>1. Enr!Via(i)' = Enr!Via(i)
      BY <1>2, <1>3, <1>4 DEF Enr!Via, Enr!NoEnrol, Enr!NoneIsNothing
  <2> QED
      BY <2>1 DEF Places, Enr!Using
<1>6. Recorded'
    BY <1>3, <1>4 DEF Places, Metered, Recorded, Enr!NoneIsNothing
<1>7. Enr!UsesCounted'
    BY <1>5, EnrolCardinal DEF Places, Metered, Enr!UsesCounted
<1>8. UsesLimited' /\ raced' \subseteq Invite
    BY <1>5 DEF Places, Metered, UsesLimited
<1> QED
    BY <1>5, <1>6, <1>7, <1>8, NobodyAdmitted DEF CountsKept

\* A request starts only on an invitation that admits; one that another is using has been raced
\* from then on.
LEMMA AsksMetered ==
    ASSUME Enr!Finite, Enr!NoneIsNothing, Metered,
           NEW h \in Handler, NEW u \in User, NEW i \in Invite, EnrolmentAsks(h, u, i)
    PROVE  CountsKept
<1>1. PICK op \in {"join", "register"} : Enr!Usable(i) /\ Enr!Ask(h, op, u, i)
    BY DEF EnrolmentAsks
<1> DEFINE c == [op |-> op, user |-> u, invite |-> i,
                 year |-> yearClass[invite[i].class].year, profile |-> FALSE]
<1>2. /\ enrolCall[h] = Enr!Idle /\ enrolCall' = [enrolCall EXCEPT ![h] = c] /\ UNCHANGED <<invite, enrol>>
      /\ raced' = IF Enr!Using(i) # {} THEN raced \cup {i} ELSE raced
    BY <1>1 DEF Enr!Ask
<1>3. c.op # "idle" /\ c.invite = i
    OBVIOUS
<1> HIDE DEF c
<1>4. enrolCall'[h] = c /\ \A g \in Handler \ {h} : enrolCall'[g] = enrolCall[g]
    BY <1>2 DEF Metered, Admitted, EnrolmentRows
<1>5. enrolCall[h].invite \notin Invite
    BY <1>2 DEF Enr!Idle, Enr!NoneIsNothing
<1>6. invite[i] # Enr!NoInvite
    BY <1>1 DEF Enr!Usable, Enr!NoInvite
<1>7. /\ \A j : Enr!Via(j)' = Enr!Via(j)
      /\ \A j \in Invite \ {i} : Enr!Using(j)' = Enr!Using(j)
      /\ Enr!Using(i)' = Enr!Using(i) \cup {h}
    BY <1>2, <1>3, <1>4, <1>5 DEF Enr!Via, Enr!Using
<1>8. Recorded'
    BY <1>2, <1>3, <1>4, <1>6 DEF Metered, Recorded
<1>9. Enr!UsesCounted'
    BY <1>2, <1>7, EnrolCardinal DEF Metered, Enr!UsesCounted
<1>10. UsesLimited'
  <2> SUFFICES ASSUME NEW j \in Invite \ raced'
               PROVE  /\ \A g, f \in Enr!Using(j)' : g = f
                      /\ invite[j].max # None => invite[j].count <= invite[j].max
                      /\ invite[j].max # None /\ Enr!Using(j)' # {} => invite[j].count < invite[j].max
      BY <1>2 DEF UsesLimited
  <2>1. j \notin raced
      BY <1>2
  <2>2. CASE j = i
    <3>1. Enr!Using(i) = {}
        BY <2>2, <1>2
    <3> QED
        BY <2>1, <2>2, <3>1, <1>1, <1>7 DEF Enr!Usable, Metered, UsesLimited
  <2>3. CASE j # i
      BY <2>1, <2>3, <1>7 DEF Metered, UsesLimited
  <2> QED
      BY <2>2, <2>3
<1>11. raced' \subseteq Invite
    BY <1>2 DEF Metered
<1>12. \A j \in Invite : ~Enr!Usable(j) => Enr!Via(j)' = Enr!Via(j) /\ Enr!Using(j)' \subseteq Enr!Using(j)
    BY <1>1, <1>7
<1> QED
    BY <1>8, <1>9, <1>10, <1>11, <1>12, NobodyAdmitted DEF CountsKept

LEMMA ProceedsMetered ==
    ASSUME Enr!Finite, Enr!NoneIsNothing, Metered, NEW h \in Handler, Proceeds(h) PROVE CountsKept
<1>1. /\ \A j : Enr!Via(j)' = Enr!Via(j) /\ Enr!Using(j)' = Enr!Using(j)
      /\ UNCHANGED <<invite, enrol, raced>>
    BY DEF Proceeds, Enr!Via, Enr!Using
<1>2. Recorded'
  <2>1. ASSUME NEW g \in Handler, enrolCall'[g] # Enr!Idle
        PROVE  enrolCall'[g].op # "idle" /\ invite[enrolCall'[g].invite] # Enr!NoInvite
      BY <2>1 DEF Proceeds, Metered, Recorded, Enr!Idle
  <2> QED
      BY <1>1, <2>1 DEF Metered, Recorded
<1>3. Enr!UsesCounted' /\ UsesLimited' /\ raced' \subseteq Invite
    BY <1>1, EnrolCardinal DEF Metered, Enr!UsesCounted, UsesLimited
<1> QED
    BY <1>1, <1>2, <1>3, NobodyAdmitted DEF CountsKept

\* A request that ends uses its invitation no more.
LEMMA UsesNoMore ==
    ASSUME Enr!NoneIsNothing, Metered, NEW h \in Handler, Enr!Leave(h)
    PROVE  /\ \A j \in Invite : Enr!Using(j)' = Enr!Using(j) \ {h}
           /\ enrolCall'[h] = Enr!Idle /\ \A g \in Handler \ {h} : enrolCall'[g] = enrolCall[g]
<1>1. enrolCall'[h] = Enr!Idle /\ \A g \in Handler \ {h} : enrolCall'[g] = enrolCall[g]
    BY DEF Enr!Leave, Metered, Admitted, EnrolmentRows
<1>2. Enr!Idle.invite \notin Invite
    BY DEF Enr!Idle, Enr!NoneIsNothing
<1> QED
    BY <1>1, <1>2 DEF Enr!Using

LEMMA GivesMetered ==
    ASSUME Enr!Finite, Enr!NoneIsNothing, Metered, NEW h \in Handler, Gives(h) PROVE CountsKept
<1>1. /\ \A j : Enr!Via(j)' = Enr!Via(j)
      /\ \A j \in Invite : Enr!Using(j)' = Enr!Using(j) \ {h}
      /\ enrolCall'[h] = Enr!Idle /\ \A g \in Handler \ {h} : enrolCall'[g] = enrolCall[g]
      /\ UNCHANGED <<invite, enrol, raced>>
    BY UsesNoMore DEF Gives, Enr!Via
<1>2. Recorded'
    BY <1>1 DEF Metered, Recorded
<1>3. Enr!UsesCounted' /\ raced' \subseteq Invite
    BY <1>1, EnrolCardinal DEF Metered, Enr!UsesCounted
<1>4. UsesLimited'
    BY <1>1 DEF Metered, UsesLimited
<1> QED
    BY <1>1, <1>2, <1>3, <1>4, NobodyAdmitted DEF CountsKept

\* An enrolment, its use and the end of its request come together.
LEMMA EntersMetered ==
    ASSUME Enr!Finite, Enr!NoneIsNothing, Enr!Bounds, Metered, NEW h \in Handler, NEW e \in Enrol, Enters(h, e)
    PROVE  CountsKept
<1>0. PICK i : i = enrolCall[h].invite
    OBVIOUS
<1> DEFINE row == [student |-> enrolCall[h].user, year |-> enrolCall[h].year, class |-> invite[i].class, via |-> i]
<1>1. /\ i \in Invite /\ enrolCall[h].user \in User /\ enrolCall[h].year \in Year \cup {None}
      /\ invite[i] \in InviteFull
  <2>1. enrolCall[h] # Enr!Idle /\ enrolCall[h].op # "idle"
      BY DEF Enters, Enr!Idle
  <2> QED
      BY <1>0, <2>1 DEF Metered, Admitted, EnrolmentRows, CallKind, Serving, Recorded
<1>2. enrol[e] = Enr!NoEnrol /\ enrol' = [enrol EXCEPT ![e] = row]
    BY <1>0 DEF Enters, Enr!EnrolVia
<1>3. invite' = [invite EXCEPT ![i].count = @ + 1] /\ raced' = raced
    BY <1>0 DEF Enters, Enr!CountUse
<1>4. row \in Enr!EnrolRow /\ row.via = i
    BY <1>1 DEF Enr!EnrolRow, InviteFull
<1>5. /\ \A j \in Invite : Enr!Using(j)' = Enr!Using(j) \ {h}
      /\ enrolCall'[h] = Enr!Idle /\ \A g \in Handler \ {h} : enrolCall'[g] = enrolCall[g]
    BY UsesNoMore DEF Enters
<1>6. h \in Enr!Using(i)
    BY <1>0 DEF Enr!Using
<1> HIDE DEF row
<1>7. /\ \A j \in Invite \ {i} : invite'[j] = invite[j]
      /\ invite'[i] \in InviteFull /\ invite'[i] # Enr!NoInvite
      /\ invite'[i].count = invite[i].count + 1 /\ invite'[i].max = invite[i].max
    BY <1>1, <1>3 DEF Metered, Admitted, EnrolmentRows, InviteFull, Enr!NoInvite
<1>8. enrol'[e] = row /\ \A f \in Enrol \ {e} : enrol'[f] = enrol[f]
    BY <1>2 DEF Metered, Admitted, EnrolmentRows
<1>9. /\ \A j \in Invite \ {i} : Enr!Via(j)' = Enr!Via(j)
      /\ Enr!Via(i)' = Enr!Via(i) \cup {e} /\ e \notin Enr!Via(i)
    BY <1>1, <1>2, <1>4, <1>8 DEF Enr!Via, Enr!NoEnrol, Enr!NoneIsNothing
<1>10. /\ Cardinality(Enr!Via(i)') = Cardinality(Enr!Via(i)) + 1
       /\ Cardinality(Enr!Via(i)) \in Nat
  <2>1. IsFiniteSet(Enr!Via(i)) /\ Cardinality(Enr!Via(i)) \in Nat
      BY EnrolSizes DEF Enr!Via
  <2> QED
      BY <2>1, <1>9, FS_AddElement
<1>11. Recorded'
  <2>1. \A j \in Invite : invite'[j] = Enr!NoInvite \/ invite'[j] \in InviteFull
      BY <1>7 DEF Metered, Recorded
  <2>2. \A j \in Invite : invite[j] # Enr!NoInvite => invite'[j] # Enr!NoInvite
      BY <1>7
  <2>3. /\ \A f \in Enrol : enrol'[f] = Enr!NoEnrol \/ enrol'[f] \in Enr!EnrolRow
        /\ \A f \in Enrol, j \in Invite : enrol'[f].via = j => invite'[j] # Enr!NoInvite
      BY <1>1, <1>4, <1>7, <1>8, <2>2 DEF Metered, Recorded
  <2>4. ASSUME NEW g \in Handler, enrolCall'[g] # Enr!Idle
        PROVE  enrolCall'[g].op # "idle" /\ invite'[enrolCall'[g].invite] # Enr!NoInvite
    <3>1. enrolCall'[g] = enrolCall[g] /\ enrolCall[g].op # "idle" /\ invite[enrolCall[g].invite] # Enr!NoInvite
        BY <2>4, <1>5 DEF Metered, Recorded
    <3>2. enrolCall[g].invite \in Invite
        BY <3>1 DEF Metered, Admitted, Serving
    <3> QED
        BY <3>1, <3>2, <2>2
  <2> QED
      BY <2>1, <2>3, <2>4 DEF Recorded
<1>12. Enr!UsesCounted'
  <2> SUFFICES ASSUME NEW j \in Invite, invite'[j] # Enr!NoInvite PROVE invite'[j].count = Cardinality(Enr!Via(j)')
      BY EnrolCardinal DEF Enr!UsesCounted
  <2>1. CASE j = i
    <3>1. invite[i] # Enr!NoInvite
        BY <1>1 DEF InviteFull, Enr!NoInvite
    <3> QED
        BY <2>1, <3>1, <1>1, <1>7, <1>10, EnrolCardinal DEF Metered, Enr!UsesCounted
  <2>2. CASE j # i
      BY <2>2, <1>7, <1>9, EnrolCardinal DEF Metered, Enr!UsesCounted
  <2> QED
      BY <2>1, <2>2
<1>13. UsesLimited'
  <2> SUFFICES ASSUME NEW j \in Invite \ raced
               PROVE  /\ \A g, f \in Enr!Using(j)' : g = f
                      /\ invite'[j].max # None => invite'[j].count <= invite'[j].max
                      /\ invite'[j].max # None /\ Enr!Using(j)' # {} => invite'[j].count < invite'[j].max
      BY <1>3 DEF UsesLimited
  <2>1. CASE j = i
    <3>1. Enr!Using(i) = {h}
        BY <2>1, <1>6 DEF Metered, UsesLimited
    <3>2. Enr!Using(i)' = {}
        BY <2>1, <3>1, <1>5
    <3>3. invite[i].max # None => invite[i].count < invite[i].max
        BY <2>1, <1>6 DEF Metered, UsesLimited
    <3> QED
        BY <2>1, <3>2, <3>3, <1>1, <1>7 DEF InviteFull, Enr!Bounds
  <2>2. CASE j # i
      BY <2>2, <1>5, <1>7 DEF Metered, UsesLimited
  <2> QED
      BY <2>1, <2>2
<1>14. Enr!WithdrawnAdmitsNobody
  <2> SUFFICES ASSUME NEW j \in Invite, invite[j] # Enr!NoInvite, ~Enr!Usable(j)
               PROVE  Cardinality(Enr!Via(j))' + Cardinality(Enr!Using(j))' <= Cardinality(Enr!Via(j)) + Cardinality(Enr!Using(j))
      BY EnrolCardinal DEF Enr!WithdrawnAdmitsNobody
  <2>1. IsFiniteSet(Enr!Using(j)) /\ Cardinality(Enr!Using(j)) \in Nat /\ Cardinality(Enr!Via(j)) \in Nat
      BY EnrolSizes DEF Enr!Via, Enr!Using
  <2>2. Enr!Using(j)' = Enr!Using(j) \ {h}
      BY <1>5
  <2>3. Cardinality(Enr!Using(j)') \in Nat /\ Cardinality(Enr!Using(j)') <= Cardinality(Enr!Using(j))
    <3>1. CASE h \in Enr!Using(j)
      <4>1. Cardinality(Enr!Using(j)') = Cardinality(Enr!Using(j)) - 1
          BY <2>1, <2>2, <3>1, FS_RemoveElement
      <4>2. Enr!Using(j)' \in SUBSET Handler
          BY <2>2 DEF Enr!Using
      <4> QED
          BY <2>1, <4>1, <4>2, EnrolSizes
    <3>2. CASE h \notin Enr!Using(j)
      <4>1. Enr!Using(j)' = Enr!Using(j)
          BY <2>2, <3>2
      <4> QED
          BY <2>1, <4>1
    <3> QED
        BY <3>1, <3>2
  <2>4. CASE j = i
    <3>1. Cardinality(Enr!Using(j)') = Cardinality(Enr!Using(j)) - 1
        BY <2>1, <2>2, <2>4, <1>6, FS_RemoveElement
    <3> QED
        BY <2>1, <2>4, <3>1, <1>10
  <2>5. CASE j # i
      BY <2>1, <2>3, <2>5, <1>9
  <2> QED
      BY <2>4, <2>5
<1>15. raced' \subseteq Invite
    BY <1>3 DEF Metered
<1> QED
    BY <1>11, <1>12, <1>13, <1>14, <1>15 DEF CountsKept

LEMMA InitMetered ==
    ASSUME Enr!SeededAreUsers, Enr!NoneIsNothing, Enr!Bounds PROVE Enr!Init => Metered
<1> SUFFICES ASSUME Enr!Init PROVE Metered
    OBVIOUS
<1>1. /\ \A i \in Invite : invite[i] = Enr!NoInvite
      /\ \A e \in Enrol : enrol[e] = Enr!NoEnrol
      /\ \A h \in Handler : enrolCall[h] = Enr!Idle
      /\ raced = {} /\ enrolSteps = 0
    BY DEF Enr!Init
<1>2. Admitted
    BY InitAdmitted
<1>3. Recorded
    BY <1>1 DEF Recorded, Enr!NoEnrol, Enr!NoneIsNothing
<1>4. Enr!UsesCounted
    BY <1>1, EnrolCardinal DEF Enr!UsesCounted
<1>5. UsesLimited
    BY <1>1 DEF UsesLimited, Enr!NoInvite, Enr!Using, Enr!Idle, Enr!NoneIsNothing
<1> QED
    BY <1>1, <1>2, <1>3, <1>4, <1>5 DEF Metered, Enr!Bounds

LEMMA StepMetered ==
    ASSUME Enr!Finite, Enr!NoneIsNothing, Enr!Bounds, Metered, [Enr!Next]_(Enr!vars)
    PROVE  Metered' /\ Enr!WithdrawnAdmitsNobody
<1>1. CountsKept
    BY StepKinds, QuietMetered, PlacesMetered, ManagesMetered, AsksMetered, ProceedsMetered,
       GivesMetered, EntersMetered
<1>2. Admitted'
    BY StepAdmitted DEF Metered
<1>3. enrolSteps' \in 0..MaxCalls
  <2>1. enrolSteps' = enrolSteps \/ Enr!Asked
      BY DEF Enr!Next, Enr!vars, Enr!EditClass, Enr!Invitation, Enr!Revoke, Enr!Expire,
          Enr!CreateStudent, Enr!RegisterAlone,
             Enr!SetStudentStatus, Enr!EnrolByHand, Enr!Select, Enr!AskJoin, Enr!AskRegister,
             Enr!Ask, Enr!Look, Enr!Join, Enr!Register, Enr!Fail
  <2> QED
      BY <2>1 DEF Enr!Asked, Metered, Enr!Bounds
<1> QED
    BY <1>1, <1>2, <1>3 DEF CountsKept, Metered

-----------------------------------------------------------------------------
\* The invariant of the invitations: the rows, the uses counted, and room left for the one
\* request past its test.
THEOREM MeteredInvariant ==
    ASSUME Enr!SeededAreUsers, Enr!NoneIsNothing, Enr!Bounds, Enr!Finite
    PROVE  Enr!Spec => []Metered
<1>1. Enr!Init => Metered
    BY InitMetered
<1>2. Metered /\ [Enr!Next]_(Enr!vars) => Metered'
    BY StepMetered
<1> QED
    BY <1>1, <1>2, PTL DEF Enr!Spec

\* Every variable keeps its type; a count stays below the number of enrolments.
THEOREM EnrolmentTyped ==
    ASSUME Enr!SeededAreUsers, Enr!NoneIsNothing, Enr!Bounds, Enr!Finite
    PROVE  Enr!Spec => []Enr!TypeOK
<1>1. Metered => Enr!TypeOK
  <2> SUFFICES ASSUME Metered PROVE Enr!TypeOK
      OBVIOUS
  <2>1. ASSUME NEW i \in Invite, invite[i] # Enr!NoInvite PROVE invite[i] \in Enr!InviteRow
    <3>1. invite[i] \in InviteFull /\ invite[i].count = Cardinality(Enr!Via(i))
        BY <2>1, EnrolCardinal DEF Metered, Recorded, Enr!UsesCounted
    <3>2. invite[i].count \in 0..Cardinality(Enrol)
        BY <3>1, EnrolSizes DEF Enr!Via
    <3> QED
        BY <3>1, <3>2, EnrolCardinal DEF InviteFull, Enr!InviteRow
  <2> QED
      BY <2>1 DEF Metered, Admitted, EnrolmentRows, Recorded, Enr!TypeOK
<1> QED
    BY <1>1, MeteredInvariant, PTL

\* An invitation's count is the number of enrolments that came by it, through every race,
\* rejected INSERT and rollback (server.ts, join and register).
THEOREM CountsTrue ==
    ASSUME Enr!SeededAreUsers, Enr!NoneIsNothing, Enr!Bounds, Enr!Finite
    PROVE  Enr!Spec => []Enr!UsesCounted
<1>1. Metered => Enr!UsesCounted
    BY DEF Metered
<1> QED
    BY <1>1, MeteredInvariant, PTL

\* The use limit is exceeded only on an invitation that two requests used at a time.
THEOREM LimitsHold ==
    ASSUME Enr!SeededAreUsers, Enr!NoneIsNothing, Enr!Bounds, Enr!Finite
    PROVE  Enr!Spec => []Enr!LimitHolds
<1>1. Metered => Enr!LimitHolds
    BY DEF Metered, UsesLimited, Enr!LimitHolds
<1> QED
    BY <1>1, MeteredInvariant, PTL

\* Nobody gets past the test of an invitation that is revoked, expired or used up: the ones
\* admitted and the requests already past it never grow in number.
THEOREM WithdrawnForGood ==
    ASSUME Enr!SeededAreUsers, Enr!NoneIsNothing, Enr!Bounds, Enr!Finite
    PROVE  Enr!Spec => [][Enr!WithdrawnAdmitsNobody]_(Enr!vars)
<1>1. Metered /\ [Enr!Next]_(Enr!vars) => Enr!WithdrawnAdmitsNobody
    BY StepMetered
<1> QED
    BY <1>1, MeteredInvariant, PTL DEF Enr!Spec
==============================================================================
