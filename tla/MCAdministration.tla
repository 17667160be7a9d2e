-------------------------- MODULE MCAdministration --------------------------
(* The components that keep the school and its curriculum, each with requests that
   overlap; a behaviour is one of any of them (Parts).  Identities are interchangeable
   within a set; the sets that are never used together take theirs from the same
   values. *)
EXTENDS Naturals, TLC, Parts

CONSTANTS
    Tab, Slot, Token, MaxFaults,                            \* Sessions
    Org, User, Teacher, Student, Parent, Class, Subject, Assignment, MaxSteps,    \* School
    Seeded, Year, Invite, Enrol, MaxUses, MaxCalls,         \* Enrolment, with User and Class
    Syllabus, Code,                                         \* Syllabi
    Key, Config, Version, MaxCopies,                        \* ReferenceData
    Structure, Linked, Node, Name,                          \* Chapters
    Resource, Topic, Title                                  \* Resources

N(key, parent, seq) == [key |-> key, parent |-> parent, seq |-> seq]

\* A unit with a chapter, reordered, child first, and with another child.
Configs == { <<N("u", None, 1), N("c", "u", 1)>>, <<N("u", None, 2), N("c", "u", 1)>>,
             <<N("c", "u", 1), N("u", None, 1)>>, <<N("u", None, 1), N("d", "u", 2)>> }

\* Two tabs of one user, three refresh tokens, one fault.
Sess == INSTANCE Sessions WITH
    tok <- v1, call <- v2, storage <- v3, status <- v4, req <- v5, faults <- v6,
    contended <- v7, lost <- v8

\* Two organisations, two teachers for one class, eight requests of which two overlap.
Sch == INSTANCE School WITH
    org <- v1, admin <- v2, person <- v3, relation <- v4, class <- v5, subject <- v6,
    mapping <- v7, taught <- v8, head <- v9, call <- v10, steps <- v11, overlapped <- v12

\* A registered student and a new one, one invitation that may be used once.
Enr == INSTANCE Enrolment WITH
    user <- v1, member <- v2, profile <- v3, class <- v4, invite <- v5, enrol <- v6,
    current <- v7, call <- v8, steps <- v9, raced <- v10, MaxSteps <- MaxCalls

\* Two syllabi of a class.
Syl == INSTANCE Syllabi WITH
    active <- v1, code <- v2, chosen <- v3, work <- v4, lock <- v5, call <- v6

\* One dataset and four configurations of it, two versions it is copied into.
Ref == INSTANCE ReferenceData WITH
    status <- v1, checksum <- v2, node <- v3, copies <- v4, source <- v5, call <- v6

\* A structure with three nodes.
Cha == INSTANCE Chapters WITH
    mapped <- v1, subject <- v2, node <- v3, call <- v4, loose <- v5,
    Subject <- Linked, Title <- Name

\* Two resources of a topic.
Lib == INSTANCE Resources WITH
    res <- v1, call <- v2, stale <- v3

ASSUME ConstantsFit ==
    /\ Sess!NoneIsNoId /\ Sess!FaultBound /\ Sch!NoneIsNoOrg /\ Sch!ProfilesApart /\ Sch!StepBound
    /\ Enr!SeededAreUsers /\ Enr!NoneIsNothing /\ Enr!Finite /\ Enr!Bounds
    /\ Syl!NoneIsNoId /\ Ref!ConfigsValid /\ Ref!CopyBound /\ Ref!NoneIsNoOp
    /\ Cha!NoneIsNothing /\ Lib!NoneIsNothing

Init ==
    \/ part = "session" /\ Sess!Init /\ Unused9
    \/ part = "school" /\ Sch!Init /\ Unused13
    \/ part = "enrolment" /\ Enr!Init /\ Unused11
    \/ part = "syllabus" /\ Syl!Init /\ Unused7
    \/ part = "dataset" /\ Ref!Init /\ Unused7
    \/ part = "chapter" /\ Cha!Init /\ Unused6
    \/ part = "resource" /\ Lib!Init /\ Unused4

Next ==
    /\ \/ part = "session" /\ Sess!Next /\ UNCHANGED from9
       \/ part = "school" /\ Sch!Next /\ UNCHANGED from13
       \/ part = "enrolment" /\ Enr!Next /\ UNCHANGED from11
       \/ part = "syllabus" /\ Syl!Next /\ UNCHANGED from7
       \/ part = "dataset" /\ Ref!Next /\ UNCHANGED from7
       \/ part = "chapter" /\ Cha!Next /\ UNCHANGED from6
       \/ part = "resource" /\ Lib!Next /\ UNCHANGED from4
    /\ UNCHANGED part

Spec == Init /\ [][Next]_<<part, state>>

Symmetry == Permutations(Teacher) \cup Permutations(Org) \cup Permutations(Token) \cup Permutations(Handler)

-----------------------------------------------------------------------------
\* Every variable of the part that runs keeps its type.
TypeOK ==
    /\ part = "session"   => Sess!TypeOK
    /\ part = "school"    => Sch!TypeOK
    /\ part = "enrolment" => Enr!TypeOK
    /\ part = "syllabus"  => Syl!TypeOK
    /\ part = "dataset"   => Ref!TypeOK
    /\ part = "chapter"   => Cha!TypeOK
    /\ part = "resource"  => Lib!TypeOK

\* Refresh tokens rotate forward inside their family and without branching; a family has
\* two live tokens only if two calls of it overlapped, and what a browser keeps is the live
\* one, unless calls overlapped or a reply was lost.
SessionsRotate ==
    part = "session" => Sess!OneLivePerFamily /\ Sess!Succession /\ Sess!StoredIsLive

\* Neither reuse detection nor logging out can be undone by an older token: signing out ends
\* the family for good, unless a refresh overlapped it; and no tab is signed out while its
\* session is good.
SessionsEnd == [][
    part = "session" => Sess!FamilyDies /\ Sess!SignOutEndsFamily /\ Sess!SignedInStays]_state

\* Every link between two rows of a school is listed from both its ends, a class has one
\* class teacher and only mapped subjects have teachers; a student is in a class once for a
\* named year, sees as current one of the enrolments listed, and no registration is left half
\* done; invitations count every use, and exceed their limit only by overlapping requests.
SchoolConsistent ==
    /\ part = "school" => Sch!LinksSeenFromBothEnds /\ Sch!OneClassTeacher /\ Sch!TaughtIsMapped
    /\ part = "enrolment" =>
         /\ Enr!OncePerNamedYear /\ Enr!NoHalfAccounts /\ Enr!CurrentIsListed /\ Enr!SelectionBelongs
         /\ Enr!UsesCounted /\ Enr!LimitHolds

\* The AI context never has two authoritative syllabi to choose from and codes stay distinct;
\* the copies in a version that names a dataset are all of its published nodes; chapters that
\* were compared have titles of their own and their subject; what students see was approved.
CurriculumSound ==
    /\ part = "syllabus" => Syl!OneAuthoritative /\ Syl!CodesDistinct
    /\ part = "dataset" => Ref!CopiesOfPublished
    /\ part = "chapter" => Cha!TitlesDistinct /\ Cha!ChaptersHaveSubject
    /\ part = "resource" => Lib!PublishedApproved

\* What was settled is undone only by requests that overlapped: a designation of a class
\* teacher stays on record, a withdrawn or used-up invitation admits nobody later, a class
\* keeps a syllabus through every switch and takes none once deactivated, published reference
\* data stays as it is, an archived resource stays archived and a title keeps its topic.
SettledStays == [][
    /\ part = "school" => Sch!DesignationsRemembered
    /\ part = "enrolment" => Enr!WithdrawnAdmitsNobody
    /\ part = "syllabus" => Syl!DesignationKept /\ Syl!DesignatedWhileActive
    /\ part = "dataset" => Ref!PublishedKept
    /\ part = "resource" => Lib!ArchivedStays /\ Lib!TitlesDistinct]_state
=============================================================================
