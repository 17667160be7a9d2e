-------------------------- MODULE CompositeProofs ---------------------------
(***************************************************************************)
(* The properties that the runs check of components put together, proved   *)
(* for any values of the constants.  A behaviour of one of these modules   *)
(* is a behaviour of the component that part names, so each theorem of a   *)
(* component is carried over: its instance here and the one the run checks *)
(* differ in name only, which expanding their definitions shows.           *)
(***************************************************************************)
EXTENDS MCAdministration, MCEndings, MCStudy, TLAPS

S == INSTANCE SessionProofs WITH
    tok <- v1, call <- v2, storage <- v3, status <- v4, req <- v5, faults <- v6,
    contended <- v7, lost <- v8

A == INSTANCE PartProofs WITH
    account <- v1, studentMember <- v2, profile <- v3, yearClass <- v4, invite <- v5, enrol <- v6,
    current <- v7, enrolCall <- v8, enrolSteps <- v9, raced <- v10,
    org <- v1, admin <- v2, person <- v3, relation <- v4, class <- v5, subject <- v6,
    mapping <- v7, taught <- v8, head <- v9, schoolCall <- v10, steps <- v11, overlapped <- v12,
    active <- v1, code <- v2, chosen <- v3, work <- v4, lock <- v5, syllabusCall <- v6,
    status <- v1, checksum <- v2, loaded <- v3, copies <- v4, source <- v5, datasetCall <- v6,
    mapped <- v1, link <- v2, node <- v3, chapterCall <- v4, loose <- v5,
    res <- v1, resourceCall <- v2, stale <- v3,
    child <- v1, timer <- v2, timedOut <- v3, signals <- v4, produced <- v5, captured <- v6,
    truncated <- v7, outcome <- v8,
    calendarScope <- v1, calendarStatus <- v2, periodRow <- v3, eventPeriod <- v4, calendarCall <- v5,
    assignmentRow <- v1, submission <- v2, classSubject <- v3, pupils <- v4, editDraft <- v5,
    movedOn <- v6,
    dueRow <- v1, classesNow <- v2, teachingNow <- v3, clock <- v4, reader <- v5, begun <- v6,
    counts <- v7,
    Period <- Twin, Event <- Only, LastDay <- 1, Dates <- StudyDates,
    Homework <- Only, Group <- Twin, Pupil <- Double,
    DueWork <- Twin, DueClass <- Only, MaxNow <- 2

M == INSTANCE AssessmentProofs WITH
    status <- v1, schedule <- v2, enrolled <- v3, paper <- v4, attempts <- v5, answers <- v6,
    results <- v7, call <- v8, shown <- v9, overtaken <- v10, exposed <- v11,
    practiceStatus <- v1, practicePaper <- v2, practiceEditing <- v3, practiceAttempt <- v4,
    practiceSheet <- v5, practiceCall <- v6, page <- v7, faults <- v8, late <- v9, unsure <- v10,
    shownStatus <- v1, tried <- v2, asking <- v3, moments <- v4, told <- v5,
    Question <- Only, Option <- {"x", "y"}, OptionSets <- {{"x", "y"}}, Marks <- {1}, MaxSeq <- 0,
    Author <- Handler, Learner <- {}, Student <- {}, Attempt <- {}, MaxItems <- 0,
    PracticeQuestion <- Only, PracticeOption <- {"x", "y"}, PracticeOptionSets <- {{"x", "y"}},
    PracticeMarks <- {1}, PracticeTry <- Double, PageRequest <- Twin, MaxFaults <- 1,
    Practice <- Twin, Event <- Only, ProgressQuestion <- 1..10, Answers <- StudyAnswers,
    ProgressAttempt <- Double, Concept <- Only, PrimaryConcept <- StudyPrimary, Under <- StudyUnder,
    Chapter <- {"topic"}, Looked <- StudyLooked, MaxMoments <- 2

On(p) == part = p

-----------------------------------------------------------------------------
(* Sessions *)

LEMMA SessionBegins == On("session") /\ Init => S!Init
BY DEF On, Init,
        S!Init, S!NoToken, S!Idle, S!Cleared, S!Out, Sess!Init, Sess!NoToken, Sess!Idle,
        Sess!Cleared, Sess!Out

LEMMA SessionSteps ==
    /\ On("session") /\ [Next]_<<part, state>> => On("session")' /\ [S!Next]_(S!vars)
    /\ On("session") /\ [Next]_<<part, state>> /\ UNCHANGED S!vars => UNCHANGED state
    /\ ~On("session") /\ [Next]_<<part, state>> => ~On("session")'
<1>1. S!Next <=> Sess!Next
    BY DEF
        S!Next, S!Serve, S!Return, S!Lose, S!Browse, S!Check, S!Reload, S!Unreachable,
        S!Respond, S!AccessRunsOut, S!Expire, S!Lookup, S!Reuse, S!Revoke, S!Insert,
        S!InsertFails, S!Link, S!Logout, S!Unheard, S!Continue, S!Idle, S!history,
        S!Touched, S!SignIn, S!SignOut, S!Request, S!Validated, S!Invalid, S!Enter, S!Out,
        S!Signed, S!server, S!Answered, S!Refused, S!RefusedAgain, S!NoToken, S!Refreshing,
        S!Goto, S!Rest, S!FamilyOf, S!Unissued, S!RootRow, S!Cleared, S!GiveUp, S!Of,
        S!Begin, S!EndWith, S!Share, S!Under, S!SharedBy, Sess!Next, Sess!Serve,
        Sess!Return, Sess!Lose, Sess!Browse, Sess!Check, Sess!Reload, Sess!Unreachable,
        Sess!Respond, Sess!AccessRunsOut, Sess!Expire, Sess!Lookup, Sess!Reuse, Sess!Revoke,
        Sess!Insert, Sess!InsertFails, Sess!Link, Sess!Logout, Sess!Unheard, Sess!Continue,
        Sess!Idle, Sess!history, Sess!Touched, Sess!SignIn, Sess!SignOut, Sess!Request,
        Sess!Validated, Sess!Invalid, Sess!Enter, Sess!Out, Sess!Signed, Sess!server,
        Sess!Answered, Sess!Refused, Sess!RefusedAgain, Sess!NoToken, Sess!Refreshing,
        Sess!Goto, Sess!Rest, Sess!FamilyOf, Sess!Unissued, Sess!RootRow, Sess!Cleared,
        Sess!GiveUp, Sess!Of, Sess!Begin, Sess!EndWith, Sess!Share, Sess!Under,
        Sess!SharedBy
<1>2. CASE UNCHANGED <<part, state>>
    BY <1>2 DEF On, state, from4, from6, from7, from9, from11, from12, from13, S!vars, S!server,
        S!history
<1>3. CASE Next
    BY <1>1, <1>3 DEF On, Next, state, from4, from6, from7, from9, from11, from12, from13, S!vars,
        S!server, S!history
<1> QED
    BY <1>2, <1>3

LEMMA SessionHolds ==
    Spec => [](part = "session" =>
          Sess!TypeOK /\ Sess!OneLivePerFamily /\ Sess!Succession /\ Sess!StoredIsLive)
<1>1. S!NoneIsNoId /\ S!FaultBound
    BY ConstantsFit DEF S!NoneIsNoId, S!FaultBound, S!Purpose, Sess!NoneIsNoId, Sess!FaultBound,
        Sess!Purpose
<1>2. S!Spec => []S!TypeOK
    BY <1>1, S!SessionsTyped
<1>3. S!Spec => []S!OneLivePerFamily
    BY <1>1, S!OneLive
<1>4. S!Spec => []S!Succession
    BY <1>1, S!SuccessionAlways
<1>5. S!Spec => []S!StoredIsLive
    BY <1>1, S!StoredLive
<1>6. (On("session") => S!TypeOK /\ S!OneLivePerFamily /\ S!Succession /\ S!StoredIsLive) =>
      (part = "session" =>
          Sess!TypeOK /\ Sess!OneLivePerFamily /\ Sess!Succession /\ Sess!StoredIsLive)
    BY DEF On,
        S!TypeOK, S!OneLivePerFamily, S!Succession, S!StoredIsLive, S!TokenRow, S!Call,
        S!Storage, S!AuthStatus, S!Answer, S!Live, S!FamilyOf, S!Under, S!Purpose, S!Stage,
        S!Checking, S!Signed, S!Out, S!Cardinality, Sess!TypeOK, Sess!OneLivePerFamily,
        Sess!Succession, Sess!StoredIsLive, Sess!TokenRow, Sess!Call, Sess!Storage,
        Sess!AuthStatus, Sess!Answer, Sess!Live, Sess!FamilyOf, Sess!Under, Sess!Purpose,
        Sess!Stage, Sess!Checking, Sess!Signed, Sess!Out, Sess!Cardinality
<1> QED
    BY SessionBegins, SessionSteps, <1>2, <1>3, <1>4, <1>5, <1>6, PTL DEF Spec, S!Spec

LEMMA SessionGoes ==
    Spec => [][part = "session" =>
          Sess!FamilyDies /\ Sess!SignOutEndsFamily /\ Sess!SignedInStays]_state
<1>1. S!NoneIsNoId /\ S!FaultBound
    BY ConstantsFit DEF S!NoneIsNoId, S!FaultBound, S!Purpose, Sess!NoneIsNoId, Sess!FaultBound,
        Sess!Purpose
<1>2. S!Spec => [][S!FamilyDies]_(S!vars)
    BY <1>1, S!FamiliesDie
<1>3. S!Spec => [][S!SignOutEndsFamily]_(S!vars)
    BY <1>1, S!SignOutEnds
<1>4. S!Spec => [][S!SignedInStays]_(S!vars)
    BY <1>1, S!StaysSignedIn
<1>5. S!FamilyDies /\ S!SignOutEndsFamily /\ S!SignedInStays =>
          Sess!FamilyDies /\ Sess!SignOutEndsFamily /\ Sess!SignedInStays
    BY DEF
        S!FamilyDies, S!SignOutEndsFamily, S!SignedInStays, S!Dead, S!FamilyOf, S!Live,
        S!Signed, S!Out, S!Of, S!Hopeless, S!Rotating, S!Under, Sess!FamilyDies,
        Sess!SignOutEndsFamily, Sess!SignedInStays, Sess!Dead, Sess!FamilyOf, Sess!Live,
        Sess!Signed, Sess!Out, Sess!Of, Sess!Hopeless, Sess!Rotating, Sess!Under
<1>6. /\ On("session") /\ [Next]_<<part, state>>
      /\ [S!FamilyDies]_(S!vars) /\ [S!SignOutEndsFamily]_(S!vars) /\ [S!SignedInStays]_(S!vars)
      => [part = "session" =>
          Sess!FamilyDies /\ Sess!SignOutEndsFamily /\ Sess!SignedInStays]_state
    BY <1>5, SessionSteps
<1>7. ~On("session") =>
      [part = "session" =>
          Sess!FamilyDies /\ Sess!SignOutEndsFamily /\ Sess!SignedInStays]_state
    BY DEF On
<1> QED
    BY SessionBegins, SessionSteps, <1>2, <1>3, <1>4, <1>6, <1>7, PTL DEF Spec, S!Spec

-----------------------------------------------------------------------------
(* School *)

LEMMA SchoolBegins == On("school") /\ Init => A!Sch!Init
BY DEF On, Init,
        A!Sch!Init, A!Sch!Profile, A!Sch!Absent, A!Sch!NoHead, A!Sch!Idle, Sch!Init,
        Sch!Profile, Sch!Absent, Sch!NoHead, Sch!Idle

LEMMA SchoolSteps ==
    /\ On("school") /\ [Next]_<<part, state>> => On("school")' /\ [A!Sch!Next]_(A!Sch!vars)
    /\ On("school") /\ [Next]_<<part, state>> /\ UNCHANGED A!Sch!vars => UNCHANGED state
    /\ ~On("school") /\ [Next]_<<part, state>> => ~On("school")'
<1>1. A!Sch!Next <=> Sch!Next
    BY DEF
        A!Sch!Next, A!Sch!Administer, A!Sch!Staff, A!Sch!Activate, A!Sch!CreateOrganization,
        A!Sch!CreateTeacher, A!Sch!CreateStudent, A!Sch!CreateParent, A!Sch!Status,
        A!Sch!SetTeacherStatus, A!Sch!SetStudentStatus, A!Sch!SetParentStatus,
        A!Sch!CreateClass, A!Sch!SetClassStatus, A!Sch!CreateSubject,
        A!Sch!SetSubjectStatus, A!Sch!Relate, A!Sch!SetRelation, A!Sch!RemoveMapping,
        A!Sch!EndTeaching, A!Sch!AskMapping, A!Sch!AskBulk, A!Sch!AskTeaching,
        A!Sch!AskDesignation, A!Sch!WriteMapping, A!Sch!WriteBulk, A!Sch!WriteTeaching,
        A!Sch!Clear, A!Sch!Resume, A!Sch!Put, A!Sch!Fail, A!Sch!Asked, A!Sch!CreateProfile,
        A!Sch!SetProfileStatus, A!Sch!AdminOf, A!Sch!Absent, A!Sch!Fits, A!Sch!Enter,
        A!Sch!Designating, A!Sch!Leave, A!Sch!Idle, A!Sch!Others, A!Sch!Free, A!Sch!HeadsOf,
        A!Sch!NoHead, A!Sch!Cleared, A!Sch!LockedBy, Sch!Next, Sch!Administer, Sch!Staff,
        Sch!Activate, Sch!CreateOrganization, Sch!CreateTeacher, Sch!CreateStudent,
        Sch!CreateParent, Sch!Status, Sch!SetTeacherStatus, Sch!SetStudentStatus,
        Sch!SetParentStatus, Sch!CreateClass, Sch!SetClassStatus, Sch!CreateSubject,
        Sch!SetSubjectStatus, Sch!Relate, Sch!SetRelation, Sch!RemoveMapping,
        Sch!EndTeaching, Sch!AskMapping, Sch!AskBulk, Sch!AskTeaching, Sch!AskDesignation,
        Sch!WriteMapping, Sch!WriteBulk, Sch!WriteTeaching, Sch!Clear, Sch!Resume, Sch!Put,
        Sch!Fail, Sch!Asked, Sch!CreateProfile, Sch!SetProfileStatus, Sch!AdminOf,
        Sch!Absent, Sch!Fits, Sch!Enter, Sch!Designating, Sch!Leave, Sch!Idle, Sch!Others,
        Sch!Free, Sch!HeadsOf, Sch!NoHead, Sch!Cleared, Sch!LockedBy
<1>2. CASE UNCHANGED <<part, state>>
    BY <1>2 DEF On, state, from4, from6, from7, from9, from11, from12, from13, A!Sch!vars
<1>3. CASE Next
    BY <1>1, <1>3 DEF On, Next, state, from4, from6, from7, from9, from11, from12, from13,
        A!Sch!vars
<1> QED
    BY <1>2, <1>3

LEMMA SchoolHolds ==
    Spec => [](part = "school" =>
          Sch!TypeOK /\ Sch!LinksSeenFromBothEnds /\ Sch!OneClassTeacher /\ Sch!TaughtIsMapped)
<1>1. A!Sch!NoneIsNoOrg /\ A!Sch!StepBound
    BY ConstantsFit DEF A!Sch!NoneIsNoOrg, A!Sch!StepBound, Sch!NoneIsNoOrg, Sch!StepBound
<1>2. A!Sch!Spec => []A!Sch!TypeOK
    BY <1>1, A!SchoolAlwaysTyped
<1>3. A!Sch!Spec => []A!Sch!LinksSeenFromBothEnds
    BY <1>1, A!LinksAlwaysSeen
<1>4. A!Sch!Spec => []A!Sch!OneClassTeacher
    BY <1>1, A!ClassTeacherSingle
<1>5. A!Sch!Spec => []A!Sch!TaughtIsMapped
    BY <1>1, A!TeachersMapped
<1>6. (On("school") =>
         A!Sch!TypeOK /\ A!Sch!LinksSeenFromBothEnds /\ A!Sch!OneClassTeacher /\ A!Sch!TaughtIsMapped) =>
      (part = "school" =>
          Sch!TypeOK /\ Sch!LinksSeenFromBothEnds /\ Sch!OneClassTeacher /\ Sch!TaughtIsMapped)
    BY DEF On,
        A!Sch!TypeOK, A!Sch!LinksSeenFromBothEnds, A!Sch!OneClassTeacher,
        A!Sch!TaughtIsMapped, A!Sch!OrgStatus, A!Sch!Profile, A!Sch!PersonRow,
        A!Sch!RelationRow, A!Sch!Owned, A!Sch!Mapping, A!Sch!TeachingRow, A!Sch!NoHead,
        A!Sch!HeadRow, A!Sch!ListStudentsOf, A!Sch!ListParentsOf, A!Sch!ListClassSubjects,
        A!Sch!ListSubjectTeachers, A!Sch!ListClassTeachers, A!Sch!HeadsOf, A!Sch!Status,
        Sch!TypeOK, Sch!LinksSeenFromBothEnds, Sch!OneClassTeacher, Sch!TaughtIsMapped,
        Sch!OrgStatus, Sch!Profile, Sch!PersonRow, Sch!RelationRow, Sch!Owned, Sch!Mapping,
        Sch!TeachingRow, Sch!NoHead, Sch!HeadRow, Sch!ListStudentsOf, Sch!ListParentsOf,
        Sch!ListClassSubjects, Sch!ListSubjectTeachers, Sch!ListClassTeachers, Sch!HeadsOf,
        Sch!Status
<1> QED
    BY SchoolBegins, SchoolSteps, <1>2, <1>3, <1>4, <1>5, <1>6, PTL DEF Spec, A!Sch!Spec

LEMMA SchoolGoes ==
    Spec => [][part = "school" =>
          Sch!DesignationsRemembered]_state
<1>1. A!Sch!NoneIsNoOrg /\ A!Sch!StepBound
    BY ConstantsFit DEF A!Sch!NoneIsNoOrg, A!Sch!StepBound, Sch!NoneIsNoOrg, Sch!StepBound
<1>2. A!Sch!Spec => [][A!Sch!DesignationsRemembered]_(A!Sch!vars)
    BY <1>1, A!DesignationsStay
<1>3. A!Sch!DesignationsRemembered =>
          Sch!DesignationsRemembered
    BY DEF
        A!Sch!DesignationsRemembered, A!Sch!NoHead, Sch!DesignationsRemembered, Sch!NoHead
<1>4. /\ On("school") /\ [Next]_<<part, state>>
      /\ [A!Sch!DesignationsRemembered]_(A!Sch!vars)
      => [part = "school" =>
          Sch!DesignationsRemembered]_state
    BY <1>3, SchoolSteps
<1>5. ~On("school") =>
      [part = "school" =>
          Sch!DesignationsRemembered]_state
    BY DEF On
<1> QED
    BY SchoolBegins, SchoolSteps, <1>2, <1>4, <1>5, PTL DEF Spec, A!Sch!Spec

-----------------------------------------------------------------------------
(* Enrolment *)

LEMMA EnrolmentCounts == \A s : A!Enr!Cardinality(s) = Enr!Cardinality(s)
BY DEF A!Enr!Cardinality, Enr!Cardinality

LEMMA EnrolmentBegins == On("enrolment") /\ Init => A!Enr!Init
BY DEF On, Init,
        A!Enr!Init, A!Enr!NoInvite, A!Enr!NoEnrol, A!Enr!Idle, Enr!Init, Enr!NoInvite, Enr!NoEnrol,
        Enr!Idle

LEMMA EnrolmentSteps ==
    /\ On("enrolment") /\ [Next]_<<part, state>> => On("enrolment")' /\ [A!Enr!Next]_(A!Enr!vars)
    /\ On("enrolment") /\ [Next]_<<part, state>> /\ UNCHANGED A!Enr!vars => UNCHANGED state
    /\ ~On("enrolment") /\ [Next]_<<part, state>> => ~On("enrolment")'
<1>1. A!Enr!Next <=> Enr!Next
    BY DEF
        A!Enr!Next, A!Enr!Status, A!Enr!EditClass, A!Enr!Invitation, A!Enr!Revoke, A!Enr!Expire,
        A!Enr!CreateStudent,
        A!Enr!RegisterAlone, A!Enr!SetStudentStatus, A!Enr!EnrolByHand, A!Enr!Select, A!Enr!AskJoin,
        A!Enr!AskRegister, A!Enr!Look, A!Enr!Join, A!Enr!Register, A!Enr!Fail, A!Enr!Asked,
        A!Enr!NoInvite, A!Enr!NoEnrol,
        A!Enr!Selectable, A!Enr!Usable, A!Enr!Ask, A!Enr!EnrolmentsIn, A!Enr!Leave, A!Enr!Rejected,
        A!Enr!EnrolVia,
        A!Enr!CountUse, A!Enr!Enlist, A!Enr!Idle, A!Enr!Using, Enr!Next, Enr!Status, Enr!EditClass,
        Enr!Invitation, Enr!Revoke, Enr!Expire, Enr!CreateStudent, Enr!RegisterAlone,
        Enr!SetStudentStatus, Enr!EnrolByHand, Enr!Select, Enr!AskJoin, Enr!AskRegister,
        Enr!Look, Enr!Join, Enr!Register, Enr!Fail, Enr!Asked, Enr!NoInvite, Enr!NoEnrol,
        Enr!Selectable, Enr!Usable, Enr!Ask, Enr!EnrolmentsIn, Enr!Leave, Enr!Rejected,
        Enr!EnrolVia, Enr!CountUse, Enr!Enlist, Enr!Idle, Enr!Using
<1>2. CASE UNCHANGED <<part, state>>
    BY <1>2 DEF On, state, from4, from6, from7, from9, from11, from12, from13, A!Enr!vars
<1>3. CASE Next
    BY <1>1, <1>3 DEF On, Next, state, from4, from6, from7, from9, from11, from12, from13,
        A!Enr!vars
<1> QED
    BY <1>2, <1>3

LEMMA EnrolmentHolds ==
    Spec => [](part = "enrolment" =>
          Enr!TypeOK /\ Enr!OncePerNamedYear /\ Enr!NoHalfAccounts /\ Enr!SelectionBelongs /\
          Enr!CurrentIsListed /\ Enr!UsesCounted /\ Enr!LimitHolds)
<1>1. A!Enr!SeededAreUsers /\ A!Enr!NoneIsNothing /\ A!Enr!Bounds /\ A!Enr!Finite
    BY ConstantsFit DEF A!Enr!SeededAreUsers, A!Enr!NoneIsNothing, A!Enr!Bounds, A!Enr!Finite,
        A!Enr!Status, A!Enr!IsFiniteSet,
        Enr!SeededAreUsers, Enr!NoneIsNothing, Enr!Bounds, Enr!Finite, Enr!Status,
        Enr!IsFiniteSet
<1>2. A!Enr!Spec => []A!Enr!TypeOK
    BY <1>1, A!EnrolmentTyped
<1>3. A!Enr!Spec => []A!Enr!OncePerNamedYear
    BY <1>1, A!YearsSingle
<1>4. A!Enr!Spec => []A!Enr!NoHalfAccounts
    BY <1>1, A!AccountsWhole
<1>5. A!Enr!Spec => [](A!Enr!SelectionBelongs /\ A!Enr!CurrentIsListed)
    BY <1>1, A!SelectionsOwn
<1>6. A!Enr!Spec => []A!Enr!UsesCounted
    BY <1>1, A!CountsTrue
<1>7. A!Enr!Spec => []A!Enr!LimitHolds
    BY <1>1, A!LimitsHold
<1>8. A!Enr!TypeOK => Enr!TypeOK
  <2>1. A!Enr!Cardinality(Enrol) = Enr!Cardinality(Enrol)
    BY EnrolmentCounts
  <2>2. A!Enr!InviteRow = Enr!InviteRow
    BY <2>1 DEF A!Enr!InviteRow, A!Enr!Status, Enr!InviteRow, Enr!Status
  <2> QED
    BY <2>2 DEF
        A!Enr!TypeOK, A!Enr!Selection, A!Enr!UserStatus, A!Enr!Status, A!Enr!NoInvite,
        A!Enr!NoEnrol, A!Enr!EnrolRow, Enr!TypeOK, Enr!Selection, Enr!UserStatus, Enr!Status,
        Enr!NoInvite,
        Enr!NoEnrol, Enr!EnrolRow
<1>9. A!Enr!OncePerNamedYear /\ A!Enr!NoHalfAccounts /\ A!Enr!SelectionBelongs
      /\ A!Enr!CurrentIsListed =>
          Enr!OncePerNamedYear /\ Enr!NoHalfAccounts /\ Enr!SelectionBelongs /\ Enr!CurrentIsListed
    BY DEF
        A!Enr!OncePerNamedYear, A!Enr!NoHalfAccounts, A!Enr!SelectionBelongs,
        A!Enr!CurrentIsListed, A!Enr!NoEnrol, A!Enr!Selection, A!Enr!EnrolmentsIn,
        A!Enr!CurrentEnrolment, A!Enr!ListEnrolments, Enr!OncePerNamedYear, Enr!NoHalfAccounts,
        Enr!SelectionBelongs, Enr!CurrentIsListed, Enr!NoEnrol, Enr!Selection,
        Enr!EnrolmentsIn, Enr!CurrentEnrolment, Enr!ListEnrolments
<1>10. A!Enr!UsesCounted /\ A!Enr!LimitHolds => Enr!UsesCounted /\ Enr!LimitHolds
    BY EnrolmentCounts DEF
        A!Enr!UsesCounted, A!Enr!LimitHolds, A!Enr!NoInvite, A!Enr!Via, Enr!UsesCounted,
        Enr!LimitHolds, Enr!NoInvite, Enr!Via
<1>11. (On("enrolment") =>
         A!Enr!TypeOK /\ A!Enr!OncePerNamedYear /\ A!Enr!NoHalfAccounts /\ A!Enr!SelectionBelongs
         /\ A!Enr!CurrentIsListed /\ A!Enr!UsesCounted /\ A!Enr!LimitHolds) =>
      (part = "enrolment" =>
          Enr!TypeOK /\ Enr!OncePerNamedYear /\ Enr!NoHalfAccounts /\ Enr!SelectionBelongs /\
          Enr!CurrentIsListed /\ Enr!UsesCounted /\ Enr!LimitHolds)
    BY <1>8, <1>9, <1>10 DEF On
<1> QED
    BY EnrolmentBegins, EnrolmentSteps, <1>2, <1>3, <1>4, <1>5, <1>6, <1>7, <1>11, PTL DEF Spec,
        A!Enr!Spec

LEMMA EnrolmentGoes ==
    Spec => [][part = "enrolment" =>
          Enr!WithdrawnAdmitsNobody]_state
<1>1. A!Enr!SeededAreUsers /\ A!Enr!NoneIsNothing /\ A!Enr!Bounds /\ A!Enr!Finite
    BY ConstantsFit DEF A!Enr!SeededAreUsers, A!Enr!NoneIsNothing, A!Enr!Bounds, A!Enr!Finite,
        A!Enr!Status, A!Enr!IsFiniteSet,
        Enr!SeededAreUsers, Enr!NoneIsNothing, Enr!Bounds, Enr!Finite, Enr!Status,
        Enr!IsFiniteSet
<1>2. A!Enr!Spec => [][A!Enr!WithdrawnAdmitsNobody]_(A!Enr!vars)
    BY <1>1, A!WithdrawnForGood
<1>3. A!Enr!WithdrawnAdmitsNobody =>
          Enr!WithdrawnAdmitsNobody
    BY EnrolmentCounts DEF
        A!Enr!WithdrawnAdmitsNobody, A!Enr!NoInvite, A!Enr!Usable, A!Enr!Via, A!Enr!Using,
        Enr!WithdrawnAdmitsNobody, Enr!NoInvite, Enr!Usable, Enr!Via, Enr!Using
<1>4. /\ On("enrolment") /\ [Next]_<<part, state>>
      /\ [A!Enr!WithdrawnAdmitsNobody]_(A!Enr!vars)
      => [part = "enrolment" =>
          Enr!WithdrawnAdmitsNobody]_state
    BY <1>3, EnrolmentSteps
<1>5. ~On("enrolment") =>
      [part = "enrolment" =>
          Enr!WithdrawnAdmitsNobody]_state
    BY DEF On
<1> QED
    BY EnrolmentBegins, EnrolmentSteps, <1>2, <1>4, <1>5, PTL DEF Spec, A!Enr!Spec

-----------------------------------------------------------------------------
(* Syllabi *)

LEMMA SyllabusBegins == On("syllabus") /\ Init => A!Syl!Init
BY DEF On, Init,
        A!Syl!Init, A!Syl!Idle, Syl!Init, Syl!Idle

LEMMA SyllabusSteps ==
    /\ On("syllabus") /\ [Next]_<<part, state>> => On("syllabus")' /\ [A!Syl!Next]_(A!Syl!vars)
    /\ On("syllabus") /\ [Next]_<<part, state>> /\ UNCHANGED A!Syl!vars => UNCHANGED state
    /\ ~On("syllabus") /\ [Next]_<<part, state>> => ~On("syllabus")'
<1>1. A!Syl!Next <=> Syl!Next
    BY DEF
        A!Syl!Next, A!Syl!SetClassStatus, A!Syl!BeginCreate, A!Syl!BeginDesignate,
        A!Syl!Insert, A!Syl!Lock, A!Syl!Demote, A!Syl!Promote, A!Syl!Commit, A!Syl!Fail,
        A!Syl!Idle, A!Syl!Uncoded, A!Syl!Syllabi, A!Syl!Step, A!Syl!Admits, Syl!Next,
        Syl!SetClassStatus, Syl!BeginCreate, Syl!BeginDesignate, Syl!Insert, Syl!Lock,
        Syl!Demote, Syl!Promote, Syl!Commit, Syl!Fail, Syl!Idle, Syl!Uncoded, Syl!Syllabi,
        Syl!Step, Syl!Admits
<1>2. CASE UNCHANGED <<part, state>>
    BY <1>2 DEF On, state, from4, from6, from7, from9, from11, from12, from13, A!Syl!vars
<1>3. CASE Next
    BY <1>1, <1>3 DEF On, Next, state, from4, from6, from7, from9, from11, from12, from13,
        A!Syl!vars
<1> QED
    BY <1>2, <1>3

LEMMA SyllabusHolds ==
    Spec => [](part = "syllabus" =>
          Syl!TypeOK /\ Syl!OneAuthoritative /\ Syl!CodesDistinct)
<1>1. A!Syl!NoneIsNoId
    BY ConstantsFit DEF A!Syl!NoneIsNoId, A!Syl!InTransaction, Syl!NoneIsNoId, Syl!InTransaction
<1>2. A!Syl!Spec => []A!Syl!TypeOK
    BY <1>1, A!SyllabiTyped
<1>3. A!Syl!Spec => []A!Syl!OneAuthoritative
    BY <1>1, A!AuthoritativeSingle
<1>4. A!Syl!Spec => []A!Syl!CodesDistinct
    BY <1>1, A!CodesAlwaysDistinct
<1>5. (On("syllabus") => A!Syl!TypeOK /\ A!Syl!OneAuthoritative /\ A!Syl!CodesDistinct) =>
      (part = "syllabus" =>
          Syl!TypeOK /\ Syl!OneAuthoritative /\ Syl!CodesDistinct)
    BY DEF On,
        A!Syl!TypeOK, A!Syl!OneAuthoritative, A!Syl!CodesDistinct, A!Syl!InTransaction,
        A!Syl!Authoritative, A!Syl!Syllabi, Syl!TypeOK, Syl!OneAuthoritative,
        Syl!CodesDistinct, Syl!InTransaction, Syl!Authoritative, Syl!Syllabi
<1> QED
    BY SyllabusBegins, SyllabusSteps, <1>2, <1>3, <1>4, <1>5, PTL DEF Spec, A!Syl!Spec

LEMMA SyllabusGoes ==
    Spec => [][part = "syllabus" =>
          Syl!DesignationKept /\ Syl!DesignatedWhileActive]_state
<1>1. A!Syl!NoneIsNoId
    BY ConstantsFit DEF A!Syl!NoneIsNoId, A!Syl!InTransaction, Syl!NoneIsNoId, Syl!InTransaction
<1>2. A!Syl!Spec => [][A!Syl!DesignationKept]_(A!Syl!vars)
    BY <1>1, A!DesignationStays
<1>3. A!Syl!Spec => [][A!Syl!DesignatedWhileActive]_(A!Syl!vars)
    BY <1>1, A!DesignatedActive
<1>4. A!Syl!DesignationKept /\ A!Syl!DesignatedWhileActive =>
          Syl!DesignationKept /\ Syl!DesignatedWhileActive
    BY DEF
        A!Syl!DesignationKept, A!Syl!DesignatedWhileActive, Syl!DesignationKept,
        Syl!DesignatedWhileActive
<1>5. /\ On("syllabus") /\ [Next]_<<part, state>>
      /\ [A!Syl!DesignationKept]_(A!Syl!vars) /\ [A!Syl!DesignatedWhileActive]_(A!Syl!vars)
      => [part = "syllabus" =>
          Syl!DesignationKept /\ Syl!DesignatedWhileActive]_state
    BY <1>4, SyllabusSteps
<1>6. ~On("syllabus") =>
      [part = "syllabus" =>
          Syl!DesignationKept /\ Syl!DesignatedWhileActive]_state
    BY DEF On
<1> QED
    BY SyllabusBegins, SyllabusSteps, <1>2, <1>3, <1>5, <1>6, PTL DEF Spec, A!Syl!Spec

-----------------------------------------------------------------------------
(* Reference data *)

LEMMA DatasetBegins == On("dataset") /\ Init => A!Ref!Init
BY DEF On, Init,
        A!Ref!Init, A!Ref!Idle, Ref!Init, Ref!Idle

LEMMA DatasetSteps ==
    /\ On("dataset") /\ [Next]_<<part, state>> => On("dataset")' /\ [A!Ref!Next]_(A!Ref!vars)
    /\ On("dataset") /\ [Next]_<<part, state>> /\ UNCHANGED A!Ref!vars => UNCHANGED state
    /\ ~On("dataset") /\ [Next]_<<part, state>> => ~On("dataset")'
<1>1. A!Ref!Next <=> Ref!Next
    BY DEF
        A!Ref!Next, A!Ref!BeginLoad, A!Ref!Load, A!Ref!BeginPublish, A!Ref!Publish,
        A!Ref!Fail, A!Ref!Materialize, A!Ref!Idle, A!Ref!Immutable, A!Ref!Merged,
        A!Ref!Copied, A!Ref!ParentAt, A!Ref!Keys, A!Ref!CopiedParents, Ref!Next,
        Ref!BeginLoad, Ref!Load, Ref!BeginPublish, Ref!Publish, Ref!Fail, Ref!Materialize,
        Ref!Idle, Ref!Immutable, Ref!Merged, Ref!Copied, Ref!ParentAt, Ref!Keys,
        Ref!CopiedParents
<1>2. CASE UNCHANGED <<part, state>>
    BY <1>2 DEF On, state, from4, from6, from7, from9, from11, from12, from13, A!Ref!vars
<1>3. CASE Next
    BY <1>1, <1>3 DEF On, Next, state, from4, from6, from7, from9, from11, from12, from13,
        A!Ref!vars
<1> QED
    BY <1>2, <1>3

LEMMA DatasetHolds ==
    Spec => [](part = "dataset" =>
          Ref!TypeOK /\ Ref!CopiesOfPublished)
<1>1. A!Ref!ConfigsValid /\ A!Ref!CopyBound /\ A!Ref!NoneIsNoOp
    BY ConstantsFit DEF A!Ref!ConfigsValid, A!Ref!CopyBound, A!Ref!NoneIsNoOp, Ref!ConfigsValid,
        Ref!CopyBound, Ref!NoneIsNoOp
<1>2. A!Ref!Spec => []A!Ref!TypeOK
    BY <1>1, A!DatasetTyped
<1>3. A!Ref!Spec => []A!Ref!CopiesOfPublished
    BY <1>1, A!CopiesFaithful
<1>4. (On("dataset") => A!Ref!TypeOK /\ A!Ref!CopiesOfPublished) =>
      (part = "dataset" =>
          Ref!TypeOK /\ Ref!CopiesOfPublished)
    BY DEF On,
        A!Ref!TypeOK, A!Ref!CopiesOfPublished, A!Ref!DatasetStatus, A!Ref!Keys,
        A!Ref!NodeRow, A!Ref!Copied, A!Ref!CopiedParents, Ref!TypeOK, Ref!CopiesOfPublished,
        Ref!DatasetStatus, Ref!Keys, Ref!NodeRow, Ref!Copied, Ref!CopiedParents
<1> QED
    BY DatasetBegins, DatasetSteps, <1>2, <1>3, <1>4, PTL DEF Spec, A!Ref!Spec

LEMMA DatasetGoes ==
    Spec => [][part = "dataset" =>
          Ref!PublishedKept]_state
<1>1. A!Ref!ConfigsValid /\ A!Ref!CopyBound /\ A!Ref!NoneIsNoOp
    BY ConstantsFit DEF A!Ref!ConfigsValid, A!Ref!CopyBound, A!Ref!NoneIsNoOp, Ref!ConfigsValid,
        Ref!CopyBound, Ref!NoneIsNoOp
<1>2. A!Ref!Spec => [][A!Ref!PublishedKept]_(A!Ref!vars)
    BY <1>1, A!PublishedStays
<1>3. A!Ref!PublishedKept =>
          Ref!PublishedKept
    BY DEF
        A!Ref!PublishedKept, Ref!PublishedKept
<1>4. /\ On("dataset") /\ [Next]_<<part, state>>
      /\ [A!Ref!PublishedKept]_(A!Ref!vars)
      => [part = "dataset" =>
          Ref!PublishedKept]_state
    BY <1>3, DatasetSteps
<1>5. ~On("dataset") =>
      [part = "dataset" =>
          Ref!PublishedKept]_state
    BY DEF On
<1> QED
    BY DatasetBegins, DatasetSteps, <1>2, <1>4, <1>5, PTL DEF Spec, A!Ref!Spec

-----------------------------------------------------------------------------
(* Chapters *)

LEMMA ChapterBegins == On("chapter") /\ Init => A!Cha!Init
BY DEF On, Init,
        A!Cha!Init, A!Cha!Idle, Cha!Init, Cha!Idle

LEMMA ChapterSteps ==
    /\ On("chapter") /\ [Next]_<<part, state>> => On("chapter")' /\ [A!Cha!Next]_(A!Cha!vars)
    /\ On("chapter") /\ [Next]_<<part, state>> /\ UNCHANGED A!Cha!vars => UNCHANGED state
    /\ ~On("chapter") /\ [Next]_<<part, state>> => ~On("chapter")'
<1>1. A!Cha!Next <=> Cha!Next
    BY DEF
        A!Cha!Next, A!Cha!Map, A!Cha!Link, A!Cha!Write, A!Cha!Fail, A!Cha!UpdateChapter,
        A!Cha!UpdateTopic, A!Cha!CreateChapter, A!Cha!CreateTopic, A!Cha!Row, A!Cha!AddNode,
        A!Cha!Idle, A!Cha!Busy, A!Cha!Nodes, A!Cha!Titled, A!Cha!Enter, A!Cha!BeginCreate,
        A!Cha!Named, A!Cha!Free, Cha!Next, Cha!Map, Cha!Link, Cha!Write, Cha!Fail,
        Cha!UpdateChapter, Cha!UpdateTopic, Cha!CreateChapter, Cha!CreateTopic, Cha!Row,
        Cha!AddNode, Cha!Idle, Cha!Busy, Cha!Nodes, Cha!Titled, Cha!Enter, Cha!BeginCreate,
        Cha!Named, Cha!Free
<1>2. CASE UNCHANGED <<part, state>>
    BY <1>2 DEF On, state, from4, from6, from7, from9, from11, from12, from13, A!Cha!vars
<1>3. CASE Next
    BY <1>1, <1>3 DEF On, Next, state, from4, from6, from7, from9, from11, from12, from13,
        A!Cha!vars
<1> QED
    BY <1>2, <1>3

LEMMA ChapterHolds ==
    Spec => [](part = "chapter" =>
          Cha!TypeOK /\ Cha!TitlesDistinct /\ Cha!ChaptersHaveSubject)
<1>1. A!Cha!NoneIsNothing
    BY ConstantsFit DEF A!Cha!NoneIsNothing, A!Cha!Row, Cha!NoneIsNothing, Cha!Row
<1>2. A!Cha!Spec => []A!Cha!TypeOK
    BY <1>1, A!ChaptersTyped
<1>3. A!Cha!Spec => []A!Cha!TitlesDistinct
    BY <1>1, A!ChapterTitlesDistinct
<1>4. A!Cha!Spec => []A!Cha!ChaptersHaveSubject
    BY <1>1, A!SubjectsKept
<1>5. (On("chapter") => A!Cha!TypeOK /\ A!Cha!TitlesDistinct /\ A!Cha!ChaptersHaveSubject) =>
      (part = "chapter" =>
          Cha!TypeOK /\ Cha!TitlesDistinct /\ Cha!ChaptersHaveSubject)
    BY DEF On,
        A!Cha!TypeOK, A!Cha!TitlesDistinct, A!Cha!ChaptersHaveSubject, A!Cha!Links,
        A!Cha!Row, A!Cha!Busy, A!Cha!Nodes, A!Cha!Idle, Cha!TypeOK, Cha!TitlesDistinct,
        Cha!ChaptersHaveSubject, Cha!Links, Cha!Row, Cha!Busy, Cha!Nodes, Cha!Idle
<1> QED
    BY ChapterBegins, ChapterSteps, <1>2, <1>3, <1>4, <1>5, PTL DEF Spec, A!Cha!Spec

-----------------------------------------------------------------------------
(* Resources *)

LEMMA ResourceBegins == On("resource") /\ Init => A!Lib!Init
BY DEF On, Init,
        A!Lib!Init, A!Lib!NoRow, A!Lib!Idle, Lib!Init, Lib!NoRow, Lib!Idle

LEMMA ResourceSteps ==
    /\ On("resource") /\ [Next]_<<part, state>> => On("resource")' /\ [A!Lib!Next]_(A!Lib!vars)
    /\ On("resource") /\ [Next]_<<part, state>> /\ UNCHANGED A!Lib!vars => UNCHANGED state
    /\ ~On("resource") /\ [Next]_<<part, state>> => ~On("resource")'
<1>1. A!Lib!Next <=> Lib!Next
    BY DEF
        A!Lib!Next, A!Lib!Write, A!Lib!Fail, A!Lib!BeginPublish, A!Lib!BeginArchive,
        A!Lib!BeginCreate, A!Lib!BeginUpdate, A!Lib!Idle, A!Lib!Written, A!Lib!Busy,
        A!Lib!Enter, A!Lib!NoRow, A!Lib!Titled, A!Lib!Given, A!Lib!SetStatus, Lib!Next,
        Lib!Write, Lib!Fail, Lib!BeginPublish, Lib!BeginArchive, Lib!BeginCreate,
        Lib!BeginUpdate, Lib!Idle, Lib!Written, Lib!Busy, Lib!Enter, Lib!NoRow, Lib!Titled,
        Lib!Given, Lib!SetStatus
<1>2. CASE UNCHANGED <<part, state>>
    BY <1>2 DEF On, state, from4, from6, from7, from9, from11, from12, from13, A!Lib!vars
<1>3. CASE Next
    BY <1>1, <1>3 DEF On, Next, state, from4, from6, from7, from9, from11, from12, from13,
        A!Lib!vars
<1> QED
    BY <1>2, <1>3

LEMMA ResourceHolds ==
    Spec => [](part = "resource" =>
          Lib!TypeOK /\ Lib!PublishedApproved)
<1>1. A!Lib!NoneIsNothing
    BY ConstantsFit DEF A!Lib!NoneIsNothing, Lib!NoneIsNothing
<1>2. A!Lib!Spec => []A!Lib!TypeOK
    BY <1>1, A!ResourcesTyped
<1>3. A!Lib!Spec => []A!Lib!PublishedApproved
    BY <1>1, A!StudentsSeeApproved
<1>4. (On("resource") => A!Lib!TypeOK /\ A!Lib!PublishedApproved) =>
      (part = "resource" =>
          Lib!TypeOK /\ Lib!PublishedApproved)
    BY DEF On,
        A!Lib!TypeOK, A!Lib!PublishedApproved, A!Lib!NoRow, A!Lib!ResourceRow, Lib!TypeOK,
        Lib!PublishedApproved, Lib!NoRow, Lib!ResourceRow
<1> QED
    BY ResourceBegins, ResourceSteps, <1>2, <1>3, <1>4, PTL DEF Spec, A!Lib!Spec

LEMMA ResourceGoes ==
    Spec => [][part = "resource" =>
          Lib!ArchivedStays /\ Lib!TitlesDistinct]_state
<1>1. A!Lib!NoneIsNothing
    BY ConstantsFit DEF A!Lib!NoneIsNothing, Lib!NoneIsNothing
<1>2. A!Lib!Spec => [][A!Lib!ArchivedStays]_(A!Lib!vars)
    BY <1>1, A!ArchivedForGood
<1>3. A!Lib!Spec => [][A!Lib!TitlesDistinct]_(A!Lib!vars)
    BY <1>1, A!TopicTitlesDistinct
<1>4. A!Lib!ArchivedStays /\ A!Lib!TitlesDistinct =>
          Lib!ArchivedStays /\ Lib!TitlesDistinct
    BY DEF
        A!Lib!ArchivedStays, A!Lib!TitlesDistinct, A!Lib!Idle, Lib!ArchivedStays,
        Lib!TitlesDistinct, Lib!Idle
<1>5. /\ On("resource") /\ [Next]_<<part, state>>
      /\ [A!Lib!ArchivedStays]_(A!Lib!vars) /\ [A!Lib!TitlesDistinct]_(A!Lib!vars)
      => [part = "resource" =>
          Lib!ArchivedStays /\ Lib!TitlesDistinct]_state
    BY <1>4, ResourceSteps
<1>6. ~On("resource") =>
      [part = "resource" =>
          Lib!ArchivedStays /\ Lib!TitlesDistinct]_state
    BY DEF On
<1> QED
    BY ResourceBegins, ResourceSteps, <1>2, <1>3, <1>5, <1>6, PTL DEF Spec, A!Lib!Spec

-----------------------------------------------------------------------------
(* Tool runs *)

LEMMA ToolRunBegins == On("process") /\ EndingsInit => A!Run!Init
BY DEF On, EndingsInit,
        A!Run!Init, A!Run!Child, A!Run!Exit, Run!Init, Run!Child, Run!Exit

LEMMA ToolRunSteps ==
    /\ On("process") /\ [EndingsNext]_<<part, state>> => On("process")' /\ [A!Run!Next]_(A!Run!vars)
    /\ ~On("process") /\ [EndingsNext]_<<part, state>> => ~On("process")'
<1>1. A!Run!Next <=> Run!Next
    BY DEF
        A!Run!Next, A!Run!SpawnThrows, A!Run!Spawn, A!Run!ChildExits, A!Run!HeirEnds,
        A!Run!Data, A!Run!Timeout, A!Run!ForceKill, A!Run!ErrorEvent, A!Run!Close,
        A!Run!Finish, A!Run!Outcome, A!Run!Exit, A!Run!Push, A!Run!Send, Run!Next,
        Run!SpawnThrows, Run!Spawn, Run!ChildExits, Run!HeirEnds, Run!Data, Run!Timeout,
        Run!ForceKill, Run!ErrorEvent, Run!Close, Run!Finish, Run!Outcome, Run!Exit,
        Run!Push, Run!Send
<1>2. CASE UNCHANGED <<part, state>>
    BY <1>2 DEF On, state, from4, from6, from7, from9, A!Run!vars
<1>3. CASE EndingsNext
    BY <1>1, <1>3 DEF On, EndingsNext
<1> QED
    BY <1>2, <1>3

\* What a tool run reports of its child is what became of it, and its output is all there
\* unless marked truncated, for any bounds and without the fairness of MCEndings
\* (opencode-process.ts, OpenCodeProcess.run and BoundedBuffer).
THEOREM ToolRunsTruthful == EndingsSpec => []ToolRunTruthful
<1>1. A!Run!Bounds
    BY BoundsFit DEF A!Run!Bounds, Run!Bounds
<1>2. A!Run!Spec => [](A!Run!TypeOK /\ A!Run!OutcomeTruthful /\ A!Run!CaptureBounded)
    BY <1>1, A!RunTyped, A!OutcomesTruthful, A!CaptureTruthful, PTL
<1>3. (On("process") => A!Run!TypeOK /\ A!Run!OutcomeTruthful /\ A!Run!CaptureBounded) => ToolRunTruthful
    BY DEF On, ToolRunTruthful,
        A!Run!TypeOK, A!Run!OutcomeTruthful, A!Run!CaptureBounded, A!Run!Child, A!Run!Exit,
        Run!TypeOK, Run!OutcomeTruthful, Run!CaptureBounded, Run!Child, Run!Exit
<1>4. EndingsSpec => EndingsInit /\ [][EndingsNext]_<<part, state>>
    BY DEF EndingsSpec
<1> QED
    BY ToolRunBegins, ToolRunSteps, <1>2, <1>3, <1>4, PTL DEF A!Run!Spec

-----------------------------------------------------------------------------
(* What the run of MCAdministration checks, for any values of its constants. *)

\* Every variable of a component keeps its type.
THEOREM AdministrationTyped == Spec => []TypeOK
<1>1. /\ part = "session" => Sess!TypeOK /\ Sess!OneLivePerFamily /\ Sess!Succession /\ Sess!StoredIsLive
      /\ part = "school" => Sch!TypeOK /\ Sch!LinksSeenFromBothEnds /\ Sch!OneClassTeacher
                            /\ Sch!TaughtIsMapped
      /\ part = "enrolment" => Enr!TypeOK /\ Enr!OncePerNamedYear /\ Enr!NoHalfAccounts
                               /\ Enr!SelectionBelongs /\ Enr!CurrentIsListed /\ Enr!UsesCounted
                               /\ Enr!LimitHolds
      /\ part = "syllabus" => Syl!TypeOK /\ Syl!OneAuthoritative /\ Syl!CodesDistinct
      /\ part = "dataset" => Ref!TypeOK /\ Ref!CopiesOfPublished
      /\ part = "chapter" => Cha!TypeOK /\ Cha!TitlesDistinct /\ Cha!ChaptersHaveSubject
      /\ part = "resource" => Lib!TypeOK /\ Lib!PublishedApproved
      => TypeOK
    BY DEF TypeOK
<1> QED
    BY <1>1, SessionHolds, SchoolHolds, EnrolmentHolds, SyllabusHolds, DatasetHolds, ChapterHolds,
       ResourceHolds, PTL

\* Refresh tokens rotate forward inside their family, with one live token in it that the
\* browser keeps, whatever fails or overlaps (server.ts, refresh and logout; client.ts).
THEOREM SessionsAlwaysRotate == Spec => []SessionsRotate
<1>1. (part = "session" => Sess!TypeOK /\ Sess!OneLivePerFamily /\ Sess!Succession /\ Sess!StoredIsLive)
      => SessionsRotate
    BY DEF SessionsRotate
<1> QED
    BY <1>1, SessionHolds, PTL

\* Links, class teachers and subjects of a school agree from both their ends; accounts,
\* enrolments and the uses of invitations add up (server.ts; auth/register.ts).
THEOREM SchoolAlwaysConsistent == Spec => []SchoolConsistent
<1>1. /\ part = "school" => Sch!TypeOK /\ Sch!LinksSeenFromBothEnds /\ Sch!OneClassTeacher
                            /\ Sch!TaughtIsMapped
      /\ part = "enrolment" => Enr!TypeOK /\ Enr!OncePerNamedYear /\ Enr!NoHalfAccounts
                               /\ Enr!SelectionBelongs /\ Enr!CurrentIsListed /\ Enr!UsesCounted
                               /\ Enr!LimitHolds
      => SchoolConsistent
    BY DEF SchoolConsistent
<1> QED
    BY <1>1, SchoolHolds, EnrolmentHolds, PTL

\* One authoritative syllabus, codes and titles of their own, faithful copies, and students
\* who see what was approved (curriculum and learning-resources).
THEOREM CurriculumAlwaysSound == Spec => []CurriculumSound
<1>1. /\ part = "syllabus" => Syl!TypeOK /\ Syl!OneAuthoritative /\ Syl!CodesDistinct
      /\ part = "dataset" => Ref!TypeOK /\ Ref!CopiesOfPublished
      /\ part = "chapter" => Cha!TypeOK /\ Cha!TitlesDistinct /\ Cha!ChaptersHaveSubject
      /\ part = "resource" => Lib!TypeOK /\ Lib!PublishedApproved
      => CurriculumSound
    BY DEF CurriculumSound
<1> QED
    BY <1>1, SyllabusHolds, DatasetHolds, ChapterHolds, ResourceHolds, PTL

\* A session that is over stays over, signing out ends it, and no tab is signed out while its
\* session is good (server.ts, refresh and logout; client.ts, request).
THEOREM SessionsAlwaysEnd == Spec => SessionsEnd
BY SessionGoes, PTL DEF SessionsEnd

\* What was settled is undone only by requests that overlapped: class teachers, withdrawn
\* invitations, designations, published reference data, archived resources and titles.
THEOREM SettledAlways == Spec => SettledStays
<1>1. /\ [part = "school" => Sch!DesignationsRemembered]_state
      /\ [part = "enrolment" => Enr!WithdrawnAdmitsNobody]_state
      /\ [part = "syllabus" => Syl!DesignationKept /\ Syl!DesignatedWhileActive]_state
      /\ [part = "dataset" => Ref!PublishedKept]_state
      /\ [part = "resource" => Lib!ArchivedStays /\ Lib!TitlesDistinct]_state
      => [ /\ part = "school" => Sch!DesignationsRemembered
           /\ part = "enrolment" => Enr!WithdrawnAdmitsNobody
           /\ part = "syllabus" => Syl!DesignationKept /\ Syl!DesignatedWhileActive
           /\ part = "dataset" => Ref!PublishedKept
           /\ part = "resource" => Lib!ArchivedStays /\ Lib!TitlesDistinct ]_state
    OBVIOUS
<1> QED
    BY <1>1, SchoolGoes, EnrolmentGoes, SyllabusGoes, DatasetGoes, ResourceGoes,
        PTL DEF SettledStays

-----------------------------------------------------------------------------
(* Academic calendars *)

LEMMA CalendarBegins == On("calendar") /\ StudyInit => A!Cal!Init
BY DEF On, StudyInit,
    A!Cal!Init, A!Cal!Status, A!Cal!Idle, A!Cal!NoInput, Cal!Init, Cal!Status, Cal!Idle,
    Cal!NoInput

LEMMA CalendarSteps ==
    /\ On("calendar") /\ [StudyNext]_<<part, state>> => On("calendar")' /\ [A!Cal!Next]_(A!Cal!vars)
    /\ On("calendar") /\ [StudyNext]_<<part, state>> /\ UNCHANGED A!Cal!vars => UNCHANGED state
    /\ ~On("calendar") /\ [StudyNext]_<<part, state>> => ~On("calendar")'
<1>1. A!Cal!Next <=> Cal!Next
    BY DEF
        A!Cal!Next, A!Cal!BeginStatus, A!Cal!Input, A!Cal!BeginCreate, A!Cal!BeginUpdate,
        A!Cal!BeginDelete, A!Cal!SetStatus, A!Cal!InsertPeriod, A!Cal!UpdatePeriod,
        A!Cal!DeletePeriod, A!Cal!Fail, A!Cal!Schedule, A!Cal!Follows, A!Cal!Enter,
        A!Cal!NoInput, A!Cal!Periods, A!Cal!Outside, A!Cal!Leave, A!Cal!Updated,
        A!Cal!Frozen, A!Cal!Row, A!Cal!Children, A!Cal!Idle, A!Cal!Given, A!Cal!Day,
        Cal!Next, Cal!BeginStatus, Cal!Input, Cal!BeginCreate, Cal!BeginUpdate,
        Cal!BeginDelete, Cal!SetStatus, Cal!InsertPeriod, Cal!UpdatePeriod,
        Cal!DeletePeriod, Cal!Fail, Cal!Schedule, Cal!Follows, Cal!Enter, Cal!NoInput,
        Cal!Periods, Cal!Outside, Cal!Leave, Cal!Updated, Cal!Frozen, Cal!Row, Cal!Children,
        Cal!Idle, Cal!Given, Cal!Day
<1>2. CASE UNCHANGED <<part, state>>
    BY <1>2 DEF On, state, from4, from6, from7, from9, from11, from12, from13,
        A!Cal!vars
<1>3. CASE StudyNext
    BY <1>1, <1>3 DEF On, StudyNext, state, from4, from6, from7, from9, from11, from12, from13,
        A!Cal!vars
<1> QED
    BY <1>2, <1>3

LEMMA CalendarHolds ==
    StudySpec => [](part = "calendar" => Cal!TypeOK /\ Cal!PeriodsHeld /\ Cal!EventsOnPublished)
<1>1. A!Cal!NoneIsNothing /\ A!Cal!DayBound
    BY StudyFits DEF
        A!Cal!NoneIsNothing, A!Cal!DayBound, A!Cal!Row, A!Cal!Day, Cal!NoneIsNothing,
        Cal!DayBound, Cal!Row, Cal!Day
<1>2. A!Cal!Spec => []A!Booked
    BY <1>1, A!CalendarBooked
<1>3. A!Cal!TypeOK => Cal!TypeOK
  <2>1. A!Cal!Row = Cal!Row /\ A!Cal!Events = Cal!Events /\ A!Cal!Status = Cal!Status
      BY DEF A!Cal!Row, A!Cal!Day, A!Cal!Events, A!Cal!Status,
             Cal!Row, Cal!Day, Cal!Events, Cal!Status
  <2>2. A!Cal!Input = Cal!Input
      BY DEF A!Cal!Input, Cal!Input
  <2> QED
      BY <2>1, <2>2 DEF A!Cal!TypeOK, Cal!TypeOK
<1>4. (On("calendar") => A!Booked)
      => (part = "calendar" => Cal!TypeOK /\ Cal!PeriodsHeld /\ Cal!EventsOnPublished)
    BY <1>3 DEF On, A!Booked,
        A!Cal!PeriodsHeld, A!Cal!EventsOnPublished, A!Cal!Periods, Cal!PeriodsHeld,
        Cal!EventsOnPublished, Cal!Periods
<1> QED
    BY CalendarBegins, CalendarSteps, <1>2, <1>4, PTL DEF StudySpec, A!Cal!Spec

LEMMA CalendarGoes ==
    StudySpec => [][part = "calendar" => Cal!ReferenceKept /\ Cal!ReferenceForward]_state
<1>1. A!Cal!NoneIsNothing /\ A!Cal!DayBound
    BY StudyFits DEF
        A!Cal!NoneIsNothing, A!Cal!DayBound, A!Cal!Row, A!Cal!Day, Cal!NoneIsNothing,
        Cal!DayBound, Cal!Row, Cal!Day
<1>2. A!Cal!Spec => [][A!Cal!ReferenceKept /\ A!Cal!ReferenceForward]_(A!Cal!vars)
    BY <1>1, A!ReferenceStays
<1>3. A!Cal!ReferenceKept /\ A!Cal!ReferenceForward => Cal!ReferenceKept /\ Cal!ReferenceForward
    BY DEF
        A!Cal!ReferenceKept, A!Cal!ReferenceForward, A!Cal!Frozen, A!Cal!Periods,
        Cal!ReferenceKept, Cal!ReferenceForward, Cal!Frozen, Cal!Periods
<1>4. On("calendar") /\ [StudyNext]_<<part, state>> /\ [A!Cal!ReferenceKept /\ A!Cal!ReferenceForward]_(A!Cal!vars)
      => [part = "calendar" => Cal!ReferenceKept /\ Cal!ReferenceForward]_state
    BY <1>3, CalendarSteps
<1>5. ~On("calendar") => [part = "calendar" => Cal!ReferenceKept /\ Cal!ReferenceForward]_state
    BY DEF On
<1> QED
    BY CalendarBegins, CalendarSteps, <1>2, <1>4, <1>5, PTL DEF StudySpec, A!Cal!Spec

-----------------------------------------------------------------------------
(* Assignments *)

LEMMA AssignmentBegins == On("assignment") /\ StudyInit => A!Ass!Init
BY DEF On, StudyInit,
    A!Ass!Init, A!Ass!NoRow, A!Ass!NoDraft, Ass!Init, Ass!NoRow, Ass!NoDraft

LEMMA AssignmentSteps ==
    /\ On("assignment") /\ [StudyNext]_<<part, state>> => On("assignment")' /\ [A!Ass!Next]_(A!Ass!vars)
    /\ On("assignment") /\ [StudyNext]_<<part, state>> /\ UNCHANGED A!Ass!vars => UNCHANGED state
    /\ ~On("assignment") /\ [StudyNext]_<<part, state>> => ~On("assignment")'
<1>1. A!Ass!Next <=> Ass!Next
    BY DEF
        A!Ass!Next, A!Ass!MapSubject, A!Ass!UnmapSubject, A!Ass!Enrol, A!Ass!PassDeadline,
        A!Ass!Publish, A!Ass!OpenIt, A!Ass!Close, A!Ass!Deadline, A!Ass!BeginCreate,
        A!Ass!BeginUpdate, A!Ass!Create, A!Ass!Update, A!Ass!WriteFails, A!Ass!Submit,
        A!Ass!Decision, A!Ass!Decide, A!Ass!Move, A!Ass!NoRow, A!Ass!Open, A!Ass!NoDraft,
        A!Ass!Written, A!Ass!Insert, A!Ass!SetDecision, A!Ass!Submitted, Ass!Next,
        Ass!MapSubject, Ass!UnmapSubject, Ass!Enrol, Ass!PassDeadline, Ass!Publish,
        Ass!OpenIt, Ass!Close, Ass!Deadline, Ass!BeginCreate, Ass!BeginUpdate, Ass!Create,
        Ass!Update, Ass!WriteFails, Ass!Submit, Ass!Decision, Ass!Decide, Ass!Move,
        Ass!NoRow, Ass!Open, Ass!NoDraft, Ass!Written, Ass!Insert, Ass!SetDecision,
        Ass!Submitted
<1>2. CASE UNCHANGED <<part, state>>
    BY <1>2 DEF On, state, from4, from6, from7, from9, from11, from12, from13,
        A!Ass!vars
<1>3. CASE StudyNext
    BY <1>1, <1>3 DEF On, StudyNext, state, from4, from6, from7, from9, from11, from12, from13,
        A!Ass!vars
<1> QED
    BY <1>2, <1>3

LEMMA AssignmentHolds ==
    StudySpec => [](part = "assignment" => Ass!TypeOK /\ Ass!WorkBelongs /\ Ass!SubjectMapped)
<1>1. A!Ass!NoneIsNothing
    BY StudyFits DEF
        A!Ass!NoneIsNothing, A!Ass!Status, A!Ass!Decision, Ass!NoneIsNothing, Ass!Status,
        Ass!Decision
<1>2. A!Ass!Spec => []A!HandedIn
    BY <1>1, A!WorkHandedIn
<1>3. A!Ass!TypeOK => Ass!TypeOK
    BY DEF
        A!Ass!TypeOK, A!Ass!NoRow, A!Ass!AssignmentRow, A!Ass!Status, A!Ass!Decision,
        A!Ass!Deadline, Ass!TypeOK, Ass!NoRow, Ass!AssignmentRow, Ass!Status,
        Ass!Decision, Ass!Deadline
<1>4. (On("assignment") => A!HandedIn)
      => (part = "assignment" => Ass!TypeOK /\ Ass!WorkBelongs /\ Ass!SubjectMapped)
    BY <1>3 DEF On, A!HandedIn,
        A!Ass!WorkBelongs, A!Ass!SubjectMapped, A!Ass!Submitted, A!Ass!Completed,
        A!Ass!Shown, A!Ass!NoRow, A!Ass!Asks, Ass!WorkBelongs, Ass!SubjectMapped,
        Ass!Submitted, Ass!Completed, Ass!Shown, Ass!NoRow, Ass!Asks
<1> QED
    BY AssignmentBegins, AssignmentSteps, <1>2, <1>4, PTL DEF StudySpec, A!Ass!Spec

LEMMA AssignmentGoes ==
    StudySpec => [][part = "assignment" => Ass!WorkKept /\ Ass!EditsSettle]_state
<1>1. A!Ass!NoneIsNothing
    BY StudyFits DEF
        A!Ass!NoneIsNothing, A!Ass!Status, A!Ass!Decision, Ass!NoneIsNothing, Ass!Status,
        Ass!Decision
<1>2. A!Ass!Spec => [][A!Ass!WorkKept /\ A!Ass!EditsSettle]_(A!Ass!vars)
    BY <1>1, A!WorkStays
<1>3. A!Ass!WorkKept /\ A!Ass!EditsSettle => Ass!WorkKept /\ Ass!EditsSettle
    BY DEF
        A!Ass!WorkKept, A!Ass!EditsSettle, A!Ass!Submitted, A!Ass!Decision, A!Ass!NoDraft,
        Ass!WorkKept, Ass!EditsSettle, Ass!Submitted, Ass!Decision, Ass!NoDraft
<1>4. On("assignment") /\ [StudyNext]_<<part, state>> /\ [A!Ass!WorkKept /\ A!Ass!EditsSettle]_(A!Ass!vars)
      => [part = "assignment" => Ass!WorkKept /\ Ass!EditsSettle]_state
    BY <1>3, AssignmentSteps
<1>5. ~On("assignment") => [part = "assignment" => Ass!WorkKept /\ Ass!EditsSettle]_state
    BY DEF On
<1> QED
    BY AssignmentBegins, AssignmentSteps, <1>2, <1>4, <1>5, PTL DEF StudySpec, A!Ass!Spec

-----------------------------------------------------------------------------
(* Homework on time *)

LEMMA HomeworkBegins == On("homework") /\ StudyInit => A!Tim!Init
BY DEF On, StudyInit,
    A!Tim!Init, A!Tim!NoRow, A!Tim!Idle, Tim!Init, Tim!NoRow, Tim!Idle

LEMMA HomeworkSteps ==
    /\ On("homework") /\ [StudyNext]_<<part, state>> => On("homework")' /\ [A!Tim!Next]_(A!Tim!vars)
    /\ On("homework") /\ [StudyNext]_<<part, state>> /\ UNCHANGED A!Tim!vars => UNCHANGED state
    /\ ~On("homework") /\ [StudyNext]_<<part, state>> => ~On("homework")'
<1>1. A!Tim!Next <=> Tim!Next
    BY DEF
        A!Tim!Next, A!Tim!CloseAssignment, A!Tim!HandIn, A!Tim!Due, A!Tim!OpenAssignment,
        A!Tim!Enrol, A!Tim!EndEnrolment, A!Tim!Assign, A!Tim!CheckAssigned, A!Tim!Tick,
        A!Tim!Ask, A!Tim!ReadScope, A!Tim!Refuse, A!Tim!ReadRows, A!Tim!Classify,
        A!Tim!Changed, A!Tim!Time, A!Tim!NoRow, A!Tim!Goes, A!Tim!Idle, A!Tim!Handed,
        A!Tim!around, A!Tim!HomeworkRows, A!Tim!StateOf, A!Tim!Cardinality, Tim!Next,
        Tim!CloseAssignment, Tim!HandIn, Tim!Due, Tim!OpenAssignment, Tim!Enrol,
        Tim!EndEnrolment, Tim!Assign, Tim!CheckAssigned, Tim!Tick, Tim!Ask, Tim!ReadScope,
        Tim!Refuse, Tim!ReadRows, Tim!Classify, Tim!Changed, Tim!Time, Tim!NoRow, Tim!Goes,
        Tim!Idle, Tim!Handed, Tim!around, Tim!HomeworkRows, Tim!StateOf, Tim!Cardinality
<1>2. CASE UNCHANGED <<part, state>>
    BY <1>2 DEF On, state, from4, from6, from7, from9, from11, from12, from13,
        A!Tim!vars, A!Tim!around
<1>3. CASE StudyNext
    BY <1>1, <1>3 DEF On, StudyNext, state, from4, from6, from7, from9, from11, from12, from13,
        A!Tim!vars, A!Tim!around
<1> QED
    BY <1>2, <1>3

LEMMA HomeworkHolds ==
    StudySpec => [](part = "homework" => Tim!TypeOK /\ Tim!CountsTruthful)
<1>1. A!Tim!NoneIsNothing /\ A!Tim!ClockBound /\ A!Tim!Finite
    BY StudyFits DEF
        A!Tim!NoneIsNothing, A!Tim!ClockBound, A!Tim!Finite, A!Tim!IsFiniteSet,
        Tim!NoneIsNothing, Tim!ClockBound, Tim!Finite, Tim!IsFiniteSet
<1>2. A!Tim!Spec => []A!Told
    BY <1>1, A!HomeworkTold
<1>3. A!Tim!TypeOK => Tim!TypeOK
    BY DEF
        A!Tim!TypeOK, A!Tim!NoRow, A!Tim!Due, A!Tim!Time, A!Tim!Cardinality, Tim!TypeOK,
        Tim!NoRow, Tim!Due, Tim!Time, Tim!Cardinality
<1>4. (On("homework") => A!Told) => (part = "homework" => Tim!TypeOK /\ Tim!CountsTruthful)
    BY <1>3 DEF On, A!Told,
        A!Tim!CountsTruthful, A!Tim!Handed, A!Tim!NoRow, A!Tim!Cardinality,
        Tim!CountsTruthful, Tim!Handed, Tim!NoRow, Tim!Cardinality
<1> QED
    BY HomeworkBegins, HomeworkSteps, <1>2, <1>4, PTL DEF StudySpec, A!Tim!Spec

LEMMA HomeworkGoes ==
    StudySpec => [][part = "homework" => Tim!CountsComplete]_state
<1>1. A!Tim!NoneIsNothing /\ A!Tim!ClockBound /\ A!Tim!Finite
    BY StudyFits DEF
        A!Tim!NoneIsNothing, A!Tim!ClockBound, A!Tim!Finite, A!Tim!IsFiniteSet,
        Tim!NoneIsNothing, Tim!ClockBound, Tim!Finite, Tim!IsFiniteSet
<1>2. A!Tim!Spec => [][A!Tim!CountsComplete]_(A!Tim!vars)
    BY <1>1, A!HomeworkComplete
<1>3. A!Tim!CountsComplete => Tim!CountsComplete
    BY DEF
        A!Tim!CountsComplete, A!Tim!Classify, A!Tim!HomeworkRows, A!Tim!Handed,
        A!Tim!StateOf, A!Tim!Idle, A!Tim!around, A!Tim!Cardinality, Tim!CountsComplete,
        Tim!Classify, Tim!HomeworkRows, Tim!Handed, Tim!StateOf, Tim!Idle, Tim!around,
        Tim!Cardinality
<1>4. On("homework") /\ [StudyNext]_<<part, state>> /\ [A!Tim!CountsComplete]_(A!Tim!vars)
      => [part = "homework" => Tim!CountsComplete]_state
    BY <1>3, HomeworkSteps
<1>5. ~On("homework") => [part = "homework" => Tim!CountsComplete]_state
    BY DEF On
<1> QED
    BY HomeworkBegins, HomeworkSteps, <1>2, <1>4, <1>5, PTL DEF StudySpec, A!Tim!Spec

-----------------------------------------------------------------------------
(* Progress *)

\* The constants meet what the modules of M assume of theirs: a paper of one question, as in a
\* practice, and no attempt.
LEMMA MarkOk ==
    /\ None \notin M!Op \cup M!Stage \cup {"IN_PROGRESS", "SUBMITTED"}
    /\ Handler \cap {} = {} /\ None \notin {} \cup {} /\ 0 \in Nat
    /\ \A p \in M!Paper, s \in M!Sheet : M!Evaluation(p, s) # None
    /\ None \notin M!Row /\ Gone \notin M!Row /\ Gone # None
    /\ {{"x", "y"}} \subseteq SUBSET {"x", "y"}
    /\ {} \notin {{"x", "y"}}
    /\ {1} \subseteq Nat /\ 0 \in Nat /\ None \notin {"x", "y"}
<1>1. /\ M!Paper = Pra!Paper /\ M!Sheet = Pra!Sheet
      /\ \A p, s : M!Evaluation(p, s) = Pra!Evaluation(p, s)
  <2>1. \A p, qs : M!MarksOf(p, qs) = Pra!MarksOf(p, qs)
      BY DEF M!MarksOf, M!MapThenSumSet, M!MapThenFoldSet,
             Pra!MarksOf, Pra!MapThenSumSet, Pra!MapThenFoldSet
  <2> QED
      BY <2>1 DEF M!Paper, M!Row, M!Sheet, Pra!Paper, Pra!Row, Pra!Sheet,
          M!Evaluation, M!Asked, M!Right, M!Blank, M!Row, M!Cardinality,
          Pra!Evaluation, Pra!Asked, Pra!Right, Pra!Blank, Pra!Row, Pra!Cardinality
<1>2. \A p \in M!Paper, s \in M!Sheet : M!Evaluation(p, s) # None
    BY <1>1, StudyFits DEF Pra!NullIsNoResult
<1>3. None \notin M!Op \cup M!Stage \cup {"IN_PROGRESS", "SUBMITTED"}
    BY StudyFits DEF M!Op, M!Stage, Word
<1>4. /\ None \notin M!Row /\ Gone \notin M!Row /\ Gone # None
      /\ None \notin {"x", "y"}
    BY StudyFits DEF M!Row, Pra!NullIsNoRow, Pra!Row, Pra!PaperAssumption
<1>5. /\ Handler \cap {} = {} /\ None \notin {} \cup {}
      /\ {{"x", "y"}} \subseteq SUBSET {"x", "y"}
      /\ {} \notin {{"x", "y"}}
      /\ {1} \subseteq Nat /\ 0 \in Nat
    OBVIOUS
<1> QED
    BY <1>2, <1>3, <1>4, <1>5

\* The sums of the two instances are the same sums.
LEMMA ProgressSums ==
    /\ \A t, as : M!Pro!Performance(t, as) = Pro!Performance(t, as)
    /\ \A t, as : M!Pro!Responses(t, as) = Pro!Responses(t, as)
<1>1. ASSUME NEW t, NEW as PROVE M!Pro!Performance(t, as) = Pro!Performance(t, as)
    BY DEF
        M!Pro!Performance, M!Pro!Answered, M!Pro!Round2, M!Pro!MapThenSumSet,
        M!Pro!MapThenFoldSet, M!Pro!Cardinality, Pro!Performance, Pro!Answered, Pro!Round2,
        Pro!MapThenSumSet, Pro!MapThenFoldSet, Pro!Cardinality
<1>2. ASSUME NEW t, NEW as PROVE M!Pro!Responses(t, as) = Pro!Responses(t, as)
    BY DEF
        M!Pro!Responses, M!Pro!Answered, M!Pro!MapThenSumSet, M!Pro!MapThenFoldSet,
        M!Pro!Cardinality, Pro!Responses, Pro!Answered, Pro!MapThenSumSet, Pro!MapThenFoldSet,
        Pro!Cardinality
<1> QED
    BY <1>1, <1>2

LEMMA ProgressSays == \A s, t, u : M!Pro!Says(s, t, u) = Pro!Says(s, t, u)
BY ProgressSums DEF
    M!Pro!Says, M!Pro!Coverage, M!Pro!BuildUnfinished, M!Pro!Weak, M!Pro!Strong,
    M!Pro!Repeated, M!Pro!Results, M!Pro!BuildProgress, M!Pro!Available, M!Pro!Completed,
    M!Pro!Evidence, M!Pro!Mistakes, M!Pro!OfPractice, M!Pro!OfEvent, M!Pro!Answered,
    M!Pro!Round2, M!Pro!Submitted, M!Pro!Cardinality, Pro!Says, Pro!Coverage,
    Pro!BuildUnfinished, Pro!Weak, Pro!Strong, Pro!Repeated, Pro!Results, Pro!BuildProgress,
    Pro!Available, Pro!Completed, Pro!Evidence, Pro!Mistakes, Pro!OfPractice, Pro!OfEvent,
    Pro!Answered, Pro!Round2, Pro!Submitted, Pro!Cardinality

LEMMA ProgressBegins == On("progress") /\ StudyInit => M!Pro!Init
BY DEF On, StudyInit,
    M!Pro!Init, M!Pro!Blank, M!Pro!Section, Pro!Init, Pro!Blank, Pro!Section

LEMMA ProgressSteps ==
    /\ On("progress") /\ [StudyNext]_<<part, state>> => On("progress")' /\ [M!Pro!Next]_(M!Pro!vars)
    /\ On("progress") /\ [StudyNext]_<<part, state>> /\ UNCHANGED M!Pro!vars => UNCHANGED state
    /\ ~On("progress") /\ [StudyNext]_<<part, state>> => ~On("progress")'
<1>1. M!Pro!Next <=> Pro!Next
    <2>1. M!Pro!Answer <=> Pro!Answer
        BY ProgressSays DEF M!Pro!Answer, M!Pro!tables, M!Pro!Section, Pro!Answer, Pro!tables,
            Pro!Section
    <2>2. ASSUME NEW p, NEW to PROVE M!Pro!PracticeMoves(p, to) <=> Pro!PracticeMoves(p, to)
        BY DEF
            M!Pro!PracticeMoves, M!Pro!Observed, M!Pro!Unasked, M!Pro!Now, M!Pro!Section,
            Pro!PracticeMoves, Pro!Observed, Pro!Unasked, Pro!Now, Pro!Section
    <2>3. ASSUME NEW a PROVE M!Pro!HandIn(a) <=> Pro!HandIn(a)
        BY DEF
            M!Pro!HandIn, M!Pro!Observed, M!Pro!Unasked, M!Pro!Now, M!Pro!Section,
            Pro!HandIn, Pro!Observed, Pro!Unasked, Pro!Now, Pro!Section
    <2>4. ASSUME NEW a, NEW w, NEW h PROVE M!Pro!WorkOn(a, w, h) <=> Pro!WorkOn(a, w, h)
        BY DEF
            M!Pro!WorkOn, M!Pro!Blank, M!Pro!Observed, M!Pro!Unasked, M!Pro!Now,
            M!Pro!Section, Pro!WorkOn, Pro!Blank, Pro!Observed, Pro!Unasked, Pro!Now,
            Pro!Section
    <2>6. ASSUME NEW a, NEW h PROVE M!Pro!Save(a, h) <=> Pro!Save(a, h)
        BY DEF
            M!Pro!Save, M!Pro!Blank, M!Pro!Answered, M!Pro!Observed, M!Pro!Unasked, M!Pro!Now,
            M!Pro!Section, Pro!Save, Pro!Blank, Pro!Answered, Pro!Observed, Pro!Unasked, Pro!Now,
            Pro!Section
    <2>7. ASSUME NEW w, NEW new PROVE M!Pro!EditKeys(w, new) <=> Pro!EditKeys(w, new)
        BY DEF
            M!Pro!EditKeys, M!Pro!Answered, M!Pro!Observed, M!Pro!Unasked, M!Pro!Now,
            M!Pro!Section, Pro!EditKeys, Pro!Answered, Pro!Observed, Pro!Unasked, Pro!Now,
            Pro!Section
    <2>5. ASSUME NEW sections PROVE M!Pro!Ask(sections) <=> Pro!Ask(sections)
        BY DEF
            M!Pro!Ask, M!Pro!Now, M!Pro!Unasked, M!Pro!tables, M!Pro!Section, Pro!Ask,
            Pro!Now, Pro!Unasked, Pro!tables, Pro!Section
    <2> QED
        BY <2>1, <2>2, <2>3, <2>4, <2>5, <2>6, <2>7 DEF M!Pro!Next, M!Pro!Work, Pro!Next, Pro!Work
<1>2. CASE UNCHANGED <<part, state>>
    BY <1>2 DEF On, state, from4, from6, from7, from9, from11, from12, from13,
        M!Pro!vars, M!Pro!tables
<1>3. CASE StudyNext
    BY <1>1, <1>3 DEF On, StudyNext, state, from4, from6, from7, from9, from11, from12, from13,
        M!Pro!vars, M!Pro!tables
<1> QED
    BY <1>2, <1>3

LEMMA ProgressOk == M!ProgressFits
BY StudyFits DEF M!ProgressFits,
    M!Pro!LooksFit, M!Pro!NoneIsNothing, M!Pro!Finite, M!Pro!NodesHold, M!Pro!AnswersHold,
    M!Pro!Section, M!Pro!Work, M!Pro!IsFiniteSet, Pro!LooksFit, Pro!NoneIsNothing, Pro!Finite,
    Pro!NodesHold, Pro!AnswersHold, Pro!Section, Pro!Work, Pro!IsFiniteSet

LEMMA ProgressHolds ==
    StudySpec => [](part = "progress" => Pro!TypeOK /\ Pro!CoverageTimely /\ Pro!SectionsAgree)
<1>1. M!Pro!Spec => []M!Pro!TypeOK
    BY ProgressOk, MarkOk, M!ProgressTyped
<1>2. M!Pro!Spec => []M!Watched
    BY ProgressOk, MarkOk, M!CoverageWatched DEF M!ProgressFits
<1>3. M!Pro!Spec => []M!Pro!SectionsAgree
    BY ProgressOk, MarkOk, M!SectionsTruly
<1>4. M!Pro!TypeOK => Pro!TypeOK
    BY DEF
        M!Pro!TypeOK, M!Pro!Blank, M!Pro!Work, M!Pro!Section, Pro!TypeOK, Pro!Blank,
        Pro!Work, Pro!Section
<1>5. M!Watched => Pro!CoverageTimely
    BY DEF M!Watched,
        M!Pro!CoverageTimely, M!Pro!Answering, M!Pro!Available, M!Pro!Completed,
        M!Pro!OfPractice, M!Pro!Submitted, Pro!CoverageTimely, Pro!Answering, Pro!Available,
        Pro!Completed, Pro!OfPractice, Pro!Submitted
<1>6. M!Pro!SectionsAgree => Pro!SectionsAgree
    BY DEF
        M!Pro!SectionsAgree, M!Pro!Answering, Pro!SectionsAgree, Pro!Answering
<1>7. (On("progress") => M!Pro!TypeOK /\ M!Watched /\ M!Pro!SectionsAgree)
      => (part = "progress" => Pro!TypeOK /\ Pro!CoverageTimely /\ Pro!SectionsAgree)
    BY <1>4, <1>5, <1>6 DEF On
<1> QED
    BY ProgressBegins, ProgressSteps, <1>1, <1>2, <1>3, <1>7, PTL DEF StudySpec, M!Pro!Spec

LEMMA ProgressGoes ==
    StudySpec => [][part = "progress" => Pro!PastKept]_state
<1>2. M!Pro!Spec => [][M!Pro!PastKept]_(M!Pro!vars)
    BY ProgressOk, MarkOk, M!PastStays DEF M!ProgressFits
<1>3. M!Pro!PastKept => Pro!PastKept
    BY DEF
        M!Pro!PastKept, M!Pro!Repeated, M!Pro!Now, M!Pro!Submitted, M!Pro!Mistakes,
        M!Pro!Cardinality, Pro!PastKept, Pro!Repeated, Pro!Now, Pro!Submitted, Pro!Mistakes,
        Pro!Cardinality
<1>4. On("progress") /\ [StudyNext]_<<part, state>> /\ [M!Pro!PastKept]_(M!Pro!vars)
      => [part = "progress" => Pro!PastKept]_state
    BY <1>3, ProgressSteps
<1>5. ~On("progress") => [part = "progress" => Pro!PastKept]_state
    BY DEF On
<1> QED
    BY ProgressBegins, ProgressSteps, <1>2, <1>4, <1>5, PTL DEF StudySpec, M!Pro!Spec

-----------------------------------------------------------------------------
(* Practices *)

\* The two instances evaluate a sheet alike.
LEMMA PracticeMarks == \A p, s : M!Pra!Evaluation(p, s) = Pra!Evaluation(p, s)
<1>1. ASSUME NEW p, NEW qs PROVE M!Pra!MarksOf(p, qs) = Pra!MarksOf(p, qs)
    BY DEF M!Pra!MarksOf, M!Pra!MapThenSumSet, M!Pra!MapThenFoldSet,
        Pra!MarksOf, Pra!MapThenSumSet, Pra!MapThenFoldSet
<1> QED
    BY <1>1 DEF
        M!Pra!Evaluation, M!Pra!Asked, M!Pra!Right, M!Pra!Blank, M!Pra!Row, M!Pra!Cardinality,
        Pra!Evaluation, Pra!Asked, Pra!Right, Pra!Blank, Pra!Row, Pra!Cardinality

LEMMA PracticeBegins == On("practice") /\ StudyInit => M!Pra!Init
BY DEF On, StudyInit,
    M!Pra!Init, M!Pra!NoTry, M!Pra!Idle, M!Pra!Fresh, M!Pra!BlankPaper, M!Pra!BlankSheet,
    Pra!Init, Pra!NoTry, Pra!Idle, Pra!Fresh, Pra!BlankPaper, Pra!BlankSheet

LEMMA PracticeSteps ==
    /\ On("practice") /\ [StudyNext]_<<part, state>> => On("practice")' /\ [M!Pra!Next]_(M!Pra!vars)
    /\ On("practice") /\ [StudyNext]_<<part, state>> /\ UNCHANGED M!Pra!vars => UNCHANGED state
    /\ ~On("practice") /\ [StudyNext]_<<part, state>> => ~On("practice")'
<1>1. M!Pra!Next <=> Pra!Next
    <2>1. M!Pra!Authoring <=> Pra!Authoring
        BY DEF
            M!Pra!Authoring, M!Pra!PublishPractice, M!Pra!ArchivePractice, M!Pra!OpenDraft,
            M!Pra!RefuseQuestion, M!Pra!AddQuestion, M!Pra!UpdateQuestion,
            M!Pra!DeleteQuestion, M!Pra!rows, M!Pra!history, M!Pra!Written, M!Pra!Read,
            M!Pra!Submitted, M!Pra!Marking, M!Pra!Row, M!Pra!Taken, M!Pra!Asked,
            Pra!Authoring, Pra!PublishPractice, Pra!ArchivePractice, Pra!OpenDraft,
            Pra!RefuseQuestion, Pra!AddQuestion, Pra!UpdateQuestion, Pra!DeleteQuestion,
            Pra!rows, Pra!history, Pra!Written, Pra!Read, Pra!Submitted, Pra!Marking,
            Pra!Row, Pra!Taken, Pra!Asked
    <2>2. ASSUME NEW a PROVE M!Pra!StartAttempt(a) <=> Pra!StartAttempt(a)
        BY DEF
            M!Pra!StartAttempt, M!Pra!OnOffer, M!Pra!authoring, M!Pra!history,
            Pra!StartAttempt, Pra!OnOffer, Pra!authoring, Pra!history
    <2>3. ASSUME NEW a PROVE M!Pra!OpenPage(a) <=> Pra!OpenPage(a)
        BY DEF
            M!Pra!OpenPage, M!Pra!OnOffer, M!Pra!Fresh, M!Pra!Abandon, M!Pra!authoring,
            M!Pra!rows, M!Pra!BlankSheet, Pra!OpenPage, Pra!OnOffer, Pra!Fresh, Pra!Abandon,
            Pra!authoring, Pra!rows, Pra!BlankSheet
    <2>4. ASSUME NEW r PROVE M!Pra!Server(r) <=> Pra!Server(r)
        BY PracticeMarks DEF
            M!Pra!Server, M!Pra!LoadAttempt, M!Pra!ReadQuestions, M!Pra!ApplyAnswer,
            M!Pra!Evaluate, M!Pra!Submit, M!Pra!Hear, M!Pra!authoring, M!Pra!rows,
            M!Pra!history, M!Pra!Submitted, M!Pra!Acknowledge, M!Pra!Idle, M!Pra!Asked,
            M!Pra!Row, M!Pra!Paper, M!Pra!Sheet, Pra!Server, Pra!LoadAttempt,
            Pra!ReadQuestions, Pra!ApplyAnswer, Pra!Evaluate, Pra!Submit, Pra!Hear,
            Pra!authoring, Pra!rows, Pra!history, Pra!Submitted, Pra!Acknowledge, Pra!Idle,
            Pra!Asked, Pra!Row, Pra!Paper, Pra!Sheet
    <2>5. ASSUME NEW r PROVE M!Pra!Fault(r) <=> Pra!Fault(r)
        BY DEF
            M!Pra!Fault, M!Pra!Idle, M!Pra!Hear, M!Pra!authoring, M!Pra!rows, M!Pra!history,
            M!Pra!Acknowledge, Pra!Fault, Pra!Idle, Pra!Hear, Pra!authoring, Pra!rows,
            Pra!history, Pra!Acknowledge
    <2>6. ASSUME NEW r PROVE M!Pra!LoseReply(r) <=> Pra!LoseReply(r)
        BY DEF
            M!Pra!LoseReply, M!Pra!Submitted, M!Pra!history, M!Pra!Hear, M!Pra!authoring,
            M!Pra!Acknowledge, M!Pra!Idle, M!Pra!Asked, M!Pra!Row, Pra!LoseReply,
            Pra!Submitted, Pra!history, Pra!Hear, Pra!authoring, Pra!Acknowledge, Pra!Idle,
            Pra!Asked, Pra!Row
    <2>7. ASSUME NEW r PROVE M!Pra!ConfirmSubmit(r) <=> Pra!ConfirmSubmit(r)
        BY DEF
            M!Pra!ConfirmSubmit, M!Pra!Send, M!Pra!authoring, M!Pra!rows, M!Pra!history,
            M!Pra!Idle, M!Pra!Asked, M!Pra!Row, Pra!ConfirmSubmit, Pra!Send, Pra!authoring,
            Pra!rows, Pra!history, Pra!Idle, Pra!Asked, Pra!Row
    <2>8. ASSUME NEW r, NEW q PROVE M!Pra!RetrySave(r, q) <=> Pra!RetrySave(r, q)
        BY DEF
            M!Pra!RetrySave, M!Pra!Persist, M!Pra!authoring, M!Pra!rows, M!Pra!history,
            M!Pra!Send, M!Pra!Idle, Pra!RetrySave, Pra!Persist, Pra!authoring, Pra!rows,
            Pra!history, Pra!Send, Pra!Idle
    <2>9. ASSUME NEW r, NEW q, NEW o PROVE M!Pra!Select(r, q, o) <=> Pra!Select(r, q, o)
        BY DEF
            M!Pra!Select, M!Pra!Persist, M!Pra!authoring, M!Pra!rows, M!Pra!history,
            M!Pra!Send, M!Pra!Idle, M!Pra!Asked, M!Pra!Row, Pra!Select, Pra!Persist,
            Pra!authoring, Pra!rows, Pra!history, Pra!Send, Pra!Idle, Pra!Asked, Pra!Row
    <2> QED
        BY <2>1, <2>2, <2>3, <2>4, <2>5, <2>6, <2>7, <2>8, <2>9 DEF M!Pra!Next, Pra!Next
<1>2. CASE UNCHANGED <<part, state>>
    BY <1>2 DEF On, state, from4, from6, from7, from9, from11, from12, from13,
        M!Pra!vars, M!Pra!authoring, M!Pra!rows, M!Pra!history
<1>3. CASE StudyNext
    BY <1>1, <1>3 DEF On, StudyNext, state, from4, from6, from7, from9, from11, from12, from13,
        M!Pra!vars, M!Pra!authoring, M!Pra!rows, M!Pra!history
<1> QED
    BY <1>2, <1>3

LEMMA PracticeOk == M!PracticeFits
<1>1. M!Pra!NullIsNoResult
  <2>1. M!Pra!Paper = Pra!Paper /\ M!Pra!Sheet = Pra!Sheet
      BY DEF M!Pra!Paper, M!Pra!Row, M!Pra!Sheet, Pra!Paper, Pra!Row, Pra!Sheet
  <2> QED
      BY <2>1, StudyFits, PracticeMarks DEF M!Pra!NullIsNoResult, Pra!NullIsNoResult
<1> QED
    BY <1>1, StudyFits DEF M!PracticeFits,
        M!Pra!FaultBound, M!Pra!NoneIsNothing, M!Pra!PaperAssumption, M!Pra!NullIsNoRow, M!Pra!Row,
        Pra!FaultBound, Pra!NoneIsNothing, Pra!PaperAssumption, Pra!NullIsNoRow, Pra!Row

\* The sum of what a review awards, and a summary that shows what a review does.
AwardedSum(of) == Pra!MapThenSumSet(LAMBDA q : of[q].awarded, DOMAIN of)
Shows(sum, of) ==
    /\ sum.score = AwardedSum(of)
    /\ sum.correct = Pra!Cardinality({q \in DOMAIN of : of[q].right})
    /\ sum.unanswered = Pra!Cardinality({q \in DOMAIN of : of[q].selected = None})
    /\ sum.incorrect = Pra!Cardinality({q \in DOMAIN of : ~of[q].right /\ of[q].selected # None})

LEMMA AwardedSums == \A of : M!AwardedSum(of) = AwardedSum(of)
BY DEF M!AwardedSum, AwardedSum, M!Pra!MapThenSumSet, M!Pra!MapThenFoldSet,
    Pra!MapThenSumSet, Pra!MapThenFoldSet

LEMMA PracticeHolds ==
    StudySpec => [](part = "practice" =>
        Pra!TypeOK /\ Pra!SavedIsStored /\ Pra!ReviewAgrees /\ Pra!AnswersHaveQuestions)
<1>1. M!Pra!Spec => []M!Pra!TypeOK
    BY PracticeOk, MarkOk, M!PracticesTyped
<1>2. M!Pra!Spec => []M!Pra!SavedIsStored
    BY PracticeOk, MarkOk, M!SavedTruly
<1>3. M!Pra!Spec => []M!Pra!AnswersHaveQuestions
    BY PracticeOk, MarkOk, M!AnswersAsked
<1>4. M!Pra!Spec => []M!Pra!ReviewAgrees
  <2>1. M!IsFiniteSet(Only)
      BY StudyFits DEF M!IsFiniteSet, IsFiniteSet
  <2> QED
      BY <2>1, PracticeOk, MarkOk, M!ReviewedTruly
<1>5. M!Pra!TypeOK => Pra!TypeOK
    BY DEF
        M!Pra!TypeOK, M!Pra!PracticeStatus, M!Pra!Paper, M!Pra!Row, M!Pra!TryStatus,
        M!Pra!Sheet, M!Pra!Choice, M!Pra!SaveState, M!Pra!SubmitState, Pra!TypeOK,
        Pra!PracticeStatus, Pra!Paper, Pra!Row, Pra!TryStatus, Pra!Sheet, Pra!Choice,
        Pra!SaveState, Pra!SubmitState
<1>6. M!Pra!SavedIsStored /\ M!Pra!AnswersHaveQuestions => Pra!SavedIsStored /\ Pra!AnswersHaveQuestions
    BY DEF
        M!Pra!SavedIsStored, M!Pra!AnswersHaveQuestions, M!Pra!Asked, M!Pra!Row,
        Pra!SavedIsStored, Pra!AnswersHaveQuestions, Pra!Asked, Pra!Row
<1>7. M!Pra!ReviewAgrees => Pra!ReviewAgrees
  <2>1. M!Pra!Submitted = Pra!Submitted /\ \A a : M!Pra!ResultView(a) = Pra!ResultView(a)
      BY DEF M!Pra!ResultView, M!Pra!Review, M!Pra!Asked, M!Pra!Row, M!Pra!Submitted,
             Pra!ResultView, Pra!Review, Pra!Asked, Pra!Row, Pra!Submitted
  <2>2. M!Pra!ReviewAgrees =>
          \A a \in M!Pra!Submitted \ v9 : M!Shows(M!Pra!ResultView(a).summary, M!Pra!ResultView(a).review)
      BY DEF M!Pra!ReviewAgrees, M!Shows, M!AwardedSum
  <2>3. (\A a \in Pra!Submitted \ v9 : Shows(Pra!ResultView(a).summary, Pra!ResultView(a).review))
        => Pra!ReviewAgrees
      BY DEF Pra!ReviewAgrees, Shows, AwardedSum
  <2>4. \A sum, of : M!Shows(sum, of) <=> Shows(sum, of)
      BY AwardedSums DEF M!Shows, Shows, M!Pra!Cardinality, Pra!Cardinality
  <2> QED
      BY <2>1, <2>2, <2>3, <2>4
<1>8. (On("practice") => /\ M!Pra!TypeOK /\ M!Pra!SavedIsStored /\ M!Pra!AnswersHaveQuestions
                         /\ M!Pra!ReviewAgrees)
      => (part = "practice" =>
            Pra!TypeOK /\ Pra!SavedIsStored /\ Pra!ReviewAgrees /\ Pra!AnswersHaveQuestions)
    BY <1>5, <1>6, <1>7 DEF On
<1> QED
    BY PracticeBegins, PracticeSteps, <1>1, <1>2, <1>3, <1>4, <1>8, PTL DEF StudySpec, M!Pra!Spec

LEMMA PracticeGoes ==
    StudySpec => [][part = "practice" => Pra!ResultKept /\ Pra!PaperSettles]_state
<1>2. M!Pra!Spec => [][M!Pra!ResultKept /\ M!Pra!PaperSettles]_(M!Pra!vars)
    BY PracticeOk, MarkOk, M!PracticeStays DEF M!PracticeFits
<1>3. M!Pra!ResultKept /\ M!Pra!PaperSettles => Pra!ResultKept /\ Pra!PaperSettles
    BY DEF
        M!Pra!ResultKept, M!Pra!PaperSettles, M!Pra!Submitted, Pra!ResultKept,
        Pra!PaperSettles, Pra!Submitted
<1>4. On("practice") /\ [StudyNext]_<<part, state>> /\ [M!Pra!ResultKept /\ M!Pra!PaperSettles]_(M!Pra!vars)
      => [part = "practice" => Pra!ResultKept /\ Pra!PaperSettles]_state
    BY <1>3, PracticeSteps
<1>5. ~On("practice") => [part = "practice" => Pra!ResultKept /\ Pra!PaperSettles]_state
    BY DEF On
<1> QED
    BY PracticeBegins, PracticeSteps, <1>2, <1>4, <1>5, PTL DEF StudySpec, M!Pra!Spec

-----------------------------------------------------------------------------
(* What the run of MCStudy checks, for any values of its constants. *)

\* Every variable of the part that runs keeps its type.
THEOREM StudyTyped == StudySpec => []StudyTypeOK
<1>1. /\ part = "practice" =>
            Pra!TypeOK /\ Pra!SavedIsStored /\ Pra!ReviewAgrees /\ Pra!AnswersHaveQuestions
      /\ part = "assignment" => Ass!TypeOK /\ Ass!WorkBelongs /\ Ass!SubjectMapped
      /\ part = "calendar" => Cal!TypeOK /\ Cal!PeriodsHeld /\ Cal!EventsOnPublished
      /\ part = "progress" => Pro!TypeOK /\ Pro!CoverageTimely /\ Pro!SectionsAgree
      /\ part = "homework" => Tim!TypeOK /\ Tim!CountsTruthful
      => StudyTypeOK
    BY DEF StudyTypeOK
<1> QED
    BY <1>1, PracticeHolds, AssignmentHolds, CalendarHolds, ProgressHolds, HomeworkHolds, PTL

\* What a student is told of an attempt is what is stored and marked, for any numbers of
\* attempts, authors and requests: an option shown as saved is stored unless a save of that
\* question went astray, a practice's score is the one its review shows unless an answer or a
\* question was written after marking had read it, answers have their questions, and the
\* sections of a profile that saw one moment agree.
THEOREM MarksAlwaysAgree == StudySpec => []MarksAgree
<1>1. /\ part = "practice" =>
            Pra!TypeOK /\ Pra!SavedIsStored /\ Pra!ReviewAgrees /\ Pra!AnswersHaveQuestions
      /\ part = "progress" => Pro!TypeOK /\ Pro!CoverageTimely /\ Pro!SectionsAgree
      => MarksAgree
    BY DEF MarksAgree
<1> QED
    BY <1>1, PracticeHolds, ProgressHolds, PTL

-----------------------------------------------------------------------------
(* Records *)

\* What one record says of another holds, for any numbers of rows and requests: handed-in
\* work shows as completed to its student unless a stale edit moved the assignment, classes
\* have their subjects, periods their parents and events their published periods, and what
\* is reported of topics and homework was so while the report was made.
THEOREM RecordsAlwaysHold == StudySpec => []RecordsHold
<1>1. /\ (part = "calendar" => Cal!TypeOK /\ Cal!PeriodsHeld /\ Cal!EventsOnPublished)
      /\ (part = "assignment" => Ass!TypeOK /\ Ass!WorkBelongs /\ Ass!SubjectMapped)
      /\ (part = "homework" => Tim!TypeOK /\ Tim!CountsTruthful)
      /\ (part = "progress" => Pro!TypeOK /\ Pro!CoverageTimely /\ Pro!SectionsAgree)
      => RecordsHold
    BY DEF RecordsHold
<1> QED
    BY CalendarHolds, AssignmentHolds, HomeworkHolds, ProgressHolds, <1>1, PTL

\* What is published or handed in stays, for any numbers of rows and requests: results,
\* published papers and assignments, handed-in work, reference calendars, and what a report
\* said of the past.
THEOREM RecordsAlwaysStay == StudySpec => RecordsStay
<1> DEFINE
        CalendarKept == part = "calendar" => Cal!ReferenceKept /\ Cal!ReferenceForward
        AssignmentKept == part = "assignment" => Ass!WorkKept /\ Ass!EditsSettle
        HomeworkKept == part = "homework" => Tim!CountsComplete
        ProgressKept == part = "progress" => Pro!PastKept
        PracticeKept == part = "practice" => Pra!ResultKept /\ Pra!PaperSettles
<1>1. /\ [CalendarKept]_state
      /\ [AssignmentKept]_state
      /\ [HomeworkKept]_state
      /\ [ProgressKept]_state
      /\ [PracticeKept]_state
      => [PracticeKept /\ AssignmentKept /\ CalendarKept /\ ProgressKept /\ HomeworkKept]_state
    OBVIOUS
<1> QED
    BY CalendarGoes, AssignmentGoes, HomeworkGoes, ProgressGoes, PracticeGoes, <1>1,
        PTL DEF RecordsStay
=============================================================================
