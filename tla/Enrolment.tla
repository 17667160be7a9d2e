----------------------------- MODULE Enrolment ------------------------------
(***************************************************************************)
(* How students of one organisation get into its classes: invitations,     *)
(* registration and joining by link, enrolment by hand (server.ts), and    *)
(* the enrolment a student has selected as the current one                 *)
(* (modules/student, migration 048).                                       *)
(*                                                                         *)
(* An invitation is looked up and judged before the transaction that uses  *)
(* it; the transaction reads, and then writes everything it has to with    *)
(* its COMMIT.  No handler ends an enrolment, so every row is ACTIVE.      *)
(***************************************************************************)
EXTENDS Naturals, FiniteSets

CONSTANTS
    User,       \* users
    Seeded,     \* those who are active student members from the start, without a profile
    Class, Year, Invite, Enrol,     \* ids of rows, academic years
    Handler,    \* requests under way
    None,       \* null
    MaxUses,    \* the largest use limit given
    MaxSteps    \* bound on the requests of a behaviour

SeededAreUsers == Seeded \subseteq User
Finite == IsFiniteSet(Enrol) /\ IsFiniteSet(Handler)
Bounds == MaxUses \in Nat \ {0} /\ MaxSteps \in Nat

VARIABLES
    user,       \* users: status
    member,     \* organization_members: the users who are STUDENT there
    profile,    \* students_v2: status
    class,      \* classes: status and academic year
    invite,     \* class_invitations
    enrol,      \* student_enrollments, with the invitation it came by (history)
    current,    \* students_v2.current_enrollment_id
    call,       \* the handlers
    steps,      \* requests so far
    raced       \* history: invitations used by two requests at a time

vars == <<user, member, profile, class, invite, enrol, current, call, steps, raced>>

Status   == {"ACTIVE", "INACTIVE"}
NoneIsNothing == None \notin User \cup Year \cup Invite \cup Enrol \cup Status
UserStatus == {"NEW", "PENDING_VERIFICATION", "ACTIVE"}
InviteRow == [class : Class, status : {"ACTIVE", "REVOKED"}, expired : BOOLEAN,
              max : 1..MaxUses \cup {None}, count : 0..Cardinality(Enrol)]
EnrolRow  == [student : User, class : Class, year : Year \cup {None}, via : Invite \cup {None}]
Selection == [User -> Enrol \cup {None}]
NoInvite == [class |-> None, status |-> "NONE", expired |-> FALSE, max |-> None, count |-> 0]
NoEnrol  == [student |-> None, class |-> None, year |-> None, via |-> None]
Idle     == [op |-> "idle", user |-> None, invite |-> None, year |-> None, profile |-> FALSE]

TypeOK ==
    /\ user \in [User -> UserStatus]
    /\ member \subseteq User
    /\ profile \in [User -> Status \cup {None}]
    /\ class \in [Class -> [status : Status, year : Year \cup {None}]]
    /\ \A i \in Invite : invite[i] = NoInvite \/ invite[i] \in InviteRow
    /\ \A e \in Enrol : enrol[e] = NoEnrol \/ enrol[e] \in EnrolRow
    /\ current \in Selection
    /\ steps \in 0..MaxSteps /\ raced \subseteq Invite

Init ==
    /\ user = [u \in User |-> IF u \in Seeded THEN "ACTIVE" ELSE "NEW"]
    /\ member = Seeded
    /\ profile = [u \in User |-> None]
    /\ class = [c \in Class |-> [status |-> "ACTIVE", year |-> None]]
    /\ invite = [i \in Invite |-> NoInvite] /\ enrol = [e \in Enrol |-> NoEnrol]
    /\ current = [u \in User |-> None]
    /\ call = [h \in Handler |-> Idle] /\ steps = 0 /\ raced = {}

Asked == steps < MaxSteps /\ steps' = steps + 1
Leave(h) == call' = [call EXCEPT ![h] = Idle]

EnrolmentsIn(u, c) == {e \in Enrol : enrol[e].student = u /\ enrol[e].class = c}
Via(i)   == {e \in Enrol : enrol[e].via = i}
Using(i) == {h \in Handler : call[h].invite = i}

-----------------------------------------------------------------------------
(* Classes and invitations, one UPDATE or INSERT each *)

EditClass(c, st, y) ==
    /\ Asked
    /\ class' = [class EXCEPT ![c] = [status |-> st, year |-> y]]
    /\ UNCHANGED <<user, member, profile, invite, enrol, current, call, raced>>

Invitation(i, c, max) ==
    /\ Asked /\ invite[i] = NoInvite
    /\ invite' = [invite EXCEPT ![i] = [class |-> c, status |-> "ACTIVE", expired |-> FALSE,
                                        max |-> max, count |-> 0]]
    /\ UNCHANGED <<user, member, profile, class, enrol, current, call, raced>>

Revoke(i) ==
    /\ Asked /\ invite[i].status = "ACTIVE"
    /\ invite' = [invite EXCEPT ![i].status = "REVOKED"]
    /\ UNCHANGED <<user, member, profile, class, enrol, current, call, raced>>

Expire(i) ==
    /\ Asked /\ invite[i] # NoInvite /\ ~invite[i].expired
    /\ invite' = [invite EXCEPT ![i].expired = TRUE]
    /\ UNCHANGED <<user, member, profile, class, enrol, current, call, raced>>

\* GET /api/invitations/:token, and the same tests before joining and registering.
Usable(i) ==
    /\ invite[i].status = "ACTIVE" /\ ~invite[i].expired
    /\ invite[i].max # None => invite[i].count < invite[i].max

-----------------------------------------------------------------------------
(* Profiles and enrolment by hand *)

CreateStudent(u) ==
    /\ Asked /\ user[u] # "NEW" /\ profile[u] = None
    /\ profile' = [profile EXCEPT ![u] = "ACTIVE"]
    /\ UNCHANGED <<user, member, class, invite, enrol, current, call, raced>>

SetStudentStatus(u, st) ==
    /\ Asked /\ profile[u] # None /\ profile[u] # st
    /\ profile' = [profile EXCEPT ![u] = st]
    /\ UNCHANGED <<user, member, class, invite, enrol, current, call, raced>>

\* POST /api/classes/:id/students: a row without academic year, which the unique index
\* over the year never finds in conflict.
EnrolByHand(u, c) ==
    /\ Asked /\ profile[u] # None
    /\ \E e \in Enrol :
         /\ enrol[e] = NoEnrol
         /\ enrol' = [enrol EXCEPT ![e] = [student |-> u, class |-> c, year |-> None, via |-> None]]
    /\ UNCHANGED <<user, member, profile, class, invite, current, call, raced>>

-----------------------------------------------------------------------------
(* By invitation *)

Ask(h, op, u, i) ==
    /\ Asked /\ call[h] = Idle
    /\ call' = [call EXCEPT ![h] = [op |-> op, user |-> u, invite |-> i,
                                    year |-> class[invite[i].class].year, profile |-> FALSE]]
    /\ raced' = IF Using(i) # {} THEN raced \cup {i} ELSE raced
    /\ UNCHANGED <<user, member, profile, class, invite, enrol, current>>

\* Mutant: the limit is not looked at.
AskJoinPastLimit(h, u, i) ==
    user[u] = "ACTIVE" /\ invite[i].status = "ACTIVE" /\ ~invite[i].expired /\ Ask(h, "join", u, i)

\* Mutant: status and expiry are not looked at.
AskJoinRevoked(h, u, i) ==
    /\ user[u] = "ACTIVE" /\ invite[i] # NoInvite /\ Ask(h, "join", u, i)
    /\ invite[i].max # None => invite[i].count < invite[i].max

AskJoin(h, u, i) == user[u] = "ACTIVE" /\ Usable(i) /\ Ask(h, "join", u, i)

\* The reads of the transaction: a student member, the profile, no enrolment yet.
Look(h) ==
    LET u == call[h].user IN
    /\ call[h].op = "join"
    /\ IF u \in member /\ EnrolmentsIn(u, invite[call[h].invite].class) = {}
       THEN call' = [call EXCEPT ![h].op = "commit", ![h].profile = profile[u] # None]
       ELSE Leave(h)
    /\ UNCHANGED <<user, member, profile, class, invite, enrol, current, steps, raced>>

\* An index rejects the row: the profile is there by now, or the enrolment with its year.
Rejected(h) ==
    LET u == call[h].user IN
    \/ ~call[h].profile /\ profile[u] # None
    \/ \E e \in EnrolmentsIn(u, invite[call[h].invite].class) :
         call[h].year # None /\ enrol[e].year = call[h].year

EnrolVia(h, e) ==
    /\ enrol[e] = NoEnrol
    /\ enrol' = [enrol EXCEPT ![e] = [student |-> call[h].user, year |-> call[h].year,
                  class |-> invite[call[h].invite].class, via |-> call[h].invite]]

CountUse(i) == invite' = [invite EXCEPT ![i].count = @ + 1]

Enlist(u) == profile' = IF profile[u] = None THEN [profile EXCEPT ![u] = "ACTIVE"] ELSE profile

\* Mutant: the index is not there.
JoinAgain(h) ==
    /\ call[h].op = "commit"
    /\ (\E e \in Enrol : EnrolVia(h, e)) /\ CountUse(call[h].invite) /\ Enlist(call[h].user)
    /\ Leave(h)
    /\ UNCHANGED <<user, member, class, current, steps, raced>>

\* Mutant: the use is not counted.
JoinUncounted(h) ==
    /\ call[h].op = "commit"
    /\ IF Rejected(h) THEN UNCHANGED <<profile, invite, enrol>>
       ELSE (\E e \in Enrol : EnrolVia(h, e)) /\ Enlist(call[h].user) /\ UNCHANGED invite
    /\ Leave(h)
    /\ UNCHANGED <<user, member, class, current, steps, raced>>

\* The writes and COMMIT, or the ROLLBACK of a rejected INSERT.
Join(h) ==
    /\ call[h].op = "commit"
    /\ IF Rejected(h) THEN UNCHANGED <<profile, invite, enrol>>
       ELSE (\E e \in Enrol : EnrolVia(h, e)) /\ CountUse(call[h].invite) /\ Enlist(call[h].user)
    /\ Leave(h)
    /\ UNCHANGED <<user, member, class, current, steps, raced>>

\* POST /api/auth/register without an invitation: the account is never activated.
RegisterAlone(u) ==
    /\ Asked /\ user[u] = "NEW"
    /\ user' = [user EXCEPT ![u] = "PENDING_VERIFICATION"]
    /\ UNCHANGED <<member, profile, class, invite, enrol, current, call, raced>>

AskRegister(h, u, i) == Usable(i) /\ Ask(h, "register", u, i)

\* Mutant: the account comes first, outside the transaction.
RegisterFirst(h) ==
    LET u == call[h].user IN
    /\ call[h].op = "register"
    /\ IF user[u] # "NEW" THEN UNCHANGED <<user, member, profile, invite, enrol>>
       ELSE /\ user' = [user EXCEPT ![u] = "ACTIVE"]
            /\ UNCHANGED <<member, profile, invite, enrol>>
    /\ Leave(h)
    /\ UNCHANGED <<class, current, steps, raced>>

\* User, membership, profile, enrolment and count in one transaction; a user with
\* this address by now is a 409.
Register(h) ==
    LET u == call[h].user IN
    /\ call[h].op = "register"
    /\ IF user[u] # "NEW" THEN UNCHANGED <<user, member, profile, invite, enrol>>
       ELSE /\ user' = [user EXCEPT ![u] = "ACTIVE"]
            /\ member' = member \cup {u}
            /\ (\E e \in Enrol : EnrolVia(h, e)) /\ CountUse(call[h].invite) /\ Enlist(u)
    /\ Leave(h)
    /\ UNCHANGED <<class, current, steps, raced>>

\* A statement fails or the server stops before COMMIT.
Fail(h) ==
    /\ Asked /\ call[h] # Idle
    /\ Leave(h)
    /\ UNCHANGED <<user, member, profile, class, invite, enrol, current, raced>>

-----------------------------------------------------------------------------
(* The current enrolment *)

\* GET /api/student/enrollments
ListEnrolments(u) ==
    IF profile[u] # "ACTIVE" THEN {}
    ELSE {e \in Enrol : enrol[e].student = u /\ class[enrol[e].class].status = "ACTIVE"}

\* Mutant: the class may have been deactivated.
CurrentUnchecked(u) ==
    IF profile[u] = "ACTIVE" /\ current[u] # None /\ enrol[current[u]].student = u
    THEN current[u] ELSE None

\* GET /api/student/current-enrollment: the selection and nothing in its place.
CurrentEnrolment(u) ==
    IF profile[u] = "ACTIVE" /\ current[u] # None /\ enrol[current[u]].student = u
       /\ class[enrol[current[u]].class].status = "ACTIVE"
    THEN current[u] ELSE None

\* Mutant: any enrolment of an active class can be selected.
SelectAny(u, e) ==
    /\ Asked /\ u \in member /\ profile[u] = "ACTIVE"
    /\ enrol[e] # NoEnrol /\ class[enrol[e].class].status = "ACTIVE"
    /\ current' = [current EXCEPT ![u] = e]
    /\ UNCHANGED <<user, member, profile, class, invite, enrol, call, raced>>

\* The UPDATE repeats every condition, so nothing can change before it.
Selectable(u, e) ==
    profile[u] = "ACTIVE" /\ enrol[e].student = u /\ class[enrol[e].class].status = "ACTIVE"

Select(u, e) ==
    /\ Asked /\ u \in member /\ Selectable(u, e)
    /\ current' = [current EXCEPT ![u] = e]
    /\ UNCHANGED <<user, member, profile, class, invite, enrol, call, raced>>

Next ==
    \/ \E c \in Class, st \in Status, y \in Year \cup {None} : EditClass(c, st, y)
    \/ \E i \in Invite : \/ \E c \in Class, max \in 1..MaxUses \cup {None} : Invitation(i, c, max)
                         \/ Revoke(i) \/ Expire(i)
    \/ \E u \in User : \/ CreateStudent(u) \/ RegisterAlone(u)
                       \/ \E st \in Status : SetStudentStatus(u, st)
                       \/ \E c \in Class : EnrolByHand(u, c)
                       \/ \E e \in Enrol : Select(u, e)
    \/ \E h \in Handler : \/ \E u \in User, i \in Invite : AskJoin(h, u, i) \/ AskRegister(h, u, i)
                          \/ Look(h) \/ Join(h) \/ Register(h) \/ Fail(h)

Spec == Init /\ [][Next]_vars

-----------------------------------------------------------------------------
(* Properties *)

\* Every use is counted once, and only uses are: the count and the enrolments that
\* came by the invitation stay in step through every race and rollback.
UsesCounted ==
    \A i \in Invite : invite[i] # NoInvite => invite[i].count = Cardinality(Via(i))

\* The limit is exceeded only by requests that overlapped: the test stands before the
\* transaction and the increment has no guard (server.ts, join).
LimitHolds ==
    \A i \in Invite \ raced : invite[i].max # None => invite[i].count <= invite[i].max

\* Once an invitation is withdrawn or used up, those it has admitted and those past its
\* test never grow in number: the races end there.
WithdrawnAdmitsNobody ==
    \A i \in Invite : invite[i] # NoInvite /\ ~Usable(i) =>
        Cardinality(Via(i))' + Cardinality(Using(i))' <= Cardinality(Via(i)) + Cardinality(Using(i))

\* A student is in a class once for each academic year that has a name.
OncePerNamedYear ==
    \A u \in User, c \in Class : \A e, f \in EnrolmentsIn(u, c) :
        enrol[e].year = enrol[f].year /\ enrol[e].year # None => e = f

\* Registering by invitation leaves no half account: who is active is a student member,
\* with a profile and an enrolment if the invitation brought the account.
NoHalfAccounts ==
    \A u \in User \ Seeded : user[u] = "ACTIVE" =>
        u \in member /\ profile[u] # None /\ \E e \in Enrol : enrol[e].student = u /\ enrol[e].via # None

\* What is shown as current is one of the enrolments listed to the student, whatever
\* happened to class and profile since it was selected.
CurrentIsListed ==
    \A u \in User : CurrentEnrolment(u) # None => CurrentEnrolment(u) \in ListEnrolments(u)

\* A selection belongs to its student.
SelectionBelongs == \A u \in User : current[u] # None => enrol[current[u]].student = u
=============================================================================
