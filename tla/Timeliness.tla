----------------------------- MODULE Timeliness -----------------------------
(***************************************************************************)
(* How modules/progress counts one student's homework: handed in on time   *)
(* or late, pending or overdue.  The rows come from one query, the time    *)
(* they are judged by is taken when it has answered.  A teacher is first   *)
(* asked for a class they share with the student, one query per class.     *)
(*                                                                         *)
(* Abstracted: instants are ticks; a deadline does not change once the     *)
(* assignment is open (Assignments says when it may); the other roles of   *)
(* staff only pass, and invalid ids only fail.                             *)
(***************************************************************************)
EXTENDS Naturals, FiniteSets

CONSTANTS
    Assignment, Class,
    None,
    MaxNow      \* bound on the clock

ClockBound == MaxNow \in Nat
NoneIsNothing == None \notin Nat \cup Class \cup {"OPEN", "CLOSED"}
Finite == IsFiniteSet(Assignment)

VARIABLES
    row,        \* assignments: class, status, due_at, and submissions.submitted_at
    enrolled,   \* the student's active enrolments
    teaching,   \* the teacher's active class assignments
    now,        \* the clock
    reader,     \* the request under way
    begun,      \* history: the work that was handed in when it began
    counts      \* the answer, until something changes

around == <<row, enrolled, teaching, now>>
vars   == <<around, reader, begun, counts>>

Time   == 0..MaxNow
Due    == Time \cup {None}
NoRow  == [status |-> None, class |-> None, due |-> None, submitted |-> None]
Idle   == [stage |-> None, classes |-> {}, rows |-> {}]

TypeOK ==
    /\ \A a \in Assignment : row[a] = NoRow
         \/ row[a] \in [status : {"OPEN", "CLOSED"}, class : Class, due : Due, submitted : Due]
    /\ enrolled \subseteq Class /\ teaching \subseteq Class
    /\ now \in Time
    /\ reader.stage \in {None, "scope", "assigned", "rows", "classify"}
    /\ reader.classes \subseteq Class /\ reader.rows \subseteq Due \X Due \X Assignment
    /\ begun \subseteq Assignment
    /\ counts = None \/ counts.total <= Cardinality(Assignment)

Init ==
    /\ row = [a \in Assignment |-> NoRow]
    /\ enrolled = {} /\ teaching \in SUBSET Class
    /\ now = 0 /\ reader = Idle /\ begun = {} /\ counts = None

Handed == {a \in Assignment : row[a].submitted # None}

-----------------------------------------------------------------------------
(* Around: assignments and enrolments (Assignments, Enrolment), and time *)

Changed == counts' = None /\ UNCHANGED <<reader, begun>>

OpenAssignment(a, c, due) ==
    /\ row[a] = NoRow
    /\ row' = [row EXCEPT ![a] = [status |-> "OPEN", class |-> c, due |-> due, submitted |-> None]]
    /\ UNCHANGED <<enrolled, teaching, now>> /\ Changed

CloseAssignment(a) ==
    /\ row[a].status = "OPEN" /\ row' = [row EXCEPT ![a].status = "CLOSED"]
    /\ UNCHANGED <<enrolled, teaching, now>> /\ Changed

\* While it is open, also after the deadline.
HandIn(a) ==
    /\ row[a].status = "OPEN" /\ row[a].class \in enrolled /\ row[a].submitted = None
    /\ row' = [row EXCEPT ![a].submitted = now]
    /\ UNCHANGED <<enrolled, teaching, now>> /\ Changed

Enrol(c) ==
    /\ c \notin enrolled /\ enrolled' = enrolled \cup {c}
    /\ UNCHANGED <<row, teaching, now>> /\ Changed

EndEnrolment(c) ==
    /\ c \in enrolled /\ enrolled' = enrolled \ {c}
    /\ UNCHANGED <<row, teaching, now>> /\ Changed

Assign(c) ==
    /\ teaching' = (teaching \ {c}) \cup ({c} \ teaching)
    /\ UNCHANGED <<row, enrolled, now>> /\ Changed

Tick ==
    /\ now < MaxNow /\ now' = now + 1
    /\ UNCHANGED <<row, enrolled, teaching>> /\ Changed

-----------------------------------------------------------------------------
(* The reader *)

Goes(r) == reader' = r /\ UNCHANGED <<around, begun, counts>>

\* getOwnHomework of the student, getStudentHomework of an administrator or a teacher.
Ask(teacher) ==
    /\ reader = Idle
    /\ reader' = [Idle EXCEPT !.stage = IF teacher THEN "scope" ELSE "rows"]
    /\ begun' = Handed /\ counts' = None
    /\ UNCHANGED around

\* listActiveEnrollmentClassIds
ReadScope ==
    /\ reader.stage = "scope"
    /\ Goes([Idle EXCEPT !.stage = "assigned", !.classes = enrolled])

\* The loop of requireStaffStudent over teacherAssignedToClass: the first class will do.
CheckAssigned(c) ==
    /\ reader.stage = "assigned" /\ c \in reader.classes
    /\ Goes(IF c \in teaching THEN [Idle EXCEPT !.stage = "rows"]
            ELSE [reader EXCEPT !.classes = @ \ {c}])

Refuse == reader.stage = "assigned" /\ reader.classes = {} /\ Goes(Idle)

HandedRows ==   \* mutant: an inner join
    {<<row[a].due, row[a].submitted, a>> : a \in {b \in Handed : row[b].class \in enrolled}}

\* listHomeworkRows: OPEN and CLOSED assignments of the classes the student is in now.
HomeworkRows ==
    {<<row[a].due, row[a].submitted, a>> : a \in {b \in Assignment :
        row[b].status \in {"OPEN", "CLOSED"} /\ row[b].class \in enrolled}}

ReadRows ==
    /\ reader.stage = "rows"
    /\ Goes([Idle EXCEPT !.stage = "classify", !.rows = HomeworkRows])

StateOfStrict(due, submitted) ==    \* mutant: at the deadline is too late
    CASE submitted # None /\ (due = None \/ submitted < due) -> "ON_TIME"
      [] submitted # None /\ due # None /\ submitted >= due  -> "LATE"
      [] submitted = None /\ due # None /\ now >= due        -> "OVERDUE"
      [] OTHER                                               -> "PENDING"

\* stateOf in classifyHomework
StateOf(due, submitted) ==
    CASE submitted # None /\ (due = None \/ submitted <= due) -> "ON_TIME"
      [] submitted # None /\ due # None /\ submitted > due    -> "LATE"
      [] submitted = None /\ due # None /\ now > due          -> "OVERDUE"
      [] OTHER                                                -> "PENDING"

\* classifyHomework, with the time it is called at.
Classify ==
    LET of(state) == Cardinality({x \in reader.rows : StateOf(x[1], x[2]) = state}) IN
    /\ reader.stage = "classify" /\ reader' = Idle
    /\ counts' = [onTime |-> of("ON_TIME"), late |-> of("LATE"), pending |-> of("PENDING"),
                  overdue |-> of("OVERDUE"), total |-> Cardinality(reader.rows)]
    /\ UNCHANGED <<around, begun>>

Next ==
    \/ \E a \in Assignment : \/ CloseAssignment(a) \/ HandIn(a)
                             \/ \E c \in Class, due \in Due : OpenAssignment(a, c, due)
    \/ \E c \in Class : Enrol(c) \/ EndEnrolment(c) \/ Assign(c) \/ CheckAssigned(c)
    \/ Tick
    \/ \E teacher \in BOOLEAN : Ask(teacher)
    \/ ReadScope \/ Refuse \/ ReadRows \/ Classify

Spec == Init /\ [][Next]_vars

-----------------------------------------------------------------------------
\* The counts can be told from what really was: work counted on time or late was handed
\* in so, work counted overdue or pending was not handed in when the request began, is
\* overdue only past its deadline, and nothing handed in before is missed while the
\* student is in its class.  Work handed in while the answer was made may still be
\* counted overdue (homeworkForStudent takes the time after the rows).
CountsTruthful ==
    counts # None =>
      LET onTime == {a \in Handed : row[a].due = None \/ row[a].submitted <= row[a].due}
          past   == {a \in Assignment : row[a].due # None /\ row[a].due < now}
          asked  == {a \in Assignment : row[a] # NoRow}
      IN  /\ counts.onTime <= Cardinality(onTime)
          /\ counts.late <= Cardinality(Handed \ onTime)
          /\ counts.overdue <= Cardinality(past \ begun)
          /\ counts.pending <= Cardinality(asked \ begun)
          /\ counts.total = counts.onTime + counts.late + counts.pending + counts.overdue

\* An answer made while nothing around it changed counts exactly what there is.
CountsComplete ==
    Classify /\ reader.rows = HomeworkRows =>
      /\ counts'.total = Cardinality({a \in Assignment : row[a].class \in enrolled})
      /\ counts'.onTime + counts'.late = Cardinality({a \in Handed : row[a].class \in enrolled})
=============================================================================
