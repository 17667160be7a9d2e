------------------------------ MODULE Syllabi -------------------------------
(***************************************************************************)
(* The syllabi of one class and the one that is authoritative for it       *)
(* (modules/curriculum), which the AI context is resolved from.            *)
(*                                                                         *)
(* A designation checks, then repeats its checks in a transaction that     *)
(* holds the class row; what it has demoted and promoted is invisible      *)
(* until it commits.  Nothing deactivates a syllabus, a board or a medium: *)
(* only the class is (server.ts).                                          *)
(***************************************************************************)
CONSTANTS
    Syllabus, Code,
    Handler,    \* requests under way
    None        \* null

InTransaction == {"locked", "demoted", "promoted"}

NoneIsNoId == None \notin Handler \cup {"create", "designate"} \cup InTransaction

VARIABLES
    active,     \* classes.status = 'ACTIVE'
    code,       \* syllabi: the code of a row, None if there is none
    chosen,     \* syllabi.is_authoritative, as committed
    work,       \* the same column as the transaction under way sees it
    lock,       \* the request that holds the class row
    call        \* the requests past their checks

vars == <<active, code, chosen, work, lock, call>>

Idle == [op |-> None, of |-> None, code |-> None]

TypeOK ==
    /\ active \in BOOLEAN /\ code \in [Syllabus -> Code \cup {None}]
    /\ chosen \subseteq Syllabus /\ work \subseteq Syllabus /\ lock \in Handler \cup {None}
    /\ call \in [Handler -> [op : {None, "create", "designate"} \cup InTransaction,
                             of : Syllabus \cup {None}, code : Code \cup {None}]]

Init ==
    /\ active = TRUE /\ code = [s \in Syllabus |-> None] /\ chosen = {} /\ work = {}
    /\ lock = None /\ call = [h \in Handler |-> Idle]

Syllabi == {s \in Syllabus : code[s] # None}

\* A code is used once in the class, board and medium: what the service looks up and the
\* unique index ux_syllabi_class_board_medium_code holds.
Uncoded(c) == \A t \in Syllabi : code[t] # c

\* ux_syllabi_one_authoritative_per_class_049, which is enforced row by row.
Admits(marked, s) == marked \subseteq {s}

\* PATCH /api/classes/:id; the row may be held by a designation.
SetClassStatus ==
    /\ lock = None /\ active' = ~active /\ UNCHANGED <<code, chosen, work, lock, call>>

-----------------------------------------------------------------------------
(* createSyllabus *)

\* findSyllabusByClassBoardMediumCode found nothing.
BeginCreate(h, s, c) ==
    /\ call[h] = Idle /\ code[s] = None /\ \A g \in Handler : call[g].of # s
    /\ Uncoded(c)
    /\ call' = [call EXCEPT ![h] = [op |-> "create", of |-> s, code |-> c]]
    /\ UNCHANGED <<active, code, chosen, work, lock>>

InsertUnindexed(h) ==   \* mutant: no ux_syllabi_class_board_medium_code
    /\ call[h].op = "create" /\ lock = None
    /\ code' = [code EXCEPT ![call[h].of] = call[h].code]
    /\ call' = [call EXCEPT ![h] = Idle] /\ UNCHANGED <<active, chosen, work, lock>>

\* The foreign key waits for a held class row; the unique index judges the code.
Insert(h) ==
    /\ call[h].op = "create" /\ lock = None
    /\ Uncoded(call[h].code)
    /\ code' = [code EXCEPT ![call[h].of] = call[h].code]
    /\ call' = [call EXCEPT ![h] = Idle] /\ UNCHANGED <<active, chosen, work, lock>>

-----------------------------------------------------------------------------
(* designateAuthoritativeSyllabus *)

Step(h, op) == call' = [call EXCEPT ![h].op = op]

BeginDesignate(h, s) ==
    /\ call[h] = Idle /\ s \in Syllabi /\ active
    /\ call' = [call EXCEPT ![h] = [op |-> "designate", of |-> s, code |-> None]]
    /\ UNCHANGED <<active, code, chosen, work, lock>>

LockUnchecked(h) ==     \* mutant: what was checked before the lock is not checked again
    /\ call[h].op = "designate" /\ lock = None
    /\ lock' = h /\ work' = chosen /\ Step(h, "locked") /\ UNCHANGED <<active, code, chosen>>

Lock(h) ==
    /\ call[h].op = "designate" /\ lock = None /\ active
    /\ lock' = h /\ work' = chosen /\ Step(h, "locked") /\ UNCHANGED <<active, code, chosen>>

DemoteCommitted(h) ==   \* mutant: outside a transaction
    /\ call[h].op = "locked"
    /\ work' = work \cap {call[h].of} /\ chosen' = work'
    /\ Step(h, "demoted") /\ UNCHANGED <<active, code, lock>>

Demote(h) ==
    /\ call[h].op = "locked"
    /\ work' = work \cap {call[h].of} /\ Step(h, "demoted")
    /\ UNCHANGED <<active, code, chosen, lock>>

PromoteBeside(h) ==     \* mutant: nothing was demoted, and no unique index
    /\ call[h].op = "demoted"
    /\ work' = chosen \cup {call[h].of} /\ Step(h, "promoted")
    /\ UNCHANGED <<active, code, chosen, lock>>

Promote(h) ==
    /\ call[h].op = "demoted" /\ Admits(work, call[h].of)
    /\ work' = work \cup {call[h].of} /\ Step(h, "promoted")
    /\ UNCHANGED <<active, code, chosen, lock>>

Commit(h) ==
    /\ call[h].op = "promoted"
    /\ chosen' = work /\ lock' = None /\ work' = {} /\ call' = [call EXCEPT ![h] = Idle]
    /\ UNCHANGED <<active, code>>

\* An error, a refusal or a crash at any step: whatever the transaction did is gone.
Fail(h) ==
    /\ call[h] # Idle /\ call' = [call EXCEPT ![h] = Idle]
    /\ IF lock = h THEN lock' = None /\ work' = {} ELSE UNCHANGED <<lock, work>>
    /\ UNCHANGED <<active, code, chosen>>

Next ==
    \/ SetClassStatus
    \/ \E h \in Handler :
         \/ \E s \in Syllabus, c \in Code : BeginCreate(h, s, c)
         \/ \E s \in Syllabus : BeginDesignate(h, s)
         \/ Insert(h) \/ Lock(h) \/ Demote(h) \/ Promote(h) \/ Commit(h) \/ Fail(h)

Spec == Init /\ [][Next]_vars

\* getAuthoritativeSyllabiForClass: what the resolver of the AI context is given.
Authoritative == IF active THEN chosen ELSE {}

-----------------------------------------------------------------------------
\* The resolver never has two syllabi to choose from, whatever designations overlap ("A
\* class may have at most one explicitly designated authoritative syllabus").
OneAuthoritative == \A s, t \in Authoritative : s = t

\* A class that has a designation has one at every moment of a switch, one that fails or
\* crashes midway included.
DesignationKept == chosen # {} => chosen' # {}

\* No designation takes effect on a class that was deactivated after it was checked.
DesignatedWhileActive == chosen' # chosen => active

\* Codes stay distinct though two requests may both have found none ("Duplicate syllabus
\* already exists for this class, board, and medium.").
CodesDistinct == \A s, t \in Syllabi : code[s] = code[t] => s = t
=============================================================================
