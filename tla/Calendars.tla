----------------------------- MODULE Calendars ------------------------------
(***************************************************************************)
(* One academic calendar: its status, the tree of its periods              *)
(* (modules/academic/calendar) and the assessment events on them           *)
(* (modules/academic/assessment), under the triggers and foreign keys of   *)
(* migration 020.                                                          *)
(*                                                                         *)
(* Requests read, check and write later without a guard; for a reference   *)
(* calendar the trigger judges the write.  node-pg returns DATE columns as *)
(* Date objects, and a string compared with a Date is neither before nor   *)
(* after it: the test of a date given against the parent's never refuses.  *)
(***************************************************************************)
EXTENDS Naturals

CONSTANTS
    Period,     \* ids of academic_calendar_periods
    Event,      \* ids of assessment_events
    Handler,    \* requests under way
    LastDay,    \* days are 0..LastDay
    Dates,      \* the first and last days requests give, either of which may be None
    None        \* null, or not given

DayBound == LastDay \in Nat /\ Dates \subseteq (0..LastDay \cup {None}) \X (0..LastDay \cup {None})

VARIABLES
    scope,      \* academic_calendars.scope, which nothing changes
    status,     \* academic_calendars.status
    period,     \* academic_calendar_periods
    event,      \* assessment_events.calendar_period_id
    call        \* the requests past their checks

vars == <<scope, status, period, event, call>>

Day   == 0..LastDay
Row   == {r \in [parent : Period \cup {None}, from : Day, to : Day] : r.from <= r.to}
Input == {[parent |-> p, from |-> d[1], to |-> d[2]] : p \in Period \cup {None}, d \in Dates \cup {<<None, None>>}}
Status  == {"DRAFT", "PUBLISHED", "RETIRED"}
Events  == [Event -> Period \cup {None}]
NoInput == [parent |-> None, from |-> None, to |-> None]
Idle  == [op |-> None, of |-> None, input |-> NoInput]

NoneIsNothing == None \notin Period \cup Row \cup {"create", "update", "delete", "publish", "retire"}

TypeOK ==
    /\ scope \in {"REFERENCE", "ORGANIZATION"}
    /\ status \in Status
    /\ period \in [Period -> Row \cup {None}]
    /\ event \in Events
    /\ call \in [Handler -> [op : {None, "create", "update", "delete", "publish", "retire"},
                             of : Period \cup {None}, input : Input]]

\* A calendar may be created in any scope and status.
Init ==
    /\ scope \in {"REFERENCE", "ORGANIZATION"}
    /\ status \in Status
    /\ period = [p \in Period |-> None] /\ event = [e \in Event |-> None]
    /\ call = [h \in Handler |-> Idle]

Periods  == {p \in Period : period[p] # None}
Frozen   == scope = "REFERENCE" /\ status # "DRAFT"
Children(p) == {c \in Periods : period[c].parent = p}

Enter(h, op, p, input) ==
    /\ call[h] = Idle
    /\ call' = [call EXCEPT ![h] = [op |-> op, of |-> p, input |-> input]]
    /\ UNCHANGED <<scope, status, period, event>>

Leave(h) == call' = [call EXCEPT ![h] = Idle]

-----------------------------------------------------------------------------
(* What the service checks *)

Follows(from, to) == <<from, to>> \in {<<"DRAFT", "publish">>, <<"PUBLISHED", "retire">>}

BeginStatus(h, op) ==
    Follows(status, op) /\ Enter(h, op, None, NoInput)

BeginAnyCreate(h, p, input) ==  \* mutant: no validatePeriodInput
    /\ status = "DRAFT" /\ period[p] = None /\ \A g \in Handler : call[g].of # p
    /\ input.parent # None => input.parent \in Periods
    /\ Enter(h, "create", p, input)

BeginCreate(h, p, input) ==
    /\ status = "DRAFT" /\ period[p] = None /\ \A g \in Handler : call[g].of # p
    /\ input.from # None /\ input.to # None /\ input.from <= input.to
    /\ input.parent # None => input.parent \in Periods
    /\ Enter(h, "create", p, input)

\* The dates that are not given are compared with the parent's; the others never refuse.
Outside(row, input, parent) ==
    \/ input.from = None /\ row.from < parent.from
    \/ input.to = None /\ row.to > parent.to

BeginUpdate(h, p, input) ==
    LET parent == IF input.parent = None THEN period[p].parent ELSE input.parent IN
    /\ status = "DRAFT" /\ p \in Periods
    /\ input.from # None /\ input.to # None => input.from <= input.to
    /\ input # NoInput /\ parent # None =>
         parent \in Periods /\ ~Outside(period[p], input, period[parent])
    /\ Enter(h, "update", p, input)

BeginDelete(h, p) ==
    /\ status = "DRAFT" /\ p \in Periods /\ Enter(h, "delete", p, NoInput)

-----------------------------------------------------------------------------
(* What the database makes of it *)

SetAnyStatus(h) ==     \* mutant: no trigger on the status
    /\ call[h].op \in {"publish", "retire"}
    /\ status' = IF call[h].op = "publish" THEN "PUBLISHED" ELSE "RETIRED"
    /\ Leave(h) /\ UNCHANGED <<scope, period, event>>

\* setCalendarStatus; the trigger refuses a reference calendar what does not follow.
SetStatus(h) ==
    LET new == IF call[h].op = "publish" THEN "PUBLISHED" ELSE "RETIRED" IN
    /\ call[h].op \in {"publish", "retire"}
    /\ scope = "REFERENCE" /\ new # status => Follows(status, call[h].op)
    /\ status' = new
    /\ Leave(h) /\ UNCHANGED <<scope, period, event>>

\* The trigger is for updates and deletes: an insert that checked earlier passes.
InsertPeriod(h) ==
    /\ call[h].op = "create"
    /\ call[h].input.parent # None => call[h].input.parent \in Periods
    /\ period' = [period EXCEPT ![call[h].of] = call[h].input]
    /\ Leave(h) /\ UNCHANGED <<scope, status, event>>

\* COALESCE
Given(new, old) == IF new = None THEN old ELSE new

Updated(p, input) == [parent |-> Given(input.parent, period[p].parent),
                      from |-> Given(input.from, period[p].from),
                      to |-> Given(input.to, period[p].to)]

UpdateAnyPeriod(h) ==   \* mutant: no trigger on the periods
    LET p == call[h].of
        new == Updated(p, call[h].input) IN
    /\ call[h].op = "update" /\ p \in Periods
    /\ new \in Row /\ (new.parent # None => new.parent \in Periods)
    /\ period' = [period EXCEPT ![p] = new]
    /\ Leave(h) /\ UNCHANGED <<scope, status, event>>

UpdatePeriod(h) ==
    LET p == call[h].of
        new == Updated(p, call[h].input) IN
    /\ call[h].op = "update" /\ p \in Periods /\ ~Frozen
    /\ new \in Row /\ (new.parent # None => new.parent \in Periods)
    /\ period' = [period EXCEPT ![p] = new]
    /\ Leave(h) /\ UNCHANGED <<scope, status, event>>

DeleteParent(h) ==      \* mutant: the children are not asked
    LET p == call[h].of IN
    /\ call[h].op = "delete" /\ p \in Periods /\ ~Frozen
    /\ \A e \in Event : event[e] # p
    /\ period' = [period EXCEPT ![p] = None]
    /\ Leave(h) /\ UNCHANGED <<scope, status, event>>

\* The foreign keys of children and events hold the row.
DeletePeriod(h) ==
    LET p == call[h].of IN
    /\ call[h].op = "delete" /\ p \in Periods /\ ~Frozen
    /\ Children(p) \subseteq {p} /\ \A e \in Event : event[e] # p
    /\ period' = [period EXCEPT ![p] = None]
    /\ Leave(h) /\ UNCHANGED <<scope, status, event>>

\* A trigger, a constraint or anything else refuses, or the row is gone.
Fail(h) ==
    /\ call[h] # Idle /\ Leave(h) /\ UNCHANGED <<scope, status, period, event>>

ScheduleAnywhere(e, p) ==   \* mutant: no validate_assessment_event_scope
    /\ p \in Periods /\ event' = [event EXCEPT ![e] = p]
    /\ UNCHANGED <<scope, status, period, call>>

\* createEvent and updateEvent: the trigger asks for a published reference calendar.
Schedule(e, p) ==
    /\ p \in Periods /\ (scope = "REFERENCE" => status = "PUBLISHED")
    /\ event' = [event EXCEPT ![e] = p]
    /\ UNCHANGED <<scope, status, period, call>>

Next ==
    \/ \E h \in Handler :
         \/ \E op \in {"publish", "retire"} : BeginStatus(h, op)
         \/ \E p \in Period, i \in Input : BeginCreate(h, p, i) \/ BeginUpdate(h, p, i)
         \/ \E p \in Period : BeginDelete(h, p)
         \/ SetStatus(h) \/ InsertPeriod(h) \/ UpdatePeriod(h) \/ DeletePeriod(h) \/ Fail(h)
    \/ \E e \in Event, p \in Period : Schedule(e, p)

Spec == Init /\ [][Next]_vars

-----------------------------------------------------------------------------
\* A period has its parent, and an event its period, however deletes and inserts that
\* checked earlier interleave (the foreign keys of migration 020).
PeriodsHeld ==
    /\ \A p \in Periods : period[p].parent \in Periods \cup {None}
    /\ \A e \in Event : event[e] \in Periods \cup {None}

\* What a published reference calendar holds is not rewritten, though the service checked
\* for a draft before ("Published or retired reference calendar period is immutable").
ReferenceKept ==
    Frozen => \A p \in Periods : period[p]' = period[p]

\* A reference calendar only moves forward, two requests for its status or not; an
\* organisation's may be published again by a request that read it as a draft.
ReferenceForward ==
    scope = "REFERENCE" /\ status' # status =>
      <<status, status'>> \in {<<"DRAFT", "PUBLISHED">>, <<"PUBLISHED", "RETIRED">>}

\* No event is on a reference calendar that is still a draft.
EventsOnPublished ==
    scope = "REFERENCE" /\ (\E e \in Event : event[e] # None) => status # "DRAFT"

\* Every period lies within its parent ("Period must be contained by its parent.").
PeriodsContained ==
    \A p \in Periods : period[p].parent \in Periods =>
        /\ period[period[p].parent].from <= period[p].from
        /\ period[p].to <= period[period[p].parent].to
=============================================================================
