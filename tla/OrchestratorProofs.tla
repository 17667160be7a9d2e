------------------------- MODULE OrchestratorProofs -------------------------
(***************************************************************************)
(* For any number of callers, paths, actors, edits, faults and notes: a    *)
(* workflow run keeps its types and the promise of ApprovedRun, its record *)
(* is a chain, its ledger is what the record says of it, a verified run    *)
(* rests on evidence, and a grant stands until it is older than its        *)
(* validity.                                                               *)
(*                                                                         *)
(* All of it rests on two classifications.  Of edges (EdgeKinds): a step   *)
(* forward, the grant, or a stop.  Of steps (StepKind): a step leaves the  *)
(* record alone, notes, moves along one edge, or writes the ledger, and    *)
(* each of these is one write of the phase, the ledger and the event.      *)
(*                                                                         *)
(* Invariants stronger than what they show: Kept (before the build no      *)
(* grant is on the record or the gate), Ledgered (a ledger and its trail,  *)
(* check by check), Founded (what a call in verification has read of the   *)
(* run stood together while it was under way, if it lets the run pass).    *)
(***************************************************************************)
EXTENDS Orchestrator, WellFoundedInduction, TLAPS

Early == {"REQUESTED", "PLANNING", "PLAN_READY", "WAITING_FOR_APPROVAL"}

\* The three kinds of edges.
ForwardStep(from, to, trigger) ==
    /\ \E i \in 1 .. 8 : from = Forward[i] /\ to = Forward[i + 1]
    /\ from # "WAITING_FOR_APPROVAL" /\ trigger # "APPROVAL_GRANTED"

GrantStep(from, to, trigger) ==
    from = "WAITING_FOR_APPROVAL" /\ to = "BUILDING" /\ trigger = "APPROVAL_GRANTED"

StopStep(from, to, trigger) ==
    from \in Working /\ to \in Terminal /\ trigger # "APPROVAL_GRANTED"

LEMMA WorkingPhases ==
  Working = {"REQUESTED", "PLANNING", "PLAN_READY", "WAITING_FOR_APPROVAL", "BUILDING",
             "TESTING", "REVIEWING", "VERIFYING"}
BY DEF Working, Onward

LEMMA ForwardPath ==
  /\ Forward[1] = "REQUESTED" /\ Forward[2] = "PLANNING" /\ Forward[3] = "PLAN_READY"
  /\ Forward[4] = "WAITING_FOR_APPROVAL" /\ Forward[5] = "BUILDING" /\ Forward[6] = "TESTING"
  /\ Forward[7] = "REVIEWING" /\ Forward[8] = "VERIFYING" /\ Forward[9] = "VERIFIED"
  /\ Len(Forward) = 9
BY DEF Forward

LEMMA PhaseNames ==
  Phase = Early \cup {"BUILDING", "TESTING", "REVIEWING", "VERIFYING", "VERIFIED"} \cup Terminal
<1>1. Active = {Forward[i] : i \in 1 .. 9}
  BY DEF Active, Forward
<1>2. \A i \in 1 .. 9 : i \in {1, 2, 3, 4, 5, 6, 7, 8, 9}
  OBVIOUS
<1>3. Active = Early \cup {"BUILDING", "TESTING", "REVIEWING", "VERIFYING", "VERIFIED"}
  BY <1>1, <1>2, ForwardPath DEF Early
<1> QED
  BY <1>3 DEF Phase

LEMMA ForwardKinds ==
  ASSUME NEW from, NEW to, NEW trigger, <<from, to, trigger>> \in ForwardEdge
  PROVE  ForwardStep(from, to, trigger) \/ GrantStep(from, to, trigger)
<1>1. PICK i \in 1 .. 8 : from = Forward[i] /\ to = Forward[i + 1] /\ trigger = Onward[Forward[i]]
  BY ForwardPath DEF ForwardEdge
<1>2. i \in {1, 2, 3, 4, 5, 6, 7, 8}
  BY <1>1
<1>3. CASE i = 4
  BY <1>1, <1>3, ForwardPath DEF GrantStep, Onward
<1>4. CASE i # 4
  <2>1. from # "WAITING_FOR_APPROVAL" /\ trigger # "APPROVAL_GRANTED"
    BY <1>1, <1>2, <1>4, ForwardPath DEF Onward
  <2> QED
    BY <1>1, <2>1 DEF ForwardStep
<1> QED
  BY <1>3, <1>4

LEMMA FailureKinds ==
  ASSUME NEW from, NEW to, NEW trigger, <<from, to, trigger>> \in FailureEdge
  PROVE  StopStep(from, to, trigger)
BY WorkingPhases DEF FailureEdge, StopStep, Terminal

\* An edge is a step forward, the grant, or a stop.
LEMMA EdgeKinds ==
  ASSUME NEW from, NEW to, NEW trigger, CanTransition(from, to, trigger)
  PROVE  \/ ForwardStep(from, to, trigger) \/ GrantStep(from, to, trigger)
         \/ StopStep(from, to, trigger)
BY ForwardKinds, FailureKinds DEF CanTransition

LEMMA GrantIsEdge == CanTransition("WAITING_FOR_APPROVAL", "BUILDING", "APPROVAL_GRANTED")
<1>1. Onward["WAITING_FOR_APPROVAL"] = "APPROVAL_GRANTED"
  BY DEF Onward
<1>2. 4 \in 1 .. (Len(Forward) - 1) /\ 4 + 1 = 5
  BY ForwardPath
<1>3. <<Forward[4], Forward[4 + 1], Onward[Forward[4]]>> \in ForwardEdge
  BY <1>2 DEF ForwardEdge
<1> QED
  BY <1>1, <1>2, <1>3, ForwardPath DEF CanTransition

\* Where an edge can lead: never back to the phases before the build.
LEMMA EdgeEnds ==
  ASSUME NEW from, NEW to, NEW trigger, CanTransition(from, to, trigger)
  PROVE  to \in Phase /\ (to \in Early => from \in Early)
<1>1. CASE ForwardStep(from, to, trigger)
  <2>1. PICK i \in 1 .. 8 : from = Forward[i] /\ to = Forward[i + 1]
    BY <1>1 DEF ForwardStep
  <2>2. i \in {1, 2, 3, 4, 5, 6, 7, 8}
    BY <2>1
  <2> QED
    BY <2>1, <2>2, ForwardPath, PhaseNames DEF Early
<1>2. CASE GrantStep(from, to, trigger) \/ StopStep(from, to, trigger)
  BY <1>2, PhaseNames DEF GrantStep, StopStep, Terminal, Early
<1> QED
  BY <1>1, <1>2, EdgeKinds

-----------------------------------------------------------------------------
(* What a step does to the record. *)

Grants(e) == e.trigger = "APPROVAL_GRANTED"

Granted == \E i \in DOMAIN history : history[i].trigger = "APPROVAL_GRANTED"

\* A note on the record, the phase stays.
Noting == /\ phase' = phase /\ waivers' = waivers
          /\ history' = Append(history, Transition(phase, phase, "APPROVAL_REJECTED"))

Moving == /\ \E to, trigger : /\ CanTransition(phase, to, trigger) /\ phase' = to
                              /\ history' = Append(history, Transition(phase, to, trigger))
          /\ waivers' = waivers

Ledgering == \E actor \in Actor, k \in Waivable : GrantWaiver(actor, k) \/ RevokeWaiver(actor, k)

Recording == UNCHANGED <<phase, history, waivers>> \/ Noting \/ Moving \/ Ledgering

LEMMA AdvanceKind ==
  ASSUME NEW to, NEW trigger, Advance(to, trigger)
  PROVE  Recording
BY DEF Advance, Recording, Moving

LEMMA NoteKind == RecordEvent("APPROVAL_REJECTED") => Recording
BY DEF RecordEvent, Recording, Noting

\* An operation writes the record through advance, or adds a note, or not at all.
LEMMA OperationKind ==
  ASSUME NEW c \in Caller, Operation(c)
  PROVE  Recording
<1>1. CASE Plan(c)
  BY <1>1, AdvanceKind DEF Plan, run, Recording
<1>2. CASE PlanEnds(c)
  BY <1>2, AdvanceKind DEF PlanEnds
<1>3. CASE Build(c)
  BY <1>3, AdvanceKind, NoteKind DEF Build, run, Recording
<1>4. CASE AgentEnds(c) \/ TakeBaseline(c) \/ SessionThrows(c) \/ Test(c) \/ TestCurrent(c) \/ Review(c)
           \/ Verify(c)
  BY <1>4 DEF AgentEnds, TakeBaseline, SessionThrows, Test, TestCurrent, Review, Verify, run, Recording
<1>5. CASE BuildEnds(c)
  <2>1. PICK to, trigger : Advance(to, trigger)
    BY <1>5 DEF BuildEnds
  <2> QED
    BY <2>1, AdvanceKind
<1>6. CASE CaptureThrows(c)
  <2>1. PICK to, trigger : Advance(to, trigger)
    BY <1>6 DEF CaptureThrows, Conclude
  <2> QED
    BY <2>1, AdvanceKind
<1>7. CASE TestEnds(c)
  BY <1>7, AdvanceKind DEF TestEnds
<1>8. CASE ReviewEnds(c)
  BY <1>8, AdvanceKind DEF ReviewEnds
<1>9. CASE VerifyCurrent(c)
  BY <1>9, AdvanceKind DEF VerifyCurrent, Conclude, run, Recording
<1>10. CASE VerifyEnds(c)
  BY <1>10, AdvanceKind DEF VerifyEnds, Conclude
<1> QED
  BY <1>1, <1>2, <1>3, <1>4, <1>5, <1>6, <1>7, <1>8, <1>9, <1>10 DEF Operation

\* What is not a move adds an event that neither moves the run nor grants.
LEMMA AsideKind ==
  ASSUME Noting \/ Ledgering
  PROVE  /\ phase' = phase
         /\ \E e : ~Grants(e) /\ e.from = phase /\ e.to = phase /\ history' = Append(history, e)
<1>1. CASE Noting
  BY <1>1 DEF Noting, Transition, Grants
<1>2. CASE Ledgering
  <2>1. PICK actor \in Actor, k \in Waivable : GrantWaiver(actor, k) \/ RevokeWaiver(actor, k)
    BY <1>2 DEF Ledgering
  <2>2. \A kind : LET e == LedgerEvent(kind, k, actor)
                  IN  ~Grants(e) /\ e.from = phase /\ e.to = phase
    BY NoneIsNoTrigger DEF LedgerEvent, Grants, Trigger
  <2> QED
    BY <2>1, <2>2 DEF GrantWaiver, RevokeWaiver
<1> QED
  BY <1>1, <1>2

LEMMA HumanKind == Human => Recording
<1>1. ASSUME NEW d \in {"ApprovalGranted", "ApprovalRejected"}, DecideApproval(d) PROVE Recording
  BY <1>1, AdvanceKind DEF DecideApproval
<1>2. CASE RequestApproval
  BY <1>2, AdvanceKind DEF RequestApproval
<1>3. CASE LateRejection
  BY <1>3, NoteKind DEF LateRejection
<1>4. ASSUME NEW given, RecordEvidence(given) PROVE Recording
  BY <1>4 DEF RecordEvidence, Recording
<1>5. ASSUME NEW actor \in Actor, NEW k \in Waivable, GrantWaiver(actor, k) \/ RevokeWaiver(actor, k)
      PROVE  Recording
  BY <1>5 DEF Recording, Ledgering
<1> QED
  BY <1>1, <1>2, <1>3, <1>4, <1>5 DEF Human

LEMMA StepKind == [Next]_vars => Recording
<1>1. CASE Start
  BY <1>1, AdvanceKind DEF Start
<1>2. ASSUME NEW p, NEW v, Edit(p, v) PROVE Recording
  BY <1>2 DEF Edit, run, Recording
<1>3. CASE Commit \/ Tick \/ UNCHANGED vars
  BY <1>3 DEF Commit, Tick, vars, run, Recording
<1> QED
  BY <1>1, <1>2, <1>3, HumanKind, OperationKind DEF Next

-----------------------------------------------------------------------------
(* Types. *)

LEMMA EdgeTriggers ==
  ASSUME NEW from, NEW to, NEW trigger, CanTransition(from, to, trigger)
  PROVE  trigger \in Trigger
<1>1. CASE <<from, to, trigger>> \in ForwardEdge
  <2>1. PICK i \in 1 .. 8 : trigger = Onward[Forward[i]]
    BY <1>1, ForwardPath DEF ForwardEdge
  <2>2. i \in {1, 2, 3, 4, 5, 6, 7, 8}
    BY <2>1
  <2> QED
    BY <2>1, <2>2, ForwardPath DEF Onward, Trigger
<1>2. CASE <<from, to, trigger>> \in FailureEdge
  BY <1>2 DEF FailureEdge, Trigger
<1> QED
  BY <1>1, <1>2 DEF CanTransition

\* The types of the record, of the ledger, of the repository and of the calls.
RecordTyped ==
    /\ phase \in Phase /\ history \in Seq(Event) /\ story \in BOOLEAN
    /\ evidence \in [Evidence -> Standing]
    /\ waivers \in [Check -> Waiver \cup {None}]

RepoTyped ==
    /\ tree \in [Path -> Version] /\ head \in Nat /\ clock \in 0 .. MaxClock
    /\ edits \in 0 .. MaxEdits /\ faults \in 0 .. MaxFaults
    /\ agentMade \in [Path -> Version \cup {None}]
    /\ approval \in [decision : Decision, at : Nat]

Report == [status : {"success", "failure", "blocked", "scope-violation"}, next : Phase]

CallsTyped == call \in [Caller -> Call] /\ report \in [Caller -> Report \cup {None}]

LEMMA TypeParts == TypeOK <=> RecordTyped /\ RepoTyped /\ CallsTyped /\ upheld \subseteq Caller
BY DEF TypeOK, RecordTyped, RepoTyped, CallsTyped, Report

LEMMA TransitionTyped ==
  ASSUME NEW from \in Phase, NEW to \in Phase, NEW trigger \in Trigger
  PROVE  Transition(from, to, trigger) \in Event
BY DEF Transition, Event

LEMMA LedgerEventTyped ==
  ASSUME phase \in Phase, NEW actor \in Actor, NEW k \in Waivable,
         NEW kind \in {"waiver-grant", "waiver-revocation"}
  PROVE  LedgerEvent(kind, k, actor) \in Event
BY WaivableKnown DEF LedgerEvent, Event

\* A story is given once, and evidence is written by recordEvidence alone.
LEMMA EvidenceKind ==
  ASSUME [Next]_vars
  PROVE  /\ story' = story
         /\ \/ evidence' = evidence
            \/ \E given \in [Recordable -> Standing] : RecordEvidence(given)
<1>1. ASSUME NEW to, NEW trigger, Advance(to, trigger) PROVE story' = story /\ evidence' = evidence
  BY <1>1 DEF Advance
<1>2. ASSUME NEW c \in Caller, Operation(c) PROVE story' = story /\ evidence' = evidence
  <2>1. CASE Plan(c) \/ PlanEnds(c)
    BY <1>1, <2>1 DEF Plan, PlanEnds, run
  <2>2. CASE Build(c)
    BY <1>1, <2>2 DEF Build, RecordEvent, run
  <2>3. CASE \/ AgentEnds(c) \/ TakeBaseline(c) \/ SessionThrows(c) \/ Test(c) \/ TestCurrent(c) \/ Review(c)
             \/ Verify(c)
    BY <2>3 DEF AgentEnds, TakeBaseline, SessionThrows, Test, TestCurrent, Review, Verify, run
  <2>4. CASE BuildEnds(c)
    <3>1. PICK to, trigger : Advance(to, trigger)
      BY <2>4 DEF BuildEnds
    <3> QED
      BY <1>1, <3>1
  <2>5. CASE CaptureThrows(c)
    <3>1. PICK to, trigger : Advance(to, trigger)
      BY <2>5 DEF CaptureThrows, Conclude
    <3> QED
      BY <1>1, <3>1
  <2>6. CASE TestEnds(c) \/ ReviewEnds(c)
    BY <1>1, <2>6 DEF TestEnds, ReviewEnds
  <2>7. CASE VerifyCurrent(c)
    BY <1>1, <2>7 DEF VerifyCurrent, Conclude, run
  <2>8. CASE VerifyEnds(c)
    BY <1>1, <2>8 DEF VerifyEnds, Conclude
  <2> QED
    BY <1>2, <2>1, <2>2, <2>3, <2>4, <2>5, <2>6, <2>7, <2>8 DEF Operation
<1>3. ASSUME Human PROVE /\ story' = story
                         /\ \/ evidence' = evidence
                            \/ \E given \in [Recordable -> Standing] : RecordEvidence(given)
  <2>1. ASSUME NEW d \in {"ApprovalGranted", "ApprovalRejected"}, DecideApproval(d)
        PROVE  story' = story /\ evidence' = evidence
    BY <1>1, <2>1 DEF DecideApproval
  <2>2. CASE RequestApproval \/ LateRejection
    BY <1>1, <2>2 DEF RequestApproval, LateRejection, RecordEvent
  <2>3. ASSUME NEW actor, NEW k, GrantWaiver(actor, k) \/ RevokeWaiver(actor, k)
        PROVE  story' = story /\ evidence' = evidence
    BY <2>3 DEF GrantWaiver, RevokeWaiver
  <2>4. ASSUME NEW given, RecordEvidence(given) PROVE story' = story
    BY <2>4 DEF RecordEvidence
  <2> QED
    BY <1>3, <2>1, <2>2, <2>3, <2>4 DEF Human
<1>4. CASE Start
  BY <1>1, <1>4 DEF Start
<1>5. ASSUME NEW p, NEW v, Edit(p, v) PROVE story' = story /\ evidence' = evidence
  BY <1>5 DEF Edit, run
<1>6. CASE Commit \/ Tick \/ UNCHANGED vars
  BY <1>6 DEF Commit, Tick, vars, run
<1> QED
  BY <1>2, <1>3, <1>4, <1>5, <1>6 DEF Next

LEMMA WaiversTyped ==
  ASSUME RecordTyped, Ledgering
  PROVE  history' \in Seq(Event) /\ waivers' \in [Check -> Waiver \cup {None}]
<1>1. PICK actor \in Actor, k \in Waivable : GrantWaiver(actor, k) \/ RevokeWaiver(actor, k)
  BY DEF Ledgering
<1>2. phase \in Phase /\ history \in Seq(Event) /\ waivers \in [Check -> Waiver \cup {None}] /\ k \in Check
  BY WaivableKnown DEF RecordTyped
<1>3. CASE GrantWaiver(actor, k)
  <2>1. [by |-> actor, revoked |-> FALSE] \in Waiver
    BY DEF Waiver
  <2> QED
    BY <1>2, <1>3, <2>1, LedgerEventTyped DEF GrantWaiver
<1>4. CASE RevokeWaiver(actor, k)
  <2>1. waivers[k] \in Waiver
    BY <1>2, <1>4 DEF RevokeWaiver, InForce
  <2> DEFINE w == [waivers[k] EXCEPT !.revoked = TRUE]
  <2>2. w \in Waiver
    BY <2>1 DEF Waiver
  <2>3. /\ waivers' = [waivers EXCEPT ![k] = w]
        /\ history' = Append(history, LedgerEvent("waiver-revocation", k, actor))
    BY <1>4 DEF RevokeWaiver
  <2> HIDE DEF w
  <2> QED
    BY <1>2, <2>2, <2>3, LedgerEventTyped
<1> QED
  BY <1>1, <1>3, <1>4

LEMMA RecordTypes ==
  ASSUME RecordTyped, [Next]_vars
  PROVE  RecordTyped'
<1>1. phase \in Phase /\ history \in Seq(Event)
  BY DEF RecordTyped
<1>2. phase' \in Phase /\ history' \in Seq(Event) /\ waivers' \in [Check -> Waiver \cup {None}]
  <2>1. CASE UNCHANGED <<phase, history, waivers>>
    BY <2>1 DEF RecordTyped
  <2>2. CASE Noting
    <3>1. Transition(phase, phase, "APPROVAL_REJECTED") \in Event
      BY <1>1, TransitionTyped DEF Trigger
    <3> QED
      BY <1>1, <2>2, <3>1 DEF Noting, RecordTyped
  <2>3. CASE Moving
    <3>1. PICK to, trigger : /\ CanTransition(phase, to, trigger) /\ phase' = to
                             /\ history' = Append(history, Transition(phase, to, trigger))
      BY <2>3 DEF Moving
    <3>2. to \in Phase /\ Transition(phase, to, trigger) \in Event
      BY <1>1, <3>1, EdgeEnds, EdgeTriggers, TransitionTyped
    <3> QED
      BY <1>1, <2>3, <3>1, <3>2 DEF Moving, RecordTyped
  <2>4. CASE Ledgering
    BY <1>1, <2>4, WaiversTyped, AsideKind
  <2> QED
    BY <2>1, <2>2, <2>3, <2>4, StepKind DEF Recording
<1>3. evidence' \in [Evidence -> Standing] /\ story' \in BOOLEAN
  BY EvidenceKind, RecordableKnown DEF RecordTyped, RecordEvidence
<1> QED
  BY <1>2, <1>3 DEF RecordTyped

LEMMA BoundsTyped ==
  /\ MaxClock \in Nat /\ MaxEdits \in Nat /\ MaxFaults \in Nat
  /\ 0 .. MaxClock \subseteq Nat
BY Bounds

LEMMA CaptureTyped ==
  ASSUME NEW s, Capture(s), faults \in 0 .. MaxFaults
  PROVE  faults' \in 0 .. MaxFaults
BY BoundsTyped DEF Capture

\* What an operation leaves alone: the tree, the clock, and the gate unless it is build.
LEMMA OperationRepo ==
  ASSUME RepoTyped, NEW c \in Caller, Operation(c)
  PROVE  RepoTyped'
<1>1. CASE \/ Plan(c) \/ PlanEnds(c) \/ AgentEnds(c) \/ CaptureThrows(c) \/ SessionThrows(c) \/ Test(c)
           \/ TestEnds(c) \/ Review(c) \/ ReviewEnds(c) \/ Verify(c) \/ VerifyEnds(c)
  <2>1. UNCHANGED <<approval, repo, clock, faults>>
    BY <1>1 DEF Plan, PlanEnds, AgentEnds, CaptureThrows, SessionThrows, Test, TestEnds, Review, ReviewEnds,
       Verify, VerifyEnds
  <2> QED
    BY <2>1 DEF RepoTyped, repo
<1>2. CASE TakeBaseline(c) \/ BuildEnds(c) \/ TestCurrent(c) \/ VerifyCurrent(c)
  <2>1. UNCHANGED <<approval, repo, clock>> /\ \E s : Capture(s)
    BY <1>2 DEF TakeBaseline, BuildEnds, TestCurrent, VerifyCurrent
  <2> QED
    BY <2>1, CaptureTyped DEF RepoTyped, repo
<1>3. CASE Build(c)
  <2>1. UNCHANGED <<repo, clock, faults>>
        /\ (UNCHANGED approval \/ approval' = [decision |-> "ApprovalRequired", at |-> clock])
    BY <1>3 DEF Build
  <2> QED
    BY <2>1, BoundsTyped DEF RepoTyped, repo, Decision
<1> QED
  BY <1>1, <1>2, <1>3 DEF Operation

LEMMA RepoTypes ==
  ASSUME RepoTyped, [Next]_vars
  PROVE  RepoTyped'
<1>1. CASE Start \/ LateRejection \/ UNCHANGED vars
  BY <1>1 DEF Start, LateRejection, vars, RepoTyped, repo
<1>2. CASE RequestApproval
  BY <1>2, BoundsTyped DEF RequestApproval, RepoTyped, repo, Decision
<1>3. ASSUME NEW d \in {"ApprovalGranted", "ApprovalRejected"}, DecideApproval(d) PROVE RepoTyped'
  BY <1>3, BoundsTyped DEF DecideApproval, RepoTyped, repo, Decision
<1>4. ASSUME NEW actor, NEW k, GrantWaiver(actor, k) \/ RevokeWaiver(actor, k) PROVE RepoTyped'
  BY <1>4 DEF GrantWaiver, RevokeWaiver, RepoTyped, repo
<1>5. ASSUME NEW given, RecordEvidence(given) PROVE RepoTyped'
  BY <1>5 DEF RecordEvidence, RepoTyped, repo
<1>6. ASSUME NEW p \in Path, NEW v \in Version, Edit(p, v) PROVE RepoTyped'
  <2>1. agentMade' \in [Path -> Version \cup {None}]
    BY <1>6 DEF Edit, RepoTyped
  <2> QED
    BY <1>6, <2>1, BoundsTyped DEF Edit, RepoTyped
<1>7. CASE Commit
  BY <1>7, BoundsTyped DEF Commit, RepoTyped, Version
<1>8. CASE Tick
  BY <1>8, BoundsTyped DEF Tick, RepoTyped, repo
<1> QED
  BY <1>1, <1>2, <1>3, <1>4, <1>5, <1>6, <1>7, <1>8, OperationRepo DEF Next, Human

\* What git reports of the tree is a snapshot, also when a command failed.
LEMMA ReadingTyped ==
  ASSUME RepoTyped, NEW s \in Reading
  PROVE  s \in Snapshot
<1>1. Flags \in [Path -> Flag]
  <2>1. \A v \in Version : FlagOf[v] \in Flag
    BY DEF Version, FlagOf, Flag
  <2> QED
    BY <2>1 DEF Flags, RepoTyped
<1>2. NoFlags \in [Path -> Flag]
  BY DEF NoFlags, Flag
<1> QED
  BY <1>1, <1>2 DEF Reading, Snapshot, RepoTyped

LEMMA IdleTyped == Idle \in Call /\ \A s \in Stage : [Idle EXCEPT !.pc = s] \in Call
BY DEF Idle, Call, Stage

LEMMA ChangedTyped ==
  ASSUME NEW base, NEW now
  PROVE  Changed(base, now) \subseteq Path
BY DEF Changed

LEMMA CallPut ==
  ASSUME CallsTyped, NEW c \in Caller, NEW x \in Call, call' = [call EXCEPT ![c] = x]
  PROVE  call' \in [Caller -> Call]
BY DEF CallsTyped

LEMMA LeaveTyped ==
  ASSUME CallsTyped, NEW c \in Caller, Leave(c)
  PROVE  call' \in [Caller -> Call]
BY IdleTyped, CallPut DEF Leave

LEMMA EnterTyped ==
  ASSUME CallsTyped, NEW c \in Caller, NEW s \in Stage, Enter(c, s)
  PROVE  call' \in [Caller -> Call]
BY IdleTyped, CallPut DEF Enter

LEMMA ConcludeTyped ==
  ASSUME CallsTyped, phase \in Phase, NEW c \in Caller, NEW to, NEW trigger,
         NEW status \in {"success", "failure", "blocked", "scope-violation"},
         Conclude(c, status, to, trigger)
  PROVE  CallsTyped'
<1>1. call' \in [Caller -> Call]
  BY LeaveTyped DEF Conclude
<1> DEFINE r == IF CanTransition(phase, to, trigger) THEN [status |-> status, next |-> to]
                ELSE [status |-> "failure", next |-> IF phase = "VERIFIED" THEN "FAILED" ELSE phase]
<1>2. r \in Report
  BY EdgeEnds, PhaseNames DEF Report, Terminal
<1>3. report' = [report EXCEPT ![c] = r]
  BY DEF Conclude
<1> HIDE DEF r
<1>4. report' \in [Caller -> Report \cup {None}]
  BY <1>2, <1>3 DEF CallsTyped
<1> QED
  BY <1>1, <1>4 DEF CallsTyped

LEMMA GuardStops ==
  ASSUME NEW base, NEW now, NEW scoped, GuardStop(base, now, scoped) # None
  PROVE  GuardStop(base, now, scoped) \in {<<"BLOCKED", "EXTERNAL_BLOCK">>,
                                           <<"SCOPE_VIOLATION", "SCOPE_VIOLATION_DETECTED">>}
BY DEF GuardStop

\* A call that goes on is a call.
LEMMA CallGoesOn ==
  ASSUME NEW x \in Call
  PROVE  /\ \A s \in Snapshot, p \in Stage : [x EXCEPT !.base = s, !.pc = p] \in Call
         /\ \A p \in Stage : [x EXCEPT !.pc = p] \in Call
         /\ \A ch \in SUBSET Path, p \in Stage : [x EXCEPT !.changed = ch, !.pc = p] \in Call
         /\ \A ch \in SUBSET Path, p \in Stage, g \in BOOLEAN :
               [x EXCEPT !.pc = p, !.changed = ch, !.gitOk = g] \in Call
BY DEF Call

LEMMA VerifyTyped ==
  ASSUME RecordTyped, CallsTyped, NEW c \in Caller, Verify(c)
  PROVE  CallsTyped'
<1> DEFINE r == \E i \in DOMAIN history : history[i].trigger = "REVIEW_COMPLETED"
           v == [evidence |-> evidence, waivers |-> waivers, reviewed |-> r]
           x == [Idle EXCEPT !.pc = "verify_baseline", !.view = v]
<1>1. r \in BOOLEAN
  BY Zenon
<1>2. call' = [call EXCEPT ![c] = x] /\ report' = report
  BY DEF Verify
<1> HIDE DEF r
<1>3. v \in View
  BY <1>1 DEF View, RecordTyped
<1> HIDE DEF v
<1>4. x \in Call
  BY <1>3 DEF Idle, Call, Stage
<1> HIDE DEF x
<1> QED
  BY <1>2, <1>4, CallPut DEF CallsTyped

LEMMA BaselineTyped ==
  ASSUME RepoTyped, CallsTyped, NEW c \in Caller, TakeBaseline(c)
  PROVE  CallsTyped'
<1>1. PICK s \in Reading : call' = [call EXCEPT ![c].base = s, ![c].pc = AfterBaseline[call[c].pc]]
  BY DEF TakeBaseline
<1>2. AfterBaseline[call[c].pc] \in Stage
  BY DEF TakeBaseline, AfterBaseline, Stage
<1> DEFINE p == AfterBaseline[call[c].pc]
           x == [call[c] EXCEPT !.base = s, !.pc = p]
<1>3. call' = [call EXCEPT ![c] = x]
  BY <1>1 DEF CallsTyped
<1> HIDE DEF p
<1>4. x \in Call
  BY <1>2, CallGoesOn, ReadingTyped DEF CallsTyped, p
<1> HIDE DEF x
<1> QED
  BY <1>3, <1>4, CallPut DEF CallsTyped, TakeBaseline

LEMMA TestCurrentTyped ==
  ASSUME CallsTyped, NEW c \in Caller, TestCurrent(c)
  PROVE  CallsTyped'
<1>1. PICK s \in Reading :
        call' = [call EXCEPT ![c].changed = Changed(call[c].base, s), ![c].pc = "test_checks"]
  BY DEF TestCurrent
<1> DEFINE ch == Changed(call[c].base, s)
           x  == [call[c] EXCEPT !.changed = ch, !.pc = "test_checks"]
<1>2. call' = [call EXCEPT ![c] = x]
  BY <1>1
<1>3. ch \in SUBSET Path
  BY ChangedTyped
<1> HIDE DEF ch
<1>4. x \in Call
  BY <1>3, CallGoesOn DEF CallsTyped, Stage
<1> HIDE DEF x
<1> QED
  BY <1>2, <1>4, CallPut DEF CallsTyped, TestCurrent

LEMMA VerifyCurrentTyped ==
  ASSUME RecordTyped, CallsTyped, NEW c \in Caller, VerifyCurrent(c)
  PROVE  CallsTyped'
<1>1. PICK s \in Reading :
        LET base == call[c].base
            stop == GuardStop(base, s, call[c].view.evidence["scope-clean"] = "passed")
        IN  IF stop = None
            THEN /\ call' = [call EXCEPT ![c].pc = "verify_checks", ![c].changed = Changed(base, s),
                                         ![c].gitOk = base.head # None]
                 /\ UNCHANGED <<run, report>>
            ELSE Conclude(c, IF stop[1] = "BLOCKED" THEN "blocked" ELSE "scope-violation", stop[1], stop[2])
  BY DEF VerifyCurrent
<1> DEFINE stop == GuardStop(call[c].base, s, call[c].view.evidence["scope-clean"] = "passed")
<1>2. CASE stop = None
  <2> DEFINE ch == Changed(call[c].base, s)
             g  == call[c].base.head # None
             x  == [call[c] EXCEPT !.pc = "verify_checks", !.changed = ch, !.gitOk = g]
  <2>1. call' = [call EXCEPT ![c] = x] /\ report' = report
    BY <1>1, <1>2
  <2>2. ch \in SUBSET Path /\ g \in BOOLEAN
    BY ChangedTyped
  <2> HIDE DEF ch, g
  <2>3. x \in Call
    BY <2>2, CallGoesOn DEF CallsTyped, Stage
  <2> HIDE DEF x
  <2> QED
    BY <2>1, <2>3, CallPut DEF CallsTyped
<1>3. CASE stop # None
  <2> DEFINE status == IF stop[1] = "BLOCKED" THEN "blocked" ELSE "scope-violation"
  <2>1. Conclude(c, status, stop[1], stop[2])
    BY <1>1, <1>3
  <2>2. status \in {"success", "failure", "blocked", "scope-violation"}
    OBVIOUS
  <2> HIDE DEF status, stop
  <2> QED
    BY <2>1, <2>2, ConcludeTyped DEF RecordTyped
<1> QED
  BY <1>2, <1>3

LEMMA OperationCalls ==
  ASSUME RecordTyped, RepoTyped, CallsTyped, NEW c \in Caller, Operation(c)
  PROVE  CallsTyped'
<1> USE DEF CallsTyped
<1>1. CASE Plan(c)
  <2>1. report' = report /\ (call' = call \/ Enter(c, "planning"))
    BY <1>1 DEF Plan
  <2> QED
    BY <2>1, EnterTyped DEF Stage
<1>2. CASE Build(c)
  <2>1. report' = report /\ (call' = call \/ Enter(c, "build_baseline"))
    BY <1>2 DEF Build
  <2> QED
    BY <2>1, EnterTyped DEF Stage
<1>3. CASE PlanEnds(c) \/ SessionThrows(c) \/ BuildEnds(c) \/ TestEnds(c) \/ ReviewEnds(c)
  <2>1. report' = report /\ Leave(c)
    BY <1>3 DEF PlanEnds, SessionThrows, BuildEnds, TestEnds, ReviewEnds
  <2> QED
    BY <2>1, LeaveTyped
<1>4. CASE AgentEnds(c)
  <2> DEFINE x == [call[c] EXCEPT !.pc = "build_current"]
  <2>1. call' = [call EXCEPT ![c] = x] /\ report' = report
    BY <1>4 DEF AgentEnds
  <2>2. x \in Call
    BY CallGoesOn DEF Stage
  <2> HIDE DEF x
  <2> QED
    BY <2>1, <2>2, CallPut
<1>5. CASE TakeBaseline(c)
  BY <1>5, BaselineTyped
<1>6. CASE CaptureThrows(c)
  <2>1. (Leave(c) /\ report' = report) \/ Conclude(c, "blocked", "BLOCKED", "EXTERNAL_BLOCK")
    BY <1>6 DEF CaptureThrows
  <2> QED
    BY <2>1, LeaveTyped, ConcludeTyped DEF RecordTyped
<1>7. CASE Test(c)
  BY <1>7, EnterTyped DEF Test, Stage
<1>8. CASE Review(c)
  BY <1>8, EnterTyped DEF Review, Stage
<1>9. CASE TestCurrent(c)
  BY <1>9, TestCurrentTyped
<1>10. CASE Verify(c)
  BY <1>10, VerifyTyped
<1>11. CASE VerifyCurrent(c)
  BY <1>11, VerifyCurrentTyped
<1>12. CASE VerifyEnds(c)
  <2>1. \/ Conclude(c, "success", "VERIFIED", "VERIFICATION_COMPLETED")
        \/ Conclude(c, "failure", "FAILED", "VERIFICATION_FAILED")
    BY <1>12 DEF VerifyEnds
  <2> QED
    BY <2>1, ConcludeTyped DEF RecordTyped
<1> QED
  BY <1>1, <1>2, <1>3, <1>4, <1>5, <1>6, <1>7, <1>8, <1>9, <1>10, <1>11, <1>12 DEF Operation

\* Only the operations of a run write the calls and what they answer.
LEMMA CallsKind ==
  ASSUME [Next]_vars
  PROVE  UNCHANGED <<call, report>> \/ \E c \in Caller : Operation(c)
BY DEF Next, Start, Human, RequestApproval, LateRejection, DecideApproval, GrantWaiver, RevokeWaiver,
   RecordEvidence, Edit, Commit, Tick, vars

\* Only the start of a verify takes a caller out of upheld, and then itself.
LEMMA UpheldKind ==
  ASSUME [Next]_vars
  PROVE  /\ upheld \subseteq Caller => upheld' \subseteq Caller
         /\ \/ upheld \subseteq upheld'
            \/ \E c \in Caller : Verify(c) /\ upheld \ {c} \subseteq upheld'
<1>1. CASE Upheld
  BY <1>1 DEF Upheld
<1>2. CASE upheld' = upheld
  BY <1>2
<1>3. ASSUME NEW c \in Caller, Verify(c)
      PROVE  /\ upheld \subseteq Caller => upheld' \subseteq Caller
             /\ upheld \ {c} \subseteq upheld'
  BY <1>3 DEF Verify
<1>4. ASSUME NEW c \in Caller, Operation(c), ~Verify(c) PROVE upheld' = upheld
  <2>1. CASE \/ Plan(c) \/ PlanEnds(c) \/ Build(c) \/ AgentEnds(c) \/ BuildEnds(c) \/ TakeBaseline(c)
             \/ SessionThrows(c)
    BY <2>1 DEF Plan, PlanEnds, Build, AgentEnds, BuildEnds, TakeBaseline, SessionThrows
  <2>2. CASE \/ CaptureThrows(c) \/ Test(c) \/ TestCurrent(c) \/ TestEnds(c) \/ Review(c) \/ ReviewEnds(c)
             \/ VerifyCurrent(c) \/ VerifyEnds(c)
    BY <2>2 DEF CaptureThrows, Test, TestCurrent, TestEnds, Review, ReviewEnds, VerifyCurrent, VerifyEnds
  <2> QED
    BY <1>4, <2>1, <2>2 DEF Operation
<1>5. Human => Upheld \/ upheld' = upheld
  BY DEF Human, RequestApproval, LateRejection, DecideApproval, GrantWaiver, RevokeWaiver, RecordEvidence
<1>6. ASSUME Start \/ Commit \/ Tick \/ UNCHANGED vars PROVE upheld' = upheld
  BY <1>6 DEF Start, Commit, Tick, vars
<1>7. ASSUME NEW p, NEW v, Edit(p, v) PROVE upheld' = upheld
  BY <1>7 DEF Edit
<1> QED
  BY <1>1, <1>2, <1>3, <1>4, <1>5, <1>6, <1>7 DEF Next

LEMMA InitTypes == Init => TypeOK
<1> SUFFICES ASSUME Init PROVE TypeOK
  OBVIOUS
<1>1. RecordTyped
  BY PhaseNames DEF Init, RecordTyped, Early, Standing
<1>2. RepoTyped
  BY BoundsTyped DEF Init, RepoTyped, Decision, Version
<1>3. CallsTyped
  BY IdleTyped DEF Init, CallsTyped
<1>4. upheld \subseteq Caller
  BY DEF Init
<1> QED
  BY <1>1, <1>2, <1>3, <1>4, TypeParts

LEMMA StepTypes ==
  ASSUME TypeOK, [Next]_vars
  PROVE  TypeOK'
<1>1. RecordTyped /\ RepoTyped /\ CallsTyped
  BY TypeParts
<1>2. RecordTyped' /\ RepoTyped'
  BY <1>1, RecordTypes, RepoTypes
<1>3. CallsTyped' /\ upheld' \subseteq Caller
  BY <1>1, CallsKind, OperationCalls, UpheldKind, TypeParts DEF CallsTyped
<1> QED
  BY <1>2, <1>3 DEF TypeOK, RecordTyped, RepoTyped, CallsTyped, Report

\* Every field of a run, its gate, its repository and its calls keeps its type, for any
\* number of callers, paths, actors, edits and faults.
THEOREM TypeCorrect == Spec => []TypeOK
<1>1. Init => TypeOK
  BY InitTypes
<1>2. TypeOK /\ [Next]_vars => TypeOK'
  BY StepTypes
<1> QED
  BY <1>1, <1>2, PTL DEF Spec

-----------------------------------------------------------------------------
(* The approval gate. *)

\* The three ways the gate's record is written, with the phase they are written in.
LEMMA GateKind ==
  ASSUME [Next]_vars, approval' # approval
  PROVE  \/ phase = "PLAN_READY" /\ approval'.decision = "ApprovalRequired"
         \/ /\ phase = "WAITING_FOR_APPROVAL"
            /\ \/ approval'.decision = "ApprovalGranted" /\ phase' = "BUILDING"
               \/ approval'.decision = "ApprovalRejected"
         \/ /\ phase = "BUILDING" /\ phase' = "BUILDING" /\ Expired
            /\ approval'.decision = "ApprovalRequired"
<1> DEFINE Goal == \/ phase = "PLAN_READY" /\ approval'.decision = "ApprovalRequired"
                   \/ /\ phase = "WAITING_FOR_APPROVAL"
                      /\ \/ approval'.decision = "ApprovalGranted" /\ phase' = "BUILDING"
                         \/ approval'.decision = "ApprovalRejected"
                   \/ /\ phase = "BUILDING" /\ phase' = "BUILDING" /\ Expired
                      /\ approval'.decision = "ApprovalRequired"
<1>1. CASE RequestApproval
  BY <1>1 DEF RequestApproval
<1>2. ASSUME NEW d \in {"ApprovalGranted", "ApprovalRejected"}, DecideApproval(d) PROVE Goal
  <2>1. phase = "WAITING_FOR_APPROVAL" /\ approval'.decision = d
    BY <1>2 DEF DecideApproval
  <2>2. d = "ApprovalGranted" => phase' = "BUILDING"
    BY <1>2, <2>1, GrantIsEdge DEF DecideApproval, Advance, EffectiveTarget
  <2> QED
    BY <2>1, <2>2
<1>3. ASSUME NEW c \in Caller, Operation(c) PROVE Goal
  <2>1. CASE Build(c)
    BY <2>1 DEF Build, RecordEvent
  <2>2. CASE ~Build(c)
    <3>1. UNCHANGED approval
      BY <1>3, <2>2 DEF Operation, Plan, PlanEnds, AgentEnds, BuildEnds, TakeBaseline, CaptureThrows,
         SessionThrows, Test, TestCurrent, TestEnds, Review, ReviewEnds, Verify, VerifyCurrent, VerifyEnds
    <3> QED
      BY <3>1
  <2> QED
    BY <2>1, <2>2
<1>4. CASE \/ LateRejection \/ Start \/ Commit \/ Tick \/ UNCHANGED vars
           \/ \E actor \in Actor, k \in Waivable : GrantWaiver(actor, k) \/ RevokeWaiver(actor, k)
           \/ \E given \in [Recordable -> Standing] : RecordEvidence(given)
           \/ \E p \in Path, v \in Version : Edit(p, v)
  <2>1. UNCHANGED approval
    BY <1>4 DEF LateRejection, Start, Commit, Tick, vars, GrantWaiver, RevokeWaiver, RecordEvidence, Edit
  <2> QED
    BY <2>1
<1> QED
  BY <1>1, <1>2, <1>3, <1>4 DEF Next, Human

\* Before the build there is no grant, neither on the record nor on the gate.
Ungranted == phase \in Early => ~Granted /\ approval.decision # "ApprovalGranted"

IsRecord == \E S : history \in Seq(S)

Kept == phase \in Phase /\ IsRecord /\ Ungranted

\* A grant is on the longer record if it was there or is the event added.
LEMMA GrantAdded ==
  ASSUME IsRecord, NEW e, history' = Append(history, e)
  PROVE  IsRecord' /\ (Granted' <=> Granted \/ Grants(e))
<1>1. PICK S : history \in Seq(S)
  BY DEF IsRecord
<1>2. history \in Seq(S \cup {e})
  BY <1>1
<1>3. history' \in Seq(S \cup {e})
  BY <1>2
<1>4. /\ Len(history') = Len(history) + 1 /\ Len(history) \in Nat
      /\ history'[Len(history) + 1] = e
      /\ \A i \in 1 .. Len(history) : history'[i] = history[i]
      /\ DOMAIN history = 1 .. Len(history) /\ DOMAIN history' = 1 .. Len(history) + 1
  BY <1>1, <1>2, <1>3
<1>5. Granted' <=> Granted \/ Grants(e)
  BY <1>4 DEF Granted, Grants
<1> QED
  BY <1>3, <1>5 DEF IsRecord

LEMMA InitKept == Init => Kept
<1> SUFFICES ASSUME Init PROVE Kept
  OBVIOUS
<1>1. history = <<>> /\ history \in Seq({})
  BY DEF Init
<1>2. ~Granted
  BY <1>1 DEF Granted
<1> QED
  BY <1>1, <1>2, PhaseNames DEF Init, Kept, IsRecord, Ungranted, Early

\* Before the build the record gains no grant.
LEMMA RecordKept ==
  ASSUME Kept, [Next]_vars
  PROVE  /\ phase' \in Phase /\ IsRecord' /\ (phase' \in Early => phase \in Early /\ ~Granted')
<1>1. CASE UNCHANGED <<phase, history>>
  BY <1>1 DEF Kept, IsRecord, Ungranted, Granted
<1>2. CASE Noting \/ Ledgering
  <2>1. PICK e : ~Grants(e) /\ history' = Append(history, e)
    BY <1>2, AsideKind
  <2> QED
    BY <1>2, <2>1, AsideKind, GrantAdded DEF Kept, Ungranted
<1>3. CASE Moving
  <2>1. PICK to, trigger : /\ CanTransition(phase, to, trigger) /\ phase' = to
                           /\ history' = Append(history, Transition(phase, to, trigger))
    BY <1>3 DEF Moving
  <2> DEFINE e == Transition(phase, to, trigger)
  <2>2. to \in Phase /\ (to \in Early => phase \in Early)
    BY <2>1, EdgeEnds
  <2>3. Grants(e) => to = "BUILDING"
    BY <2>1, EdgeKinds DEF Grants, Transition, ForwardStep, GrantStep, StopStep
  <2> HIDE DEF e
  <2>4. IsRecord' /\ (Granted' <=> Granted \/ Grants(e))
    BY <2>1, GrantAdded DEF Kept, e
  <2> QED
    BY <2>1, <2>2, <2>3, <2>4 DEF Kept, Ungranted, Early
<1> QED
  BY <1>1, <1>2, <1>3, StepKind DEF Recording

LEMMA StepKept ==
  ASSUME Kept, [Next]_vars
  PROVE  Kept'
<1>1. /\ phase' \in Phase /\ IsRecord' /\ (phase' \in Early => phase \in Early /\ ~Granted')
  BY RecordKept
<1>2. ASSUME phase' \in Early PROVE approval'.decision # "ApprovalGranted"
  <2>1. CASE approval' = approval
    BY <1>1, <1>2, <2>1 DEF Kept, Ungranted
  <2>2. CASE approval' # approval
    BY <1>2, <2>2, GateKind DEF Early
  <2> QED
    BY <2>1, <2>2
<1> QED
  BY <1>1, <1>2 DEF Kept, Ungranted

\* The invariant: before the build no grant is on the record or on the gate.
THEOREM KeptInvariant == Spec => []Kept
<1>1. Init => Kept
  BY InitKept
<1>2. Kept /\ [Next]_vars => Kept'
  BY StepKept
<1> QED
  BY <1>1, <1>2, PTL DEF Spec

\* Once given, a grant stays on the gate until build() finds it expired, whatever is
\* asked, rejected or built meanwhile and by however many callers.
THEOREM GrantStandsAlways == Spec => GrantStands
<1>1. ASSUME Kept, [Next]_vars, approval.decision = "ApprovalGranted",
             approval'.decision # "ApprovalGranted"
      PROVE  clock - approval.at > Validity /\ phase' = "BUILDING"
  BY <1>1, GateKind DEF Kept, Ungranted, Early, Expired
<1>2. Kept /\ [Next]_vars =>
        [approval.decision = "ApprovalGranted" /\ approval'.decision # "ApprovalGranted"
         => clock - approval.at > Validity /\ phase' = "BUILDING"]_vars
  BY <1>1
<1> QED
  BY <1>2, KeptInvariant, PTL DEF Spec, GrantStands

-----------------------------------------------------------------------------
(* The record and the reports. *)

\* The phase after the first n events of the record.
After(n) == IF n = 0 THEN "REQUESTED" ELSE history[n].to

\* A move along the path, or the stop that ends it.
Onwards(from, to) ==
    \E n \in 1 .. (Len(Forward) - 1) : from = Forward[n] /\ to \in {Forward[n + 1]} \cup Terminal

LEMMA MatchParts ==
  RecordMatchesPhase <=>
    /\ phase = After(Len(history))
    /\ \A i \in DOMAIN history :
         /\ history[i].from = After(i - 1)
         /\ history[i].from # history[i].to => Onwards(history[i].from, history[i].to)
BY DEF RecordMatchesPhase, After, Onwards

LEMMA EdgeOnwards ==
  ASSUME NEW from, NEW to, NEW trigger, CanTransition(from, to, trigger)
  PROVE  Onwards(from, to)
<1>1. CASE ForwardStep(from, to, trigger)
  <2>1. PICK i \in 1 .. 8 : from = Forward[i] /\ to = Forward[i + 1]
    BY <1>1 DEF ForwardStep
  <2> QED
    BY <2>1, ForwardPath DEF Onwards
<1>2. CASE GrantStep(from, to, trigger)
  <2>1. 4 \in 1 .. (Len(Forward) - 1) /\ from = Forward[4] /\ to = Forward[4 + 1]
    BY <1>2, ForwardPath DEF GrantStep
  <2> QED
    BY <2>1 DEF Onwards
<1>3. CASE StopStep(from, to, trigger)
  <2>1. \E i \in 1 .. 8 : from = Forward[i]
    BY <1>3, WorkingPhases, ForwardPath DEF StopStep
  <2> QED
    BY <1>3, <2>1, ForwardPath DEF Onwards, StopStep
<1> QED
  BY <1>1, <1>2, <1>3, EdgeKinds

\* What one more event does to a record.
LEMMA Longer ==
  ASSUME history \in Seq(Event), NEW e, history' = Append(history, e)
  PROVE  /\ Len(history) \in Nat /\ Len(history') = Len(history) + 1
         /\ DOMAIN history = 1 .. Len(history) /\ DOMAIN history' = 1 .. Len(history) + 1
         /\ history'[Len(history) + 1] = e
         /\ \A i \in 1 .. Len(history) : history'[i] = history[i]
OBVIOUS

\* A record stays a chain when an event is added that begins where it ends.
LEMMA ChainExtends ==
  ASSUME history \in Seq(Event), RecordMatchesPhase, NEW e, history' = Append(history, e),
         e.from = phase, e.to = phase', phase # phase' => Onwards(phase, phase')
  PROVE  RecordMatchesPhase'
<1> DEFINE L == Len(history)
<1>1. /\ L \in Nat /\ Len(history') = L + 1 /\ DOMAIN history = 1 .. L /\ DOMAIN history' = 1 .. L + 1
      /\ history'[L + 1] = e /\ \A i \in 1 .. L : history'[i] = history[i]
  BY Longer
<1> DEFINE Ends(n) == IF n = 0 THEN "REQUESTED" ELSE history'[n].to
<1>2. \A i \in 0 .. L : Ends(i) = After(i)
  BY <1>1 DEF After
<1>3. phase = After(L)
  BY MatchParts
<1>4. ASSUME NEW i \in 1 .. L + 1
      PROVE  /\ history'[i].from = Ends(i - 1)
             /\ history'[i].from # history'[i].to => Onwards(history'[i].from, history'[i].to)
  <2>1. CASE i \in 1 .. L
    <3>1. history'[i] = history[i] /\ i - 1 \in 0 .. L
      BY <1>1, <2>1
    <3> QED
      BY <1>1, <1>2, <2>1, <3>1, MatchParts
  <2>2. CASE i = L + 1
    <3>1. i - 1 = L /\ L \in 0 .. L
      BY <1>1, <2>2
    <3> QED
      BY <1>1, <1>2, <1>3, <2>2, <3>1
  <2> QED
    BY <1>1, <2>1, <2>2
<1>5. phase' = Ends(Len(history'))
  BY <1>1
<1> QED
  BY <1>1, <1>4, <1>5 DEF RecordMatchesPhase, After, Onwards

LEMMA MatchStep ==
  ASSUME TypeOK, RecordMatchesPhase, [Next]_vars
  PROVE  RecordMatchesPhase'
<1>1. history \in Seq(Event)
  BY DEF TypeOK
<1>2. CASE UNCHANGED <<phase, history, waivers>>
  BY <1>2 DEF RecordMatchesPhase
<1>3. CASE Noting \/ Ledgering
  <2>1. PICK e : e.from = phase /\ e.to = phase /\ history' = Append(history, e)
    BY <1>3, AsideKind
  <2> QED
    BY <1>1, <1>3, <2>1, AsideKind, ChainExtends
<1>4. CASE Moving
  <2>1. PICK to, trigger : /\ CanTransition(phase, to, trigger) /\ phase' = to
                           /\ history' = Append(history, Transition(phase, to, trigger))
    BY <1>4 DEF Moving
  <2> DEFINE e == Transition(phase, to, trigger)
  <2>2. e.from = phase /\ e.to = to
    BY DEF Transition
  <2>3. Onwards(phase, phase')
    BY <2>1, EdgeOnwards
  <2> HIDE DEF e
  <2> QED
    BY <1>1, <2>1, <2>2, <2>3, ChainExtends DEF e
<1> QED
  BY <1>2, <1>3, <1>4, StepKind DEF Recording

\* A verified run moves no further.
LEMMA VerifiedStays ==
  ASSUME phase = "VERIFIED", [Next]_vars
  PROVE  phase' = "VERIFIED"
<1>1. ASSUME NEW to, NEW trigger PROVE ~CanTransition("VERIFIED", to, trigger)
  <2>1. \A i \in 1 .. 8 : Forward[i] # "VERIFIED"
    <3>1. \A i \in 1 .. 8 : i \in {1, 2, 3, 4, 5, 6, 7, 8}
      OBVIOUS
    <3> QED
      BY <3>1, ForwardPath
  <2> QED
    BY <2>1, EdgeKinds, WorkingPhases DEF ForwardStep, GrantStep, StopStep
<1> QED
  BY <1>1, AsideKind, StepKind DEF Recording, Moving

\* What verify may answer at its end: success only as it stores VERIFIED.
LEMMA ConcludeTruthful ==
  ASSUME TypeOK, ReportsTruthful, NEW c \in Caller, NEW status, NEW to, NEW trigger,
         phase = "VERIFIED" => phase' = "VERIFIED",
         status = "success" => to = "VERIFIED" /\ trigger = "VERIFICATION_COMPLETED",
         to = "VERIFIED" => status = "success",
         Conclude(c, status, to, trigger)
  PROVE  ReportsTruthful'
<1> DEFINE r == IF CanTransition(phase, to, trigger) THEN [status |-> status, next |-> to]
                ELSE [status |-> "failure", next |-> IF phase = "VERIFIED" THEN "FAILED" ELSE phase]
<1>1. report' = [report EXCEPT ![c] = r] /\ Advance(to, trigger)
  BY DEF Conclude
<1>2. r.next = "VERIFIED" => r.status = "success"
  OBVIOUS
<1>3. r.status = "success" => phase' = "VERIFIED"
  BY <1>1 DEF Advance, EffectiveTarget
<1> HIDE DEF r
<1> QED
  BY <1>1, <1>2, <1>3 DEF ReportsTruthful, TypeOK

LEMMA ReportsStep ==
  ASSUME TypeOK, ReportsTruthful, [Next]_vars
  PROVE  ReportsTruthful'
<1>1. phase = "VERIFIED" => phase' = "VERIFIED"
  BY VerifiedStays
<1>2. CASE report' = report
  BY <1>1, <1>2 DEF ReportsTruthful
<1>3. CASE report' # report
  <2>1. PICK c \in Caller : Operation(c)
    BY <1>3, CallsKind
  <2>2. CaptureThrows(c) \/ VerifyCurrent(c) \/ VerifyEnds(c)
    BY <1>3, <2>1 DEF Operation, Plan, PlanEnds, Build, AgentEnds, BuildEnds, TakeBaseline, SessionThrows,
       Test, TestCurrent, TestEnds, Review, ReviewEnds, Verify
  <2>3. CASE CaptureThrows(c)
    <3>1. Conclude(c, "blocked", "BLOCKED", "EXTERNAL_BLOCK")
      BY <1>3, <2>3 DEF CaptureThrows
    <3> QED
      BY <1>1, <3>1, ConcludeTruthful
  <2>4. CASE VerifyCurrent(c)
    <3>1. PICK base, s, scoped :
            LET stop == GuardStop(base, s, scoped) IN
            /\ stop # None
            /\ Conclude(c, IF stop[1] = "BLOCKED" THEN "blocked" ELSE "scope-violation", stop[1], stop[2])
      BY <1>3, <2>4 DEF VerifyCurrent
    <3> DEFINE stop == GuardStop(base, s, scoped)
               status == IF stop[1] = "BLOCKED" THEN "blocked" ELSE "scope-violation"
    <3>2. Conclude(c, status, stop[1], stop[2])
      BY <3>1
    <3>3. status # "success" /\ stop[1] # "VERIFIED"
      BY <3>1, GuardStops
    <3> HIDE DEF status, stop
    <3> QED
      BY <1>1, <3>2, <3>3, ConcludeTruthful
  <2>5. CASE VerifyEnds(c)
    <3>1. \/ Conclude(c, "success", "VERIFIED", "VERIFICATION_COMPLETED")
          \/ Conclude(c, "failure", "FAILED", "VERIFICATION_FAILED")
      BY <2>5 DEF VerifyEnds
    <3> QED
      BY <1>1, <3>1, ConcludeTruthful
  <2> QED
    BY <2>2, <2>3, <2>4, <2>5
<1> QED
  BY <1>2, <1>3

\* The record of a run is a chain along the graph from its start to the stored phase,
\* and no call is told success but of a run that is verified and stays so.
THEOREM RecordTruthfulAlways == Spec => []RecordTruthful
<1>1. Init => RecordTruthful
  <2> SUFFICES ASSUME Init PROVE RecordTruthful
    OBVIOUS
  <2>1. history = <<>> /\ phase = "REQUESTED" /\ \A c \in Caller : report[c] = None
    BY DEF Init
  <2> QED
    BY <2>1 DEF RecordTruthful, RecordMatchesPhase, ReportsTruthful
<1>2. TypeOK /\ RecordTruthful /\ [Next]_vars => RecordTruthful'
  BY MatchStep, ReportsStep DEF RecordTruthful
<1> QED
  BY <1>1, <1>2, TypeCorrect, PTL DEF Spec

-----------------------------------------------------------------------------
(* The ledger. *)

LEMMA HasSmallest ==
  ASSUME NEW T \in SUBSET Nat, T # {}
  PROVE  \E i \in T : \A j \in T : i <= j
<1>1. \E x \in T : \A y \in T : ~(<<y, x>> \in OpToRel(<, Nat))
  BY WFMin, NatLessThanWellFounded
<1>2. \A x, y \in T : ~(<<y, x>> \in OpToRel(<, Nat)) => x <= y
  BY DEF OpToRel
<1> QED
  BY <1>1, <1>2

LEMMA HasLargest ==
  ASSUME NEW n \in Nat, NEW T \in SUBSET (1 .. n), T # {}
  PROVE  \E i \in T : \A j \in T : j <= i
<1> DEFINE U == {n - i : i \in T}
<1>1. U \in SUBSET Nat /\ U # {}
  <2>1. \A i \in T : n - i \in Nat
    OBVIOUS
  <2> QED
    BY <2>1
<1>2. PICK u \in U : \A v \in U : u <= v
  <2> HIDE DEF U
  <2> QED
    BY <1>1, HasSmallest
<1>3. PICK i \in T : u = n - i
  OBVIOUS
<1>4. \A j \in T : n - i <= n - j
  BY <1>2, <1>3
<1> QED
  BY <1>4

\* LastOn of any record.
LastIn(h, k, n) ==
    LET about == {i \in 1 .. n : h[i].check = k}
    IN  IF about = {} THEN None
        ELSE h[CHOOSE i \in about : \A j \in about : j <= i]

LEMMA LastOnIn ==
  ASSUME NEW k, NEW n
  PROVE  LastOn(k, n) = LastIn(history, k, n) /\ LastOn(k, n)' = LastIn(history', k, n)
BY DEF LastOn, LastIn

\* The last event about a check, if there is one.
LEMMA LastInIs ==
  ASSUME NEW h, NEW k, NEW n \in Nat
  PROVE  \/ (\A i \in 1 .. n : h[i].check # k) /\ LastIn(h, k, n) = None
         \/ \E i \in 1 .. n : /\ h[i].check = k /\ LastIn(h, k, n) = h[i]
                              /\ \A j \in 1 .. n : h[j].check = k => j <= i
<1> DEFINE about == {i \in 1 .. n : h[i].check = k}
<1>1. CASE about = {}
  BY <1>1 DEF LastIn
<1>2. CASE about # {}
  <2> DEFINE i == CHOOSE i \in about : \A j \in about : j <= i
  <2>1. \E m \in about : \A j \in about : j <= m
    <3>1. about \in SUBSET (1 .. n)
      OBVIOUS
    <3> HIDE DEF about
    <3> QED
      BY <1>2, <3>1, HasLargest
  <2>2. i \in about /\ \A j \in about : j <= i
    BY <2>1
  <2>3. LastIn(h, k, n) = h[i]
    BY <1>2 DEF LastIn
  <2> HIDE DEF i
  <2> QED
    BY <2>2, <2>3
<1> QED
  BY <1>1, <1>2

LEMMA LastInNone ==
  ASSUME NEW h, NEW k, NEW n \in Nat, \A i \in 1 .. n : h[i].check # k
  PROVE  LastIn(h, k, n) = None
BY LastInIs

\* The last event about a check is the one no event about it follows.
LEMMA LastInOnly ==
  ASSUME NEW h, NEW k, NEW n \in Nat, NEW i \in 1 .. n, h[i].check = k,
         \A j \in 1 .. n : h[j].check = k => j <= i
  PROVE  LastIn(h, k, n) = h[i]
<1>1. PICK m \in 1 .. n : /\ h[m].check = k /\ LastIn(h, k, n) = h[m]
                          /\ \A j \in 1 .. n : h[j].check = k => j <= m
  BY LastInIs
<1>2. m = i
  BY <1>1
<1> QED
  BY <1>1, <1>2

\* It depends on no other events than the first n.
LEMMA LastInSame ==
  ASSUME NEW h, NEW g, NEW k, NEW n \in Nat, \A i \in 1 .. n : h[i] = g[i]
  PROVE  LastIn(h, k, n) = LastIn(g, k, n)
<1>1. CASE \A i \in 1 .. n : h[i].check # k
  BY <1>1, LastInIs
<1>2. CASE \E i \in 1 .. n : h[i].check = k
  <2>1. PICK i \in 1 .. n : /\ h[i].check = k /\ LastIn(h, k, n) = h[i]
                            /\ \A j \in 1 .. n : h[j].check = k => j <= i
    BY <1>2, LastInIs
  <2>2. LastIn(g, k, n) = g[i]
    BY <2>1, LastInOnly
  <2> QED
    BY <2>1, <2>2
<1> QED
  BY <1>1, <1>2

LEMMA LastOnIs ==
  ASSUME NEW k, NEW n \in Nat
  PROVE  \/ (\A i \in 1 .. n : history[i].check # k) /\ LastOn(k, n) = None
         \/ \E i \in 1 .. n : /\ history[i].check = k /\ LastOn(k, n) = history[i]
                              /\ \A j \in 1 .. n : history[j].check = k => j <= i
BY LastOnIn, LastInIs

\* What the record said of a check it goes on saying of the same events.
LEMMA LastOnKept ==
  ASSUME history \in Seq(Event), NEW e, history' = Append(history, e),
         NEW k, NEW n \in 0 .. Len(history)
  PROVE  LastOn(k, n)' = LastOn(k, n)
<1>1. n \in Nat /\ \A i \in 1 .. n : history'[i] = history[i]
  BY Longer
<1>2. LastIn(history', k, n) = LastIn(history, k, n)
  BY <1>1, LastInSame
<1> QED
  BY <1>2, LastOnIn

\* An event added is the last word on its own check and says nothing of another.
LEMMA LastOnAdded ==
  ASSUME history \in Seq(Event), NEW e, history' = Append(history, e),
         NEW k, NEW n, n = Len(history) + 1
  PROVE  LastOn(k, n)' = IF e.check = k THEN e ELSE LastOn(k, Len(history))
<1>1. /\ Len(history) \in Nat /\ n \in Nat /\ n - 1 = Len(history) /\ history'[n] = e /\ n \in 1 .. n
      /\ \A i \in 1 .. Len(history) : history'[i] = history[i]
      /\ \A i \in 1 .. n : i <= n /\ (i = n \/ i \in 1 .. Len(history))
  BY Longer
<1>2. CASE e.check = k
  <2>1. LastIn(history', k, n) = history'[n]
    BY <1>1, <1>2, LastInOnly
  <2> QED
    BY <1>1, <1>2, <2>1, LastOnIn
<1>3. CASE e.check # k
  <2>1. CASE \A i \in 1 .. Len(history) : history[i].check # k
    <3>1. \A i \in 1 .. n : history'[i].check # k
      BY <1>1, <1>3, <2>1
    <3>2. LastIn(history', k, n) = None
      <4>1. n \in Nat
        BY <1>1
      <4> QED
        BY <3>1, <4>1, LastInNone
    <3>3. LastIn(history, k, Len(history)) = None
      <4>1. Len(history) \in Nat
        BY <1>1
      <4> QED
        BY <2>1, <4>1, LastInNone
    <3> QED
      BY <1>3, <3>2, <3>3, LastOnIn
  <2>2. CASE \E i \in 1 .. Len(history) : history[i].check = k
    <3>1. PICK i \in 1 .. Len(history) :
            /\ history[i].check = k /\ LastIn(history, k, Len(history)) = history[i]
            /\ \A j \in 1 .. Len(history) : history[j].check = k => j <= i
      BY <1>1, <2>2, LastInIs
    <3>2. i \in 1 .. n /\ history'[i].check = k /\ \A j \in 1 .. n : history'[j].check = k => j <= i
      BY <1>1, <1>3, <3>1
    <3>3. LastIn(history', k, n) = history'[i]
      BY <1>1, <3>2, LastInOnly
    <3> QED
      BY <1>1, <1>3, <3>1, <3>3, LastOnIn
  <2> QED
    BY <2>1, <2>2
<1> QED
  BY <1>2, <1>3

\* What the ledger says of a check is what the first n events say of it.
AuditedAt(k, n) ==
    /\ waivers[k] = None <=> LastOn(k, n) = None
    /\ LastOn(k, n) # None => /\ waivers[k].by = LastOn(k, n).by
                              /\ waivers[k].revoked <=> LastOn(k, n).kind = "waiver-revocation"

\* An event about a check is a grant or a revocation, and follows what it must.
SoundEvent(e, before) ==
    e.check # None =>
      /\ e.kind \in {"waiver-grant", "waiver-revocation"}
      /\ IF e.kind = "waiver-grant"
         THEN before # None => before.kind = "waiver-revocation"
         ELSE before # None /\ before.kind = "waiver-grant" /\ before.by = e.by

SoundAt(i) == SoundEvent(history[i], LastOn(history[i].check, i - 1))

Ledgered ==
    /\ \A n \in Nat : n = Len(history) => \A k \in Check : AuditedAt(k, n)
    /\ \A i \in DOMAIN history : SoundAt(i)

LEMMA LedgeredAudits ==
  ASSUME history \in Seq(Event), Ledgered
  PROVE  LedgerAudited
<1>1. Len(history) \in Nat
  OBVIOUS
<1>2. \A k \in Check : AuditedAt(k, Len(history))
  BY <1>1 DEF Ledgered
<1>3. \A i \in DOMAIN history : SoundAt(i)
  BY DEF Ledgered
<1> QED
  BY <1>2, <1>3 DEF LedgerAudited, AuditedAt, SoundAt, SoundEvent

\* The last word on a check in a sound ledger is a grant or a revocation of a known actor.
LEMMA LastWord ==
  ASSUME history \in Seq(Event), Ledgered, NEW k \in Check, NEW n \in 0 .. Len(history),
         LastOn(k, n) # None
  PROVE  LastOn(k, n).kind \in {"waiver-grant", "waiver-revocation"}
<1>1. PICK i \in 1 .. n : history[i].check = k /\ LastOn(k, n) = history[i]
  BY LastOnIs
<1>2. i \in DOMAIN history /\ k # None
  BY NoneIsNull
<1> QED
  BY <1>1, <1>2 DEF Ledgered, SoundAt, SoundEvent

\* Adding one sound event to a sound record.
LEMMA SoundExtends ==
  ASSUME history \in Seq(Event), Ledgered, NEW e, history' = Append(history, e),
         SoundEvent(e, LastOn(e.check, Len(history)))
  PROVE  \A i \in DOMAIN history' : SoundAt(i)'
<1>1. /\ Len(history) \in Nat /\ DOMAIN history = 1 .. Len(history) /\ DOMAIN history' = 1 .. Len(history) + 1
      /\ history'[Len(history) + 1] = e
      /\ \A i \in 1 .. Len(history) : history'[i] = history[i]
  BY Longer
<1>2. ASSUME NEW i \in 1 .. Len(history) PROVE SoundAt(i)'
  <2>1. history'[i] = history[i] /\ i - 1 \in 0 .. Len(history)
    BY <1>1
  <2>2. \A k : LastOn(k, i - 1)' = LastOn(k, i - 1)
    BY <2>1, LastOnKept
  <2>3. SoundAt(i)
    BY <1>1 DEF Ledgered
  <2> QED
    BY <2>1, <2>2, <2>3 DEF SoundAt, SoundEvent
<1>3. ASSUME NEW i, i = Len(history) + 1 PROVE SoundAt(i)'
  <2>1. history'[i] = e /\ i - 1 = Len(history) /\ i - 1 \in 0 .. Len(history)
    BY <1>1, <1>3
  <2>2. \A k : LastOn(k, i - 1)' = LastOn(k, i - 1)
    BY <2>1, LastOnKept
  <2> QED
    BY <2>1, <2>2 DEF SoundAt, SoundEvent
<1> QED
  BY <1>1, <1>2, <1>3

\* An event about no check changes nothing.
LEMMA UnrelatedEvent ==
  ASSUME history \in Seq(Event), Ledgered, NEW e, history' = Append(history, e), e.check = None,
         waivers' = waivers
  PROVE  Ledgered'
<1>1. SoundEvent(e, LastOn(e.check, Len(history)))
  BY DEF SoundEvent
<1>2. ASSUME NEW n \in Nat, n = Len(history'), NEW k \in Check PROVE AuditedAt(k, n)'
  <2>1. n = Len(history) + 1 /\ Len(history) \in Nat /\ k # None
    BY <1>2, Longer, NoneIsNull
  <2>2. LastOn(k, n)' = LastOn(k, Len(history))
    BY <2>1, LastOnAdded
  <2>3. AuditedAt(k, Len(history))
    BY <2>1 DEF Ledgered
  <2> QED
    BY <2>2, <2>3 DEF AuditedAt
<1> QED
  BY <1>1, <1>2, SoundExtends DEF Ledgered

\* A grant or a revocation writes the ledger and its event together.
LEMMA LedgerWrite ==
  ASSUME TypeOK, Ledgered, NEW actor \in Actor, NEW k \in Waivable,
         GrantWaiver(actor, k) \/ RevokeWaiver(actor, k)
  PROVE  Ledgered'
<1> DEFINE L == Len(history)
           last == LastOn(k, L)
<1>1. /\ history \in Seq(Event) /\ waivers \in [Check -> Waiver \cup {None}] /\ L \in Nat
      /\ k \in Check /\ k # None
  BY WaivableKnown, NoneIsNull DEF TypeOK
<1>2. AuditedAt(k, L)
  BY <1>1 DEF Ledgered
<1>3. last # None => last.kind \in {"waiver-grant", "waiver-revocation"}
  BY <1>1, LastWord
<1>4. PICK e : /\ history' = Append(history, e) /\ e.check = k /\ e.by = actor
               /\ \A j \in Check \ {k} : waivers'[j] = waivers[j]
               /\ waivers'[k] # None /\ waivers'[k].by = actor
               /\ \/ e.kind = "waiver-grant" /\ ~InForce(waivers[k]) /\ waivers'[k].revoked = FALSE
                  \/ /\ e.kind = "waiver-revocation" /\ InForce(waivers[k]) /\ waivers[k].by = actor
                     /\ waivers'[k].revoked = TRUE
  <2>1. CASE GrantWaiver(actor, k)
    <3> DEFINE w == [by |-> actor, revoked |-> FALSE]
    <3>1. w.by = actor /\ w.revoked = FALSE
      OBVIOUS
    <3>2. w \in Waiver
      BY DEF Waiver
    <3>3. /\ waivers' = [waivers EXCEPT ![k] = w] /\ ~InForce(waivers[k])
          /\ history' = Append(history, LedgerEvent("waiver-grant", k, actor))
      BY <2>1 DEF GrantWaiver
    <3> HIDE DEF w
    <3>4. w # None
      BY <3>2, NoneIsNull
    <3> QED
      BY <1>1, <3>1, <3>3, <3>4 DEF LedgerEvent
  <2>2. CASE RevokeWaiver(actor, k)
    <3> DEFINE w == [waivers[k] EXCEPT !.revoked = TRUE]
    <3>1. InForce(waivers[k]) /\ waivers[k].by = actor /\ waivers[k] \in Waiver
      BY <1>1, <2>2 DEF RevokeWaiver, InForce
    <3>2. w \in Waiver /\ w # None /\ w.by = actor /\ w.revoked = TRUE
      BY <3>1, NoneIsNull DEF Waiver
    <3>3. /\ waivers' = [waivers EXCEPT ![k] = w]
          /\ history' = Append(history, LedgerEvent("waiver-revocation", k, actor))
      BY <2>2 DEF RevokeWaiver
    <3> HIDE DEF w
    <3> QED
      BY <1>1, <3>1, <3>2, <3>3 DEF LedgerEvent
  <2> QED
    BY <2>1, <2>2
<1>5. SoundEvent(e, LastOn(e.check, L))
  BY <1>2, <1>3, <1>4 DEF SoundEvent, AuditedAt, InForce
<1>6. e # None /\ e \in Event
  <2>1. history' \in Seq(Event)
    BY WaiversTyped, TypeParts DEF Ledgering
  <2> QED
    BY <1>1, <1>4, <2>1, Longer, NoneIsNull
<1>7. ASSUME NEW n \in Nat, n = Len(history'), NEW j \in Check PROVE AuditedAt(j, n)'
  <2>1. n = L + 1
    BY <1>1, <1>4, <1>7, Longer
  <2>2. CASE j = k
    <3>1. LastOn(j, n)' = e
      BY <1>1, <1>4, <2>1, <2>2, LastOnAdded
    <3> QED
      BY <1>4, <1>6, <2>2, <3>1 DEF AuditedAt
  <2>3. CASE j # k
    <3>1. LastOn(j, n)' = LastOn(j, L)
      BY <1>1, <1>4, <2>1, <2>3, LastOnAdded
    <3>2. AuditedAt(j, L)
      BY <1>1 DEF Ledgered
    <3> QED
      BY <1>4, <2>3, <3>1, <3>2 DEF AuditedAt
  <2> QED
    BY <2>2, <2>3
<1>8. \A i \in DOMAIN history' : SoundAt(i)'
  BY <1>1, <1>4, <1>5, SoundExtends
<1> QED
  BY <1>7, <1>8 DEF Ledgered

LEMMA LedgeredStep ==
  ASSUME TypeOK, Ledgered, [Next]_vars
  PROVE  Ledgered'
<1>1. history \in Seq(Event)
  BY DEF TypeOK
<1>2. CASE UNCHANGED <<phase, history, waivers>>
  <2>1. \A k, n : LastOn(k, n)' = LastOn(k, n)
    BY <1>2 DEF LastOn
  <2>2. \A i : SoundAt(i)' <=> SoundAt(i)
    BY <1>2, <2>1 DEF SoundAt
  <2>3. \A k, n : AuditedAt(k, n)' <=> AuditedAt(k, n)
    BY <1>2, <2>1 DEF AuditedAt
  <2> QED
    BY <1>2, <2>2, <2>3 DEF Ledgered
<1>3. CASE Noting \/ Moving
  <2>1. PICK from, to, trigger : history' = Append(history, Transition(from, to, trigger)) /\ waivers' = waivers
    BY <1>3 DEF Noting, Moving
  <2>2. Transition(from, to, trigger).check = None
    BY DEF Transition
  <2> QED
    BY <1>1, <2>1, <2>2, UnrelatedEvent
<1>4. CASE Ledgering
  BY <1>4, LedgerWrite DEF Ledgering
<1> QED
  BY <1>2, <1>3, <1>4, StepKind DEF Recording

LEMMA LedgeredInit == Init => Ledgered
<1> SUFFICES ASSUME Init PROVE Ledgered
  OBVIOUS
<1>1. history = <<>> /\ waivers = [k \in Check |-> None]
  BY DEF Init
<1>2. ASSUME NEW n \in Nat, n = Len(history), NEW k \in Check PROVE AuditedAt(k, n)
  <2>1. n = 0 /\ LastOn(k, n) = None
    BY <1>1, <1>2, LastOnIs
  <2> QED
    BY <1>1, <2>1 DEF AuditedAt
<1> QED
  BY <1>1, <1>2 DEF Ledgered

LEMMA LedgeredInvariant == Spec => []Ledgered
<1>1. Init => Ledgered
  BY LedgeredInit
<1>2. TypeOK /\ Ledgered /\ [Next]_vars => Ledgered'
  BY LedgeredStep
<1> QED
  BY <1>1, <1>2, TypeCorrect, PTL DEF Spec

\* The waiver ledger is what the audit trail says of it, and the trail alternates: a
\* grant follows no grant, a revocation the grant of the same actor.
THEOREM LedgerAuditedAlways == Spec => []LedgerAudited
<1>1. TypeOK /\ Ledgered => LedgerAudited
  BY LedgeredAudits DEF TypeOK
<1> QED
  BY <1>1, TypeCorrect, LedgeredInvariant, PTL

-----------------------------------------------------------------------------
(* What a verified run rests on. *)

\* What verify has read of a run lets it pass; and if so, all of it stood together.
Passes(view) ==
    \A k \in Evidence : \/ view.evidence[k] = "passed"
                        \/ view.evidence[k] = "unavailable" /\ Waived(view.waivers, k)

ViewsHeld ==
    \A c \in Caller : call[c].pc \in Verifying =>
        \E v \in View : v = call[c].view /\ (Passes(v) => c \in upheld)

\* The caller that verified the run, which has nothing more to do.
Verified(c) == /\ c \in upheld /\ call[c] = Idle
               /\ report[c] = [status |-> "success", next |-> "VERIFIED"]

Founded == ViewsHeld /\ (phase = "VERIFIED" => \E c \in Caller : Verified(c))

LEMMA FoundedVerifies == Founded => VerifiedOnEvidence
BY DEF Founded, VerifiedOnEvidence, Verified

\* The ledger waives a check just if the record does.
LEMMA RecordWaives ==
  ASSUME TypeOK, Ledgered, NEW k \in Check
  PROVE  Waived(waivers, k) <=> WaivedByRecord(k)
<1>1. history \in Seq(Event) /\ Len(history) \in Nat /\ Len(history) \in 0 .. Len(history)
  BY DEF TypeOK
<1>2. AuditedAt(k, Len(history))
  BY <1>1 DEF Ledgered
<1>3. LastOn(k, Len(history)) # None => LastOn(k, Len(history)).kind \in {"waiver-grant", "waiver-revocation"}
  BY <1>1, LastWord
<1> QED
  BY <1>2, <1>3 DEF WaivedByRecord, Waived, AuditedAt, InForce

\* When verify reads a run, what it reads is true of it then.
LEMMA ViewRead ==
  ASSUME TypeOK, Ledgered, NEW c \in Caller, Verify(c), NEW v, v = call'[c].view
  PROVE  v \in View /\ (Passes(v) => c \in upheld')
<1> DEFINE r == \E i \in DOMAIN history : history[i].trigger = "REVIEW_COMPLETED"
<1>1. v = [evidence |-> evidence, waivers |-> waivers, reviewed |-> r]
  BY DEF Verify, TypeOK, Idle
<1>2. r \in BOOLEAN
  BY Zenon
<1> HIDE DEF r
<1>3. v \in View /\ v.evidence = evidence /\ v.waivers = waivers
  BY <1>1, <1>2 DEF View, TypeOK
<1>4. Passes(v) => InOrder
  BY <1>3, RecordWaives DEF Passes, InOrder, Check
<1> QED
  BY <1>3, <1>4 DEF Verify

\* An operation writes its own call only.
LEMMA OthersStand ==
  ASSUME TypeOK, NEW c \in Caller, Operation(c), NEW d \in Caller \ {c}
  PROVE  call'[d] = call[d]
<1> USE DEF TypeOK
<1>1. CASE Plan(c) \/ Build(c) \/ Test(c) \/ Review(c)
  BY <1>1 DEF Plan, Build, Test, Review, Enter
<1>2. CASE PlanEnds(c) \/ SessionThrows(c) \/ BuildEnds(c) \/ TestEnds(c) \/ ReviewEnds(c)
  <2>1. Leave(c)
    BY <1>2 DEF PlanEnds, SessionThrows, BuildEnds, TestEnds, ReviewEnds
  <2> QED
    BY <2>1 DEF Leave
<1>3. CASE AgentEnds(c)
  <2>1. \E x : call' = [call EXCEPT ![c] = x]
    BY <1>3 DEF AgentEnds
  <2> QED
    BY <2>1
<1>4. CASE TakeBaseline(c)
  <2>1. \E x : call' = [call EXCEPT ![c] = x]
    BY <1>4 DEF TakeBaseline
  <2> QED
    BY <2>1
<1>5. CASE TestCurrent(c)
  <2>1. \E x : call' = [call EXCEPT ![c] = x]
    BY <1>5 DEF TestCurrent
  <2> QED
    BY <2>1
<1>6. CASE Verify(c)
  BY <1>6 DEF Verify
<1>7. CASE CaptureThrows(c) \/ VerifyEnds(c)
  <2>1. Leave(c)
    BY <1>7 DEF CaptureThrows, VerifyEnds, Conclude
  <2> QED
    BY <2>1 DEF Leave
<1>8. CASE VerifyCurrent(c)
  <2>1. Leave(c) \/ \E x : call' = [call EXCEPT ![c] = x]
    BY <1>8 DEF VerifyCurrent, Conclude
  <2> QED
    BY <2>1 DEF Leave
<1> QED
  BY <1>1, <1>2, <1>3, <1>4, <1>5, <1>6, <1>7, <1>8 DEF Operation

\* What an operation does to its own call: a call in verification has just read its
\* view, or has gone on with it.
LEMMA OwnView ==
  ASSUME TypeOK, NEW c \in Caller, Operation(c), call'[c].pc \in Verifying
  PROVE  \/ call[c].pc \in Verifying /\ call'[c].view = call[c].view
         \/ Verify(c)
<1> USE DEF TypeOK
<1>1. CASE Plan(c) \/ Build(c)
  <2>1. call' = call \/ \E s \in {"planning", "build_baseline"} : Enter(c, s)
    BY <1>1 DEF Plan, Build
  <2> QED
    BY <2>1 DEF Enter, Idle, Verifying
<1>2. CASE Test(c) \/ Review(c)
  <2>1. \E s \in {"test_baseline", "review"} : Enter(c, s)
    BY <1>2 DEF Test, Review
  <2> QED
    BY <2>1 DEF Enter, Idle, Verifying
<1>3. CASE Leave(c)
  BY <1>3 DEF Leave, Idle, Verifying
<1>4. CASE PlanEnds(c) \/ SessionThrows(c) \/ BuildEnds(c) \/ TestEnds(c) \/ ReviewEnds(c)
           \/ CaptureThrows(c) \/ VerifyEnds(c)
  BY <1>3, <1>4 DEF PlanEnds, SessionThrows, BuildEnds, TestEnds, ReviewEnds, CaptureThrows, VerifyEnds, Conclude
<1>5. CASE AgentEnds(c)
  <2> DEFINE x == [call[c] EXCEPT !.pc = "build_current"]
  <2>1. call' = [call EXCEPT ![c] = x]
    BY <1>5 DEF AgentEnds
  <2>2. x.pc = "build_current"
    BY DEF Call
  <2> HIDE DEF x
  <2> QED
    BY <2>1, <2>2 DEF Verifying
<1>6. CASE TakeBaseline(c)
  <2>1. PICK s : call' = [call EXCEPT ![c].base = s, ![c].pc = AfterBaseline[call[c].pc]]
    BY <1>6 DEF TakeBaseline
  <2> DEFINE p == AfterBaseline[call[c].pc]
             x == [call[c] EXCEPT !.base = s, !.pc = p]
  <2>2. call' = [call EXCEPT ![c] = x]
    BY <2>1
  <2>3. p \in Verifying => call[c].pc \in Verifying
    BY <1>6 DEF TakeBaseline, AfterBaseline, Verifying
  <2> HIDE DEF p
  <2>4. x.pc = p /\ x.view = call[c].view
    BY DEF Call
  <2> HIDE DEF x
  <2> QED
    BY <2>2, <2>3, <2>4
<1>7. CASE TestCurrent(c)
  <2>1. PICK s : call' = [call EXCEPT ![c].changed = Changed(call[c].base, s), ![c].pc = "test_checks"]
    BY <1>7 DEF TestCurrent
  <2> DEFINE ch == Changed(call[c].base, s)
             x == [call[c] EXCEPT !.changed = ch, !.pc = "test_checks"]
  <2>2. call' = [call EXCEPT ![c] = x]
    BY <2>1
  <2> HIDE DEF ch
  <2>3. x.pc = "test_checks"
    BY DEF Call
  <2> HIDE DEF x
  <2> QED
    BY <2>2, <2>3 DEF Verifying
<1>8. CASE VerifyCurrent(c)
  <2>1. CASE ~Leave(c)
    <3>1. \E s : call' = [call EXCEPT ![c].pc = "verify_checks", ![c].changed = Changed(call[c].base, s),
                                      ![c].gitOk = call[c].base.head # None]
      BY <1>8, <2>1, Zenon DEF VerifyCurrent, Conclude
    <3>4. PICK ch, g : call' = [call EXCEPT ![c].pc = "verify_checks", ![c].changed = ch, ![c].gitOk = g]
      BY <3>1, Zenon
    <3> DEFINE x == [call[c] EXCEPT !.pc = "verify_checks", !.changed = ch, !.gitOk = g]
    <3>2. call' = [call EXCEPT ![c] = x]
      BY <3>4
    <3>3. x.view = call[c].view
      BY DEF Call
    <3> HIDE DEF x
    <3> QED
      BY <1>8, <3>2, <3>3 DEF VerifyCurrent, Verifying
  <2> QED
    BY <1>3, <2>1
<1> QED
  BY <1>1, <1>2, <1>4, <1>5, <1>6, <1>7, <1>8 DEF Operation

LEMMA ViewsStep ==
  ASSUME TypeOK, Ledgered, ViewsHeld, [Next]_vars
  PROVE  ViewsHeld'
<1>1. ASSUME NEW d \in Caller, call'[d].pc \in Verifying, NEW v, v = call'[d].view
      PROVE  v \in View /\ (Passes(v) => d \in upheld')
  <2>1. CASE call[d].pc \in Verifying /\ call'[d].view = call[d].view
    <3>1. v \in View /\ (Passes(v) => d \in upheld)
      BY <1>1, <2>1 DEF ViewsHeld
    <3>2. ~Verify(d)
      BY <2>1 DEF Verify, Idle, Verifying
    <3> QED
      BY <3>1, <3>2, UpheldKind
  <2>2. CASE Verify(d)
    BY <1>1, <2>2, ViewRead
  <2>3. CASE UNCHANGED call
    BY <1>1, <2>1, <2>3
  <2>4. CASE \E c \in Caller : Operation(c)
    <3>1. PICK c \in Caller : Operation(c)
      BY <2>4
    <3>2. CASE c = d
      BY <1>1, <2>1, <2>2, <3>1, <3>2, OwnView
    <3>3. CASE c # d
      BY <1>1, <2>1, <3>1, <3>3, OthersStand
    <3> QED
      BY <3>2, <3>3
  <2> QED
    BY <2>3, <2>4, CallsKind
<1>2. \A v : Passes(v)' <=> Passes(v)
  BY DEF Passes, Waived, InForce
<1> QED
  BY <1>1, <1>2 DEF ViewsHeld

\* In a run that is verified, a caller with nothing under way starts nothing.
LEMMA IdleRests ==
  ASSUME phase = "VERIFIED", NEW c \in Caller, call[c] = Idle
  PROVE  ~Operation(c)
<1>1. call[c].pc = "idle"
  BY DEF Idle
<1> QED
  BY <1>1 DEF Operation, Plan, PlanEnds, Build, AgentEnds, BuildEnds, TakeBaseline, CaptureThrows, SessionThrows,
     Test, TestCurrent, TestEnds, Review, ReviewEnds, Verify, VerifyCurrent, VerifyEnds, AfterBaseline

\* An operation answers its own caller only.
LEMMA OthersReport ==
  ASSUME TypeOK, NEW c \in Caller, Operation(c), NEW d \in Caller \ {c}
  PROVE  report'[d] = report[d]
<1>1. ASSUME NEW status, NEW to, NEW trigger, Conclude(c, status, to, trigger)
      PROVE  report'[d] = report[d]
  BY <1>1 DEF Conclude, TypeOK
<1>2. CASE CaptureThrows(c)
  BY <1>1, <1>2 DEF CaptureThrows
<1>3. CASE VerifyCurrent(c)
  BY <1>1, <1>3 DEF VerifyCurrent
<1>4. CASE VerifyEnds(c)
  BY <1>1, <1>4 DEF VerifyEnds
<1> QED
  BY <1>2, <1>3, <1>4 DEF Operation, Plan, PlanEnds, Build, AgentEnds, BuildEnds, TakeBaseline, SessionThrows,
     Test, TestCurrent, TestEnds, Review, ReviewEnds, Verify

LEMMA VerifiedRests ==
  ASSUME TypeOK, [Next]_vars, phase = "VERIFIED", NEW c \in Caller, Verified(c)
  PROVE  Verified(c)'
<1>1. c \in upheld'
  BY UpheldKind DEF Verified, Verify
<1>2. CASE UNCHANGED <<call, report>>
  BY <1>1, <1>2 DEF Verified
<1>3. CASE \E d \in Caller : Operation(d)
  <2>1. PICK d \in Caller : Operation(d)
    BY <1>3
  <2>2. d # c
    BY <2>1, IdleRests DEF Verified
  <2>3. call'[c] = call[c] /\ report'[c] = report[c]
    BY <2>1, <2>2, OthersStand, OthersReport
  <2> QED
    BY <1>1, <2>3 DEF Verified
<1> QED
  BY <1>2, <1>3, CallsKind

\* Only the end of a verify leads into VERIFIED.
LEMMA IntoVerified ==
  ASSUME TypeOK, [Next]_vars, phase # "VERIFIED", phase' = "VERIFIED"
  PROVE  \E c \in Caller : VerifyEnds(c) /\ ~Conclude(c, "failure", "FAILED", "VERIFICATION_FAILED")
<1>1. ASSUME NEW to, NEW trigger, Advance(to, trigger) PROVE to = "VERIFIED"
  BY <1>1 DEF Advance, EffectiveTarget
<1>2. ASSUME NEW c, NEW status, NEW to, NEW trigger, Conclude(c, status, to, trigger) PROVE to = "VERIFIED"
  BY <1>1, <1>2 DEF Conclude
<1>3. ASSUME NEW c \in Caller, Operation(c), ~VerifyEnds(c) PROVE FALSE
  <2>1. CASE Plan(c)
    BY <1>1, <2>1 DEF Plan, run
  <2>2. CASE PlanEnds(c)
    <3>1. PICK o \in PlanOutcome : Advance(o[1], o[2])
      BY <2>2 DEF PlanEnds
    <3>2. o[1] # "VERIFIED"
      BY DEF PlanOutcome
    <3> QED
      BY <1>1, <3>1, <3>2
  <2>3. CASE Build(c)
    BY <1>1, <2>3 DEF Build, RecordEvent, run
  <2>4. CASE AgentEnds(c) \/ TakeBaseline(c) \/ SessionThrows(c) \/ Test(c) \/ TestCurrent(c) \/ Review(c)
             \/ Verify(c)
    BY <2>4 DEF AgentEnds, TakeBaseline, SessionThrows, Test, TestCurrent, Review, Verify, run
  <2>5. CASE BuildEnds(c)
    <3>1. PICK s :
            \/ Advance("BLOCKED", "EXTERNAL_BLOCK")
            \/ /\ GuardStop(call[c].base, s, TRUE) # None
               /\ Advance(GuardStop(call[c].base, s, TRUE)[1], GuardStop(call[c].base, s, TRUE)[2])
            \/ Advance("TESTING", "BUILD_PRODUCED")
            \/ Advance("FAILED", "TESTS_FAILED")
      BY <2>5 DEF BuildEnds
    <3>2. GuardStop(call[c].base, s, TRUE) # None => GuardStop(call[c].base, s, TRUE)[1] # "VERIFIED"
      BY DEF GuardStop
    <3> QED
      BY <1>1, <3>1, <3>2
  <2>6. CASE CaptureThrows(c)
    BY <1>1, <1>2, <2>6 DEF CaptureThrows
  <2>7. CASE TestEnds(c) \/ ReviewEnds(c)
    BY <1>1, <2>7 DEF TestEnds, ReviewEnds
  <2>8. CASE VerifyCurrent(c)
    <3>1. PICK s : LET stop == GuardStop(call[c].base, s, call[c].view.evidence["scope-clean"] = "passed") IN
            IF stop = None THEN UNCHANGED <<run, report>>
            ELSE Conclude(c, IF stop[1] = "BLOCKED" THEN "blocked" ELSE "scope-violation", stop[1], stop[2])
      BY <2>8 DEF VerifyCurrent
    <3> DEFINE stop == GuardStop(call[c].base, s, call[c].view.evidence["scope-clean"] = "passed")
    <3>2. stop # None => stop[1] # "VERIFIED"
      BY GuardStops
    <3> QED
      BY <1>2, <3>1, <3>2 DEF run
  <2> QED
    BY <1>3, <2>1, <2>2, <2>3, <2>4, <2>5, <2>6, <2>7, <2>8 DEF Operation
<1>4. \E c \in Caller : Operation(c)
  <2>1. ASSUME Human PROVE FALSE
    <3>1. ASSUME NEW d \in {"ApprovalGranted", "ApprovalRejected"}, DecideApproval(d) PROVE FALSE
      BY <1>1, <3>1 DEF DecideApproval
    <3>2. CASE RequestApproval \/ LateRejection
      BY <1>1, <3>2 DEF RequestApproval, LateRejection, RecordEvent
    <3>3. ASSUME NEW actor, NEW k, GrantWaiver(actor, k) \/ RevokeWaiver(actor, k) PROVE FALSE
      BY <3>3 DEF GrantWaiver, RevokeWaiver
    <3>4. ASSUME NEW given, RecordEvidence(given) PROVE FALSE
      BY <3>4 DEF RecordEvidence
    <3> QED
      BY <2>1, <3>1, <3>2, <3>3, <3>4 DEF Human
  <2>2. ASSUME Start PROVE FALSE
    BY <1>1, <2>2 DEF Start
  <2>3. ASSUME NEW p, NEW v, Edit(p, v) PROVE FALSE
    BY <2>3 DEF Edit, run
  <2>4. ASSUME Commit \/ Tick \/ UNCHANGED vars PROVE FALSE
    BY <2>4 DEF Commit, Tick, vars, run
  <2> QED
    BY <2>1, <2>2, <2>3, <2>4 DEF Next
<1>5. PICK c \in Caller : VerifyEnds(c)
  BY <1>3, <1>4
<1>6. ~Conclude(c, "failure", "FAILED", "VERIFICATION_FAILED")
  BY <1>2
<1> QED
  BY <1>5, <1>6

\* A verdict that passes finds each kind of evidence on record or waived, as read.
LEMMA VerdictFounds ==
  ASSUME NEW changed, NEW gitOk, NEW view \in View, NEW failed, NEW dead,
         Verdict(changed, gitOk, view, failed, dead)
  PROVE  Passes(view)
<1> SUFFICES ASSUME NEW k \in Evidence
             PROVE  \/ view.evidence[k] = "passed"
                    \/ view.evidence[k] = "unavailable" /\ Waived(view.waivers, k)
  BY DEF Passes
<1>1. k \in Check /\ k \notin Command /\ k \notin {"headed-e2e", "git-integrity", "review-approved"}
  BY DEF Check, Evidence, Command
<1>2. k \notin Applicable(changed)
  BY <1>1 DEF Applicable
<1>3. StatusOf(changed, gitOk, view, failed, dead, k) = view.evidence[k]
  BY <1>1, <1>2 DEF StatusOf
<1>4. view.evidence[k] \in Standing
  BY DEF View
<1> QED
  BY <1>1, <1>3, <1>4 DEF Verdict, Standing

\* The call that verifies the run had read it in order, and says so.
LEMMA VerifyingVerifies ==
  ASSUME TypeOK, ViewsHeld, NEW c \in Caller, VerifyEnds(c), phase # "VERIFIED", phase' = "VERIFIED",
         ~Conclude(c, "failure", "FAILED", "VERIFICATION_FAILED")
  PROVE  Verified(c)'
<1>1. PICK failed, dead : Verdict(call[c].changed, call[c].gitOk, call[c].view, failed, dead)
  BY DEF VerifyEnds
<1>2. PICK view \in View : view = call[c].view /\ (Passes(view) => c \in upheld)
  BY DEF VerifyEnds, ViewsHeld, Verifying
<1>3. c \in upheld'
  BY <1>1, <1>2, VerdictFounds DEF VerifyEnds
<1>4. Conclude(c, "success", "VERIFIED", "VERIFICATION_COMPLETED")
  BY DEF VerifyEnds
<1>5. CanTransition(phase, "VERIFIED", "VERIFICATION_COMPLETED")
  BY <1>4 DEF Conclude, Advance, EffectiveTarget
<1>6. call'[c] = Idle
  BY <1>4 DEF Conclude, Leave, TypeOK
<1>7. report'[c] = [status |-> "success", next |-> "VERIFIED"]
  BY <1>4, <1>5 DEF Conclude, TypeOK
<1> QED
  BY <1>3, <1>6, <1>7 DEF Verified, Idle

LEMMA FoundedStep ==
  ASSUME TypeOK, Ledgered, Founded, [Next]_vars
  PROVE  Founded'
<1>1. ViewsHeld'
  BY ViewsStep DEF Founded
<1>2. ASSUME phase' = "VERIFIED" PROVE \E c \in Caller : Verified(c)'
  <2>1. CASE phase = "VERIFIED"
    BY <2>1, VerifiedRests DEF Founded
  <2>2. CASE phase # "VERIFIED"
    BY <1>2, <2>2, IntoVerified, VerifyingVerifies DEF Founded
  <2> QED
    BY <2>1, <2>2
<1> QED
  BY <1>1, <1>2 DEF Founded

LEMMA FoundedInit == Init => Founded
BY DEF Init, Founded, ViewsHeld, Verifying, Idle

\* A run is verified by a call of verify during which, at some moment, each kind of evidence
\* was on record as passed, or missing and waived by the audit trail, whatever was recorded,
\* granted or revoked before and after, and by however many callers it is driven.
THEOREM VerifiedOnEvidenceAlways == Spec => []VerifiedOnEvidence
<1>1. Init => Founded
  BY FoundedInit
<1>2. TypeOK /\ Ledgered /\ Founded /\ [Next]_vars => Founded'
  BY FoundedStep
<1>3. Founded => VerifiedOnEvidence
  BY FoundedVerifies
<1> QED
  BY <1>1, <1>2, <1>3, TypeCorrect, LedgeredInvariant, PTL DEF Spec

-----------------------------------------------------------------------------
(* The promise. *)

LEMMA PromiseInit == Init => Promise!Init
BY InitKept DEF Init, Kept, Ungranted, Early, Promise!Init, Granted

LEMMA PromiseStep ==
  ASSUME Kept, [Next]_vars
  PROVE  [Promise!Next]_(Promise!promise)
<1>1. CASE UNCHANGED <<phase, history>>
  BY <1>1 DEF Promise!promise
<1>2. CASE Noting \/ Ledgering
  <2>1. PICK e : ~Grants(e) /\ history' = Append(history, e)
    BY <1>2, AsideKind
  <2>2. Granted' = Granted
    BY <2>1, GrantAdded DEF Kept, Granted
  <2> QED
    BY <1>2, <2>2, AsideKind DEF Promise!promise, Granted
<1>3. CASE Moving
  <2>1. PICK to, trigger : /\ CanTransition(phase, to, trigger) /\ phase' = to
                           /\ history' = Append(history, Transition(phase, to, trigger))
    BY <1>3 DEF Moving
  <2> DEFINE e == Transition(phase, to, trigger)
  <2>2. Grants(e) <=> trigger = "APPROVAL_GRANTED"
    BY DEF Grants, Transition
  <2> HIDE DEF e
  <2>3. Granted' <=> Granted \/ trigger = "APPROVAL_GRANTED"
    BY <2>1, <2>2, GrantAdded DEF Kept, e
  <2>4. CASE ForwardStep(phase, to, trigger)
    <3>1. UNCHANGED Granted
      BY <2>3, <2>4 DEF ForwardStep, Granted
    <3>2. PICK i \in 1 .. (Len(Forward) - 1) : phase = Forward[i] /\ phase' = Forward[i + 1]
      BY <2>1, <2>4, ForwardPath DEF ForwardStep
    <3>3. Promise!Proceed
      BY <2>4, <3>1, <3>2 DEF ForwardStep, Promise!Proceed, Promise!Forward, Forward, Granted
    <3> QED
      BY <3>3 DEF Promise!Next
  <2>5. CASE GrantStep(phase, to, trigger)
    <3>1. ~Granted /\ Granted' = TRUE
      BY <2>3, <2>5 DEF GrantStep, Kept, Ungranted, Early, Granted
    <3>2. Promise!Grant
      BY <2>1, <2>5, <3>1 DEF GrantStep, Promise!Grant, Granted
    <3> QED
      BY <3>2 DEF Promise!Next
  <2>6. CASE StopStep(phase, to, trigger)
    <3>1. UNCHANGED Granted
      BY <2>3, <2>6 DEF StopStep, Granted
    <3>2. phase \notin Ended
      BY <2>6, WorkingPhases DEF StopStep, Ended, Terminal
    <3>3. Promise!Stop
      BY <2>1, <2>6, <3>1, <3>2 DEF StopStep, Promise!Stop, Promise!Ended, Promise!Terminal, Ended, Terminal, Granted
    <3> QED
      BY <3>3 DEF Promise!Next
  <2> QED
    BY <2>1, <2>4, <2>5, <2>6, EdgeKinds
<1> QED
  BY <1>1, <1>2, <1>3, StepKind DEF Recording

\* One phase at a time, into the build only together with the one human grant, and no
\* further once stopped or verified, whoever calls and however calls overlap.
THEOREM PromiseKept == Spec => KeepsPromise
<1>1. Init => Promise!Init
  BY PromiseInit
<1>2. Kept /\ [Next]_vars => [Promise!Next]_(Promise!promise)
  BY PromiseStep
<1>3. Promise!Spec <=> Promise!Init /\ [][Promise!Next]_(Promise!promise)
  BY DEF Promise!Spec
<1>4. Spec => Promise!Spec
  BY <1>1, <1>2, <1>3, KeptInvariant, PTL DEF Spec
<1> QED
  BY <1>4 DEF KeepsPromise
=============================================================================
