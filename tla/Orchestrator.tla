---------------------------- MODULE Orchestrator ----------------------------
(***************************************************************************)
(* One run of the development orchestrator (tools/ai-orchestrator): the    *)
(* phase operations of Stage2COrchestrator, the workflow store, the        *)
(* approval gate, the waiver ledger and the git guard, around a working    *)
(* tree that the agent and other people edit.                              *)
(*                                                                         *)
(* Every await of an operation ends a step, so calls overlap; what runs    *)
(* between two awaits is one step.  A synchronous operation is one action. *)
(* A snapshot of the tree is one step too: the git commands it runs are    *)
(* milliseconds apart, and each of them may fail.                          *)
(*                                                                         *)
(* Abstracted: the plan, the context package, wording of notes, the four   *)
(* commands of each side (one check), file permissions and prefixes (a set *)
(* of authorized paths, which stays what it is when a scope is recorded    *)
(* anew).  Waivers are those of phase VERIFYING, the only ones any         *)
(* operation applies.                                                      *)
(***************************************************************************)
EXTENDS WorkflowGraph, FiniteSets

CONSTANTS
    Caller,             \* calls that may be under way at the same time
    Path, Authorized,   \* files of the repository, and those in the approved scope
    Backend, Frontend,  \* which side of the product a file belongs to
    Actor, HumanPO,     \* who asks for waivers, and HUMAN_PO_ACTORS
    Injected,           \* checks with a valid waiver in the injected WaiverSource
    Waivable,           \* bound: the checks waivers are asked for
    Recorded,           \* the evidence that is on record from the start
    Recordable,         \* bound: the evidence that is recorded, again and again, on the way
    None,               \* null
    Validity,           \* 48 hours, in ticks
    MaxClock, MaxEdits, MaxFaults, MaxNotes  \* bounds

ASSUME PathsKnown == Authorized \subseteq Path /\ Backend \subseteq Path /\ Frontend \subseteq Path
ASSUME ActorsKnown == HumanPO \subseteq Actor
ASSUME Bounds == {Validity, MaxClock, MaxEdits, MaxFaults, MaxNotes} \subseteq Nat

VARIABLES
    phase, history,  \* WorkflowRun.phase and .history
    story,           \* a story id was given
    evidence,        \* WorkflowRun.evidence, as the status each record yields
    waivers,         \* WorkflowRun.waivers
    approval,        \* the gate's record for the run
    tree, head,      \* the working tree and HEAD
    clock,           \* hours are ticks
    call,            \* per caller: the operation under way and what it has read
    report,          \* per caller: what its last verify answered
    edits, faults,   \* edits, and readings of the tree that went wrong, so far
    agentMade,       \* history: each path's version before the agent first edited it
    upheld           \* history: the callers during whose last verify all evidence was in order

run   == <<phase, history, story, evidence, waivers>>
repo  == <<tree, head, edits, agentMade>>
vars  == <<run, approval, repo, clock, call, report, faults, upheld>>

Command  == {"backend", "frontend"}
Evidence == {"scope-clean", "acceptance-criteria", "po-decisions-resolved"}
Check    == Command \cup Evidence \cup {"headed-e2e", "git-integrity", "review-approved"}

Standing == {"unavailable", "passed", "failed"}
Version  == {"clean", "modified", "rewritten", "staged"}
Flag     == {"none", "unstaged", "staged"}
FlagOf   == [clean |-> "none", modified |-> "unstaged", rewritten |-> "unstaged", staged |-> "staged"]

Snapshot == [head : Nat \cup {None}, flags : [Path -> Flag]]
Decision == {"none", "ApprovalRequired", "ApprovalGranted", "ApprovalRejected"}
Waiver   == [by : Actor, revoked : BOOLEAN]
Event    == [kind : {"transition", "waiver-grant", "waiver-revocation"}, from : Phase, to : Phase,
             trigger : Trigger \cup {None}, check : Check \cup {None}, by : Actor \cup {None}]
View     == [evidence : [Evidence -> Standing],
             waivers : [Check -> Waiver \cup {None}], reviewed : BOOLEAN]
Stage    == {"idle", "planning", "build_baseline", "build_agent", "build_current",
             "test_baseline", "test_current", "test_checks", "review",
             "verify_baseline", "verify_current", "verify_checks"}
Call     == [pc : Stage, base : Snapshot \cup {None}, view : View \cup {None},
             changed : SUBSET Path, gitOk : BOOLEAN]
Idle     == [pc |-> "idle", base |-> None, view |-> None, changed |-> {}, gitOk |-> FALSE]

ASSUME WaivableKnown == Waivable \subseteq Check
ASSUME RecordableKnown == Recordable \subseteq Evidence
ASSUME NoneIsNoTrigger == None \notin Trigger
ASSUME NoneIsNull == None \notin Check /\ None \notin Waiver /\ None \notin Event

Building  == {"build_baseline", "build_agent", "build_current"}
Verifying == {"verify_baseline", "verify_current", "verify_checks"}
AgentOn  == \E c \in Caller : call[c].pc = "build_agent"

TypeOK ==
    /\ phase \in Phase /\ history \in Seq(Event) /\ story \in BOOLEAN
    /\ evidence \in [Evidence -> Standing]
    /\ waivers \in [Check -> Waiver \cup {None}]
    /\ approval \in [decision : Decision, at : Nat]
    /\ tree \in [Path -> Version] /\ head \in Nat /\ clock \in 0..MaxClock
    /\ call \in [Caller -> Call]
    /\ report \in [Caller -> [status : {"success", "failure", "blocked", "scope-violation"},
                              next : Phase] \cup {None}]
    /\ edits \in 0..MaxEdits /\ faults \in 0..MaxFaults
    /\ agentMade \in [Path -> Version \cup {None}]
    /\ upheld \subseteq Caller

Init ==
    /\ phase = "REQUESTED" /\ history = <<>>
    /\ story \in BOOLEAN
    /\ evidence = [k \in Evidence |-> IF k \in Recorded THEN "passed" ELSE "unavailable"]
    /\ waivers = [k \in Check |-> None]
    /\ approval = [decision |-> "none", at |-> 0]
    /\ tree \in [Path -> {"clean", "modified"}]   \* uncommitted work may be there already
    /\ head = 0 /\ clock = 0
    /\ call = [c \in Caller |-> Idle]
    /\ report = [c \in Caller |-> None]
    /\ edits = 0 /\ faults = 0 /\ agentMade = [p \in Path |-> None] /\ upheld = {}

-----------------------------------------------------------------------------
(* The workflow store *)

\* Mutant: the arguments of an event are swapped.
TransitionBy(from, to, trigger) ==
    [kind |-> "transition", from |-> from, to |-> trigger, trigger |-> to, check |-> None, by |-> None]

Transition(from, to, trigger) ==
    [kind |-> "transition", from |-> from, to |-> to, trigger |-> trigger, check |-> None, by |-> None]

LedgerEvent(kind, k, actor) ==
    [kind |-> kind, from |-> phase, to |-> phase, trigger |-> None, check |-> k, by |-> actor]

\* Events that are no moves (bounded by MaxNotes).
Noted == Cardinality({i \in DOMAIN history : history[i].from = history[i].to})

\* advance: an illegal edge throws and leaves the run as it was, and the call
\* that asked for it ends either way.
Advance(to, trigger) ==
    LET target == EffectiveTarget(phase, to, trigger) IN
    /\ IF CanTransition(phase, target, trigger)
       THEN /\ phase' = target
            /\ history' = Append(history, Transition(phase, target, trigger))
       ELSE UNCHANGED <<phase, history>>
    /\ UNCHANGED <<story, evidence, waivers>>

\* recordEvent: an event on the record, the phase stays.
RecordEvent(trigger) ==
    /\ Noted < MaxNotes
    /\ history' = Append(history, Transition(phase, phase, trigger))
    /\ UNCHANGED <<phase, story, evidence, waivers>>

InForce(w) == w # None /\ ~w.revoked

\* The last word of the record on the waiver of check k, among its first n events.
LastOn(k, n) ==
    LET about == {i \in 1..n : history[i].check = k}
    IN  IF about = {} THEN None
        ELSE history[CHOOSE i \in about : \A j \in about : j <= i]

\* By the record, check k is waived: the last of its events is a grant, or it has none and
\* the waiver was injected.
WaivedByRecord(k) ==
    LET e == LastOn(k, Len(history)) IN IF e = None THEN k \in Injected ELSE e.kind = "waiver-grant"

\* All evidence is there, or missing and waived.
InOrder == \A k \in Evidence : \/ evidence[k] = "passed"
                               \/ evidence[k] = "unavailable" /\ WaivedByRecord(k)

\* After a change of the evidence or the ledger, the calls of verify that see it in order.
Upheld == upheld' = IF InOrder' THEN upheld \cup {c \in Caller : call[c].pc \in Verifying} ELSE upheld

\* recordEvidence: what is given replaces what there was, at any moment and in any phase;
\* a record for another workflow or story counts as none, and a scope cannot fail.
RecordEvidence(given) ==
    /\ evidence' = [k \in Evidence |-> IF k \in Recordable THEN given[k] ELSE evidence[k]]
    /\ evidence'["scope-clean"] # "failed"
    /\ UNCHANGED <<phase, history, story, waivers, approval, repo, clock, call, report, faults>>
    /\ Upheld

\* Mutant: the active waiver in force is not looked for.
GrantOver(actor, k) ==
    /\ phase \notin Terminal /\ actor \in HumanPO
    /\ Noted < MaxNotes
    /\ waivers' = [waivers EXCEPT ![k] = [by |-> actor, revoked |-> FALSE]]
    /\ history' = Append(history, LedgerEvent("waiver-grant", k, actor))
    /\ UNCHANGED <<phase, story, evidence, approval, repo, clock, call, report, faults>>
    /\ Upheld

\* grantWaiver: a human PO, no active waiver for the check; the record and its
\* event are one write.  TERMINAL_PHASES does not hold VERIFIED.
GrantWaiver(actor, k) ==
    /\ phase \notin Terminal
    /\ actor \in HumanPO
    /\ ~InForce(waivers[k])
    /\ Noted < MaxNotes
    /\ waivers' = [waivers EXCEPT ![k] = [by |-> actor, revoked |-> FALSE]]
    /\ history' = Append(history, LedgerEvent("waiver-grant", k, actor))
    /\ UNCHANGED <<phase, story, evidence, approval, repo, clock, call, report, faults>>
    /\ Upheld

\* revokeWaiver: only its grantor, once.
RevokeWaiver(actor, k) ==
    /\ phase \notin Terminal
    /\ actor \in HumanPO
    /\ InForce(waivers[k]) /\ waivers[k].by = actor
    /\ Noted < MaxNotes
    /\ waivers' = [waivers EXCEPT ![k].revoked = TRUE]
    /\ history' = Append(history, LedgerEvent("waiver-revocation", k, actor))
    /\ UNCHANGED <<phase, story, evidence, approval, repo, clock, call, report, faults>>
    /\ Upheld

-----------------------------------------------------------------------------
(* The working tree and the git guard *)

\* Anybody may edit a file; an edit while a build session is open is the agent's.
Edit(p, v) ==
    /\ edits < MaxEdits /\ edits' = edits + 1
    /\ tree[p] # v
    /\ tree' = [tree EXCEPT ![p] = v]
    /\ agentMade' = IF AgentOn /\ agentMade[p] = None THEN [agentMade EXCEPT ![p] = tree[p]] ELSE agentMade
    /\ UNCHANGED <<run, approval, head, clock, call, report, faults, upheld>>

\* A commit moves HEAD and leaves the tree clean.
Commit ==
    /\ edits < MaxEdits /\ edits' = edits + 1
    /\ head' = head + 1
    /\ tree' = [p \in Path |-> "clean"]
    /\ UNCHANGED <<run, approval, agentMade, clock, call, report, faults, upheld>>

Flags    == [p \in Path |-> FlagOf[tree[p]]]
NoFlags  == [p \in Path |-> "none"]

\* captureSnapshot: a git command that fails or times out yields no HEAD, or no
\* paths, and no error (executeGitCommand).
Reading == [head : {head, None}, flags : {Flags, NoFlags}]

Capture(s) ==
    IF s = [head |-> head, flags |-> Flags]
    THEN UNCHANGED faults
    ELSE faults < MaxFaults /\ faults' = faults + 1

\* diffSnapshots: the paths whose flags differ; content hashes are not compared.
Changed(base, now) == {p \in Path : base.flags[p] # now.flags[p]}

\* evaluateGuard
Unauthorized(base, now) == Changed(base, now) \ Authorized
Protected(base, now)    == {p \in Changed(base, now) : base.flags[p] # "none"}

-----------------------------------------------------------------------------
(* Planning and approval *)

Enter(c, stage) == call' = [call EXCEPT ![c] = [Idle EXCEPT !.pc = stage]]
Leave(c)        == call' = [call EXCEPT ![c] = Idle]

\* start: create the run, advance it to PLANNING.
Start ==
    /\ phase = "REQUESTED"
    /\ Advance("PLANNING", "PLAN_REQUESTED")
    /\ UNCHANGED <<approval, repo, clock, call, report, faults, upheld>>

Plan(c) ==
    /\ call[c] = Idle /\ phase = "PLANNING"
    /\ IF story
       THEN Enter(c, "planning") /\ UNCHANGED run
       ELSE Advance("BLOCKED", "EXTERNAL_BLOCK") /\ UNCHANGED call
    /\ UNCHANGED <<approval, repo, clock, report, faults, upheld>>

\* handleResolutionFailure and transitionFromPlan
PlanOutcome == {<<"PLAN_READY", "PLAN_PRODUCED">>,
                <<"PO_DECISION_REQUIRED", "PO_DECISION_REQUIRED">>,
                <<"BLOCKED", "EXTERNAL_BLOCK">>,
                <<"BLOCKED", "DRAFT_ID_COLLISION">>,
                <<"BLOCKED", "STORY_AMBIGUOUS">>}

PlanEnds(c) ==
    /\ call[c].pc = "planning"
    /\ \E o \in PlanOutcome : Advance(o[1], o[2])
    /\ Leave(c)
    /\ UNCHANGED <<approval, repo, clock, report, faults, upheld>>

\* Mutant: approval may be requested whatever the phase.
RequestAnyPhase ==
    /\ approval' = [decision |-> "ApprovalRequired", at |-> clock]
    /\ Advance("WAITING_FOR_APPROVAL", "APPROVAL_REQUESTED")
    /\ UNCHANGED <<repo, clock, call, report, faults, upheld>>

RequestApproval ==
    /\ phase = "PLAN_READY"
    /\ approval' = [decision |-> "ApprovalRequired", at |-> clock]
    /\ Advance("WAITING_FOR_APPROVAL", "APPROVAL_REQUESTED")
    /\ UNCHANGED <<repo, clock, call, report, faults, upheld>>

\* Mutant: a rejection is looked at before the phase.
RejectAnywhere ==
    /\ phase \in AfterBuilding
    /\ phase' = "REJECTED"
    /\ history' = Append(history, Transition(phase, "REJECTED", "APPROVAL_REJECTED"))
    /\ UNCHANGED <<story, evidence, waivers, approval, repo, clock, call, report, faults, upheld>>

\* decideApproval, rejection after the build has started: noted, nothing else.
LateRejection ==
    /\ phase \in AfterBuilding
    /\ RecordEvent("APPROVAL_REJECTED")
    /\ UNCHANGED <<approval, repo, clock, call, report, faults, upheld>>

\* decideApproval: the decision is recorded and acted on at one instant of the
\* clock, so the expiry test in it cannot find the decision expired.
DecideApproval(decision) ==
    /\ phase = "WAITING_FOR_APPROVAL" /\ approval.decision # "none"
    /\ approval' = [decision |-> decision, at |-> clock]
    /\ IF decision = "ApprovalGranted"
       THEN Advance("BUILDING", "APPROVAL_GRANTED")
       ELSE Advance("REJECTED", "APPROVAL_REJECTED")
    /\ UNCHANGED <<repo, clock, call, report, faults, upheld>>

Expired == clock - approval.at > Validity

-----------------------------------------------------------------------------
(* build *)

\* The phase test and checkApprovalValidity: no grant blocks the run, an expired
\* one is invalidated and noted.
Build(c) ==
    /\ call[c] = Idle /\ phase = "BUILDING"
    /\ \/ /\ approval.decision # "ApprovalGranted"
          /\ Advance("BLOCKED", "EXTERNAL_BLOCK")
          /\ UNCHANGED <<approval, call>>
       \/ /\ approval.decision = "ApprovalGranted" /\ Expired
          /\ approval' = [decision |-> "ApprovalRequired", at |-> clock]
          /\ RecordEvent("APPROVAL_REJECTED")
          /\ UNCHANGED call
       \/ /\ approval.decision = "ApprovalGranted" /\ ~Expired
          /\ Enter(c, "build_baseline")
          /\ UNCHANGED <<run, approval>>
    /\ UNCHANGED <<repo, clock, report, faults, upheld>>

\* captureBaseline of build, test and verify.
AfterBaseline == [build_baseline  |-> "build_agent",
                  test_baseline   |-> "test_current",
                  verify_baseline |-> "verify_current"]

TakeBaseline(c) ==
    /\ call[c].pc \in DOMAIN AfterBaseline
    /\ \E s \in Reading :
         /\ Capture(s)
         /\ call' = [call EXCEPT ![c].base = s, ![c].pc = AfterBaseline[call[c].pc]]
    /\ UNCHANGED <<run, approval, repo, clock, report, upheld>>

\* The session is over; what it edited is in the tree.
AgentEnds(c) ==
    /\ call[c].pc = "build_agent"
    /\ call' = [call EXCEPT ![c].pc = "build_current"]
    /\ UNCHANGED <<run, approval, repo, clock, report, faults, upheld>>

\* A session of plan, build or review rejects: the call does, the phase stays.
SessionThrows(c) ==
    /\ call[c].pc \in {"planning", "build_agent", "review"}
    /\ Leave(c)
    /\ UNCHANGED <<run, approval, repo, clock, report, faults, upheld>>

\* Where the guard sends a run, in the order of the tests; None when it may go on.
GuardStop(base, now, scoped) ==
    IF base.head # now.head THEN <<"BLOCKED", "EXTERNAL_BLOCK">>
    ELSE IF scoped /\ Unauthorized(base, now) # {} THEN <<"SCOPE_VIOLATION", "SCOPE_VIOLATION_DETECTED">>
    ELSE IF scoped /\ Protected(base, now) # {} THEN <<"BLOCKED", "EXTERNAL_BLOCK">>
    ELSE None

\* After the agent: compare with the baseline, then with what the agent says of
\* itself (only its failure counts).  A missing scope blocks.
BuildEnds(c) ==
    /\ call[c].pc = "build_current"
    /\ \E s \in Reading :
         LET stop == GuardStop(call[c].base, s, TRUE) IN
         /\ Capture(s)
         /\ CASE evidence["scope-clean"] # "passed" -> Advance("BLOCKED", "EXTERNAL_BLOCK")
              [] evidence["scope-clean"] = "passed" /\ stop # None -> Advance(stop[1], stop[2])
              [] OTHER -> \/ Advance("TESTING", "BUILD_PRODUCED")
                          \/ Advance("FAILED", "TESTS_FAILED")
    /\ Leave(c)
    /\ UNCHANGED <<approval, repo, clock, report, upheld>>

-----------------------------------------------------------------------------
(* test and review *)

Test(c) ==
    /\ call[c] = Idle /\ phase = "TESTING"
    /\ Enter(c, "test_baseline")
    /\ UNCHANGED <<run, approval, repo, clock, report, faults, upheld>>

TestCurrent(c) ==
    /\ call[c].pc = "test_current"
    /\ \E s \in Reading :
         /\ Capture(s)
         /\ call' = [call EXCEPT ![c].changed = Changed(call[c].base, s), ![c].pc = "test_checks"]
    /\ UNCHANGED <<run, approval, repo, clock, report, upheld>>

\* getVerificationCommands
Applicable(changed) == {k \in Command : \/ k = "backend" /\ changed \cap Backend # {}
                                        \/ k = "frontend" /\ changed \cap Frontend # {}}

\* Every command must pass, and a frontend change needs headed E2E evidence,
\* which no code supplies yet (getOpenCodeE2EEvidence).
TestEnds(c) ==
    /\ call[c].pc = "test_checks"
    /\ \E failed \in SUBSET Applicable(call[c].changed) :
         IF failed = {} /\ call[c].changed \cap Frontend = {}
         THEN Advance("REVIEWING", "TESTS_COMPLETED")
         ELSE Advance("FAILED", "TESTS_FAILED")
    /\ Leave(c)
    /\ UNCHANGED <<approval, repo, clock, report, faults, upheld>>

Review(c) ==
    /\ call[c] = Idle /\ phase = "REVIEWING"
    /\ Enter(c, "review")
    /\ UNCHANGED <<run, approval, repo, clock, report, faults, upheld>>

\* Output without findings data, or a blocking finding, fails the run.
ReviewEnds(c) ==
    /\ call[c].pc = "review"
    /\ \/ Advance("VERIFYING", "REVIEW_COMPLETED")
       \/ Advance("FAILED", "REVIEW_FAILED")
    /\ Leave(c)
    /\ UNCHANGED <<approval, repo, clock, report, faults, upheld>>

-----------------------------------------------------------------------------
(* verify *)

\* The run is read once, here; evidence and waivers are used as read.
Verify(c) ==
    /\ call[c] = Idle /\ phase = "VERIFYING"
    /\ call' = [call EXCEPT ![c] = [Idle EXCEPT
            !.pc = "verify_baseline",
            !.view = [evidence |-> evidence, waivers |-> waivers,
                      reviewed |-> \E i \in DOMAIN history : history[i].trigger = "REVIEW_COMPLETED"]]]
    /\ upheld' = IF InOrder THEN upheld \cup {c} ELSE upheld \ {c}
    /\ UNCHANGED <<run, approval, repo, clock, report, faults>>

\* Mutant: what is stored is what is recommended, whoever stored it.
ConcludeStored(c, status, to, trigger) ==
    /\ Advance(to, trigger)
    /\ report' = [report EXCEPT ![c] =
            IF CanTransition(phase, to, trigger) THEN [status |-> status, next |-> to]
            ELSE [status |-> "failure", next |-> phase]]
    /\ Leave(c)

\* #transition and resolveTransitionReport: a refused transition is a failure, and
\* a failure never recommends VERIFIED.
Conclude(c, status, to, trigger) ==
    /\ Advance(to, trigger)
    /\ report' = [report EXCEPT ![c] =
            IF CanTransition(phase, to, trigger) THEN [status |-> status, next |-> to]
            ELSE [status |-> "failure", next |-> IF phase = "VERIFIED" THEN "FAILED" ELSE phase]]
    /\ Leave(c)

\* HEAD first, then the guard if a scope is on record, then the checks.
VerifyCurrent(c) ==
    /\ call[c].pc = "verify_current"
    /\ \E s \in Reading :
         LET base == call[c].base
             stop == GuardStop(base, s, call[c].view.evidence["scope-clean"] = "passed")
         IN
         /\ Capture(s)
         /\ IF stop = None
            THEN /\ call' = [call EXCEPT ![c].pc = "verify_checks",
                                         ![c].changed = Changed(base, s),
                                         ![c].gitOk = base.head # None]
                 /\ UNCHANGED <<run, report>>
            ELSE Conclude(c, IF stop[1] = "BLOCKED" THEN "blocked" ELSE "scope-violation",
                          stop[1], stop[2])
    /\ UNCHANGED <<approval, repo, clock, upheld>>

\* buildVerifyCheckEvidence; failed are the commands that failed, dead those that
\* could not run.
StatusOf(changed, gitOk, view, failed, dead, k) ==
    CASE k \in Command \ Applicable(changed) -> "not_applicable"
      [] k \in Applicable(changed) ->
           IF k \in failed THEN "failed" ELSE IF k \in dead THEN "unavailable" ELSE "passed"
      [] k = "headed-e2e" -> IF changed \cap Frontend = {} THEN "not_applicable" ELSE "unavailable"
      [] k = "git-integrity" -> IF gitOk THEN "passed" ELSE "failed"
      [] k = "review-approved" -> IF view.reviewed THEN "passed" ELSE "unavailable"
      [] k \in Evidence -> view.evidence[k]

\* Mutant: a waiver given for any check covers this one.
WaivedByAny(ledger, k) == k \in Injected \/ \E j \in Check : InForce(ledger[j])

\* mergeWaiverSources, applyWaiverValidity: the ledger decides if it knows the check.
Waived(ledger, k) == IF ledger[k] = None THEN k \in Injected ELSE InForce(ledger[k])

\* evaluatePerCheckVerification: nothing failed, nothing unavailable without its
\* waiver, and something passed.
Verdict(changed, gitOk, view, failed, dead) ==
    LET status(k) == StatusOf(changed, gitOk, view, failed, dead, k) IN
    /\ \A k \in Check : \/ status(k) \in {"passed", "not_applicable"}
                        \/ status(k) = "unavailable" /\ Waived(view.waivers, k)
    /\ \E k \in Check : status(k) = "passed"

VerifyEnds(c) ==
    /\ call[c].pc = "verify_checks"
    /\ \E failed \in SUBSET Applicable(call[c].changed) :
       \E dead \in SUBSET (Applicable(call[c].changed) \ failed) :
         IF Verdict(call[c].changed, call[c].gitOk, call[c].view, failed, dead)
         THEN Conclude(c, "success", "VERIFIED", "VERIFICATION_COMPLETED")
         ELSE Conclude(c, "failure", "FAILED", "VERIFICATION_FAILED")
    /\ UNCHANGED <<approval, repo, clock, faults, upheld>>

\* A snapshot that throws: build and verify block the run, test fails it.
CaptureThrows(c) ==
    /\ call[c].pc \in {"build_baseline", "build_current", "test_baseline", "test_current",
                       "verify_baseline", "verify_current"}
    /\ CASE call[c].pc \in Building ->
              Advance("BLOCKED", "EXTERNAL_BLOCK") /\ Leave(c) /\ UNCHANGED report
         [] call[c].pc \in {"test_baseline", "test_current"} ->
              Advance("FAILED", "HARD_FAILURE") /\ Leave(c) /\ UNCHANGED report
         [] OTHER -> Conclude(c, "blocked", "BLOCKED", "EXTERNAL_BLOCK")
    /\ UNCHANGED <<approval, repo, clock, faults, upheld>>

Tick ==
    /\ clock < MaxClock /\ clock' = clock + 1
    /\ UNCHANGED <<run, approval, repo, call, report, faults, upheld>>

-----------------------------------------------------------------------------
Human ==
    \/ RequestApproval \/ LateRejection
    \/ \E d \in {"ApprovalGranted", "ApprovalRejected"} : DecideApproval(d)
    \/ \E actor \in Actor, k \in Waivable : GrantWaiver(actor, k) \/ RevokeWaiver(actor, k)
    \/ \E given \in [Recordable -> Standing] : RecordEvidence(given)

Operation(c) ==
    \/ Plan(c) \/ PlanEnds(c)
    \/ Build(c) \/ AgentEnds(c) \/ BuildEnds(c)
    \/ TakeBaseline(c) \/ CaptureThrows(c) \/ SessionThrows(c)
    \/ Test(c) \/ TestCurrent(c) \/ TestEnds(c)
    \/ Review(c) \/ ReviewEnds(c)
    \/ Verify(c) \/ VerifyCurrent(c) \/ VerifyEnds(c)

Next ==
    \/ Start \/ Human
    \/ \E c \in Caller : Operation(c)
    \/ \E p \in Path, v \in Version : Edit(p, v)
    \/ Commit \/ Tick

Spec == Init /\ [][Next]_vars

-----------------------------------------------------------------------------
(* Safety *)

\* The record of a run is a chain from its start to the stored phase: every event,
\* notes and waivers included, begins where the one before it ends.  A move on it
\* is a step of the forward path or, from a phase of that path and so at most
\* once, a stop (WorkflowStore.advance, with calls that overlap and answer late).
RecordMatchesPhase ==
    LET after(n) == IF n = 0 THEN "REQUESTED" ELSE history[n].to
    IN  /\ phase = after(Len(history))
        /\ \A i \in DOMAIN history :
             /\ history[i].from = after(i - 1)
             /\ history[i].from # history[i].to =>
                  \E n \in 1..(Len(Forward) - 1) :
                     /\ history[i].from = Forward[n]
                     /\ history[i].to \in {Forward[n + 1]} \cup Terminal

\* verify answers success only for a run that is VERIFIED, and recommends
\* VERIFIED only with success, also to a call that lost a race (F-1).
ReportsTruthful ==
    \A c \in Caller : report[c] # None =>
        /\ report[c].status = "success" => phase = "VERIFIED"
        /\ report[c].next = "VERIFIED" => report[c].status = "success"

\* The stored phase, the audit trail and what callers were told agree, however the
\* calls of a run overlap and whichever of them answers last (the two above).
RecordTruthful == RecordMatchesPhase /\ ReportsTruthful

\* The ledger says what the audit trail says: a waiver is in force exactly when
\* the last event about its check is a grant, by the actor it names; a grant
\* follows no grant, and a revocation follows a grant by the same actor.
LedgerAudited ==
    /\ \A k \in Check :
         LET e == LastOn(k, Len(history)) IN
         /\ waivers[k] = None <=> e = None
         /\ e # None => /\ waivers[k].by = e.by
                        /\ waivers[k].revoked <=> e.kind = "waiver-revocation"
    /\ \A i \in DOMAIN history : history[i].check # None =>
         LET e == LastOn(history[i].check, i - 1) IN
         IF history[i].kind = "waiver-grant"
         THEN e # None => e.kind = "waiver-revocation"
         ELSE e # None /\ e.kind = "waiver-grant" /\ e.by = history[i].by

\* A run is VERIFIED by a call of verify during which, at some moment, all the evidence stood
\* together: each kind on record as passed, or not on record and its waiver in force by the
\* audit trail.  Evidence that fails is never waived, and nothing recorded or revoked before
\* the call is relied on, whatever the ledger, its history and other calls did meanwhile
\* (verify reads the run once; what changes after that is not seen by it).
VerifiedOnEvidence ==
    phase = "VERIFIED" => \E c \in upheld : report[c] = [status |-> "success", next |-> "VERIFIED"]

(* What a step may never do *)

\* A grant is not taken back: once given it stays on the gate, whatever is asked
\* or rejected later, until build() finds it older than 48 hours.
GrantStands ==
    [][approval.decision = "ApprovalGranted" /\ approval'.decision # "ApprovalGranted"
       => clock - approval.at > Validity /\ phase' = "BUILDING"]_vars

(* The promise of ApprovedRun, kept by these operations. *)
Promise == INSTANCE ApprovedRun WITH
    granted <- \E i \in DOMAIN history : history[i].trigger = "APPROVAL_GRANTED"

KeepsPromise == Promise!Spec

-----------------------------------------------------------------------------
(* What the documents say of the program, and it does not do *)

Made       == {p \in Path : agentMade[p] # None}
Downstream == {"TESTING", "REVIEWING", "VERIFYING", "VERIFIED"}

\* "Any change to a protected file during workflow execution is BLOCKED": a file
\* modified before the build and rewritten by the agent does not pass.
ProtectedUntouched ==
    phase \in Downstream => \A p \in Made : agentMade[p] = "clean" \/ tree[p] = agentMade[p]
=============================================================================
