---------------------------- MODULE WorkflowGraph ----------------------------
(***************************************************************************)
(* The phases of an orchestrated workflow run and the edges between them,  *)
(* with the trigger that takes each (workflow.ts).                         *)
(***************************************************************************)
EXTENDS Naturals, Sequences

\* The forward path, in order.
Forward == <<"REQUESTED", "PLANNING", "PLAN_READY", "WAITING_FOR_APPROVAL", "BUILDING",
             "TESTING", "REVIEWING", "VERIFYING", "VERIFIED">>

Active   == {Forward[i] : i \in DOMAIN Forward}
Terminal == {"BLOCKED", "FAILED", "REJECTED", "SCOPE_VIOLATION", "PO_DECISION_REQUIRED"}
Phase    == Active \cup Terminal
Ended    == Terminal \cup {"VERIFIED"}

\* isAfterBuilding
AfterBuilding == {"BUILDING", "TESTING", "REVIEWING", "VERIFYING", "VERIFIED"}

Trigger == {"PLAN_REQUESTED", "PLAN_PRODUCED", "APPROVAL_REQUESTED", "APPROVAL_GRANTED",
            "BUILD_PRODUCED", "TESTS_COMPLETED", "REVIEW_COMPLETED", "VERIFICATION_COMPLETED",
            "APPROVAL_REJECTED", "STORY_AMBIGUOUS", "DRAFT_ID_COLLISION",
            "SCOPE_VIOLATION_DETECTED", "PO_DECISION_REQUIRED", "EXTERNAL_BLOCK",
            "GUARD_VIOLATION", "HARD_FAILURE", "TESTS_FAILED", "REVIEW_FAILED",
            "VERIFICATION_FAILED"}

\* The trigger of each forward step.
Onward == [REQUESTED            |-> "PLAN_REQUESTED",
           PLANNING             |-> "PLAN_PRODUCED",
           PLAN_READY           |-> "APPROVAL_REQUESTED",
           WAITING_FOR_APPROVAL |-> "APPROVAL_GRANTED",
           BUILDING             |-> "BUILD_PRODUCED",
           TESTING              |-> "TESTS_COMPLETED",
           REVIEWING            |-> "REVIEW_COMPLETED",
           VERIFYING            |-> "VERIFICATION_COMPLETED"]

Working == DOMAIN Onward   \* the phases with edges out of them

ForwardEdge == {<<Forward[i], Forward[i + 1], Onward[Forward[i]]>> : i \in 1..(Len(Forward) - 1)}

\* What may go wrong in each phase, beyond what may go wrong in all of them.
FailureEdge ==
    {<<from, "BLOCKED", "EXTERNAL_BLOCK">> : from \in Working}
    \cup {<<from, "FAILED", "HARD_FAILURE">> : from \in Working}
    \cup {<<from, to, trigger>> :
            from \in Working \ {"REQUESTED"},
            to \in {"FAILED"}, trigger \in {"GUARD_VIOLATION"}}
    \cup {<<from, "SCOPE_VIOLATION", "SCOPE_VIOLATION_DETECTED">> : from \in Working \ {"REQUESTED"}}
    \cup {<<from, "PO_DECISION_REQUIRED", "PO_DECISION_REQUIRED">> : from \in Working \ {"REQUESTED"}}
    \cup {<<from, "BLOCKED", trigger>> :
            from \in {"REQUESTED", "PLANNING", "PLAN_READY", "WAITING_FOR_APPROVAL"},
            trigger \in {"STORY_AMBIGUOUS", "DRAFT_ID_COLLISION"}}
    \cup {<<"PLANNING", "BLOCKED", "PO_DECISION_REQUIRED">>,
          <<"WAITING_FOR_APPROVAL", "REJECTED", "APPROVAL_REJECTED">>,
          <<"BUILDING", "FAILED", "TESTS_FAILED">>,
          <<"TESTING", "FAILED", "TESTS_FAILED">>,
          <<"REVIEWING", "FAILED", "REVIEW_FAILED">>,
          <<"VERIFYING", "FAILED", "VERIFICATION_FAILED">>}

\* Mutant: the graph is not consulted.
CanGoAnywhere(from, to, trigger) == to \in Phase

\* canTransition: PLAN_READY -> BUILDING is not an edge, and no ended phase has one.
CanTransition(from, to, trigger) == <<from, to, trigger>> \in ForwardEdge \cup FailureEdge

\* resolveEffectiveTarget: a PO decision found missing in PLANNING is not a block.
EffectiveTarget(from, to, trigger) ==
    IF from = "PLANNING" /\ trigger = "PO_DECISION_REQUIRED" THEN "PO_DECISION_REQUIRED" ELSE to
=============================================================================
