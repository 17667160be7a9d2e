----------------------------- MODULE ApprovedRun -----------------------------
(***************************************************************************)
(* What the orchestrator promises about one workflow run, whoever calls    *)
(* it and however calls overlap: the run walks the forward path one phase  *)
(* at a time, leaves WAITING_FOR_APPROVAL for BUILDING only together with  *)
(* the one human grant on its record, may stop at any point, and once it   *)
(* has stopped or is verified it never moves again.                        *)
(***************************************************************************)
EXTENDS WorkflowGraph

VARIABLES phase,   \* where the run is
          granted  \* its record holds a human grant

promise == <<phase, granted>>

Init == phase = "REQUESTED" /\ granted = FALSE

\* One phase further; none of these steps is the way into BUILDING.
Proceed ==
    \E i \in 1..(Len(Forward) - 1) :
        /\ phase = Forward[i] /\ phase # "WAITING_FOR_APPROVAL"
        /\ phase' = Forward[i + 1]
        /\ UNCHANGED granted

\* The grant is recorded in the step that starts the build.
Grant ==
    /\ phase = "WAITING_FOR_APPROVAL" /\ ~granted
    /\ phase' = "BUILDING"
    /\ granted' = TRUE

Stop ==
    /\ phase \notin Ended
    /\ phase' \in Terminal
    /\ UNCHANGED granted

Next == Proceed \/ Grant \/ Stop

Spec == Init /\ [][Next]_promise
=============================================================================
