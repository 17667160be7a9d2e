--------------------------- MODULE ProcessRunner ---------------------------
(***************************************************************************)
(* One run of a command by the orchestrator (opencode-process.ts, and the   *)
(* turn opencode-client.ts makes of it): the child process, what it writes, *)
(* the two timers, and the events node reports.                             *)
(*                                                                          *)
(* Nothing is assumed about the child: it may end by itself at any moment   *)
(* or never, with any exit code, obey SIGTERM or not, and leave a process   *)
(* of its own behind that keeps its pipes open.                             *)
(***************************************************************************)
EXTENDS Naturals, Sequences

CONSTANTS
    MaxOutput,   \* maxOutputBytes, in chunks of one byte and more
    MaxChunk, MaxProduced,
    None

Bounds == {MaxOutput, MaxChunk, MaxProduced} \subseteq Nat

VARIABLES
    child,      \* the process: its state, exit, and what it is like
    timer,      \* timeoutHandle and, once that has fired, forceHandle
    timedOut,
    signals,    \* terminationSignals
    produced,   \* bytes written to the pipes and read from them
    captured,   \* bytes kept by the BoundedBuffer
    truncated,
    outcome     \* what run() resolved to

vars == <<child, timer, timedOut, signals, produced, captured, truncated, outcome>>

Exit == {"zero", "nonzero", "signal"}

\* obeys: SIGTERM ends it; killable: signals reach it; heir: a process of its own
\* keeps the pipes open after it.
Child == [state : {"new", "running", "exited"}, exit : Exit \cup {None},
          obeys : BOOLEAN, killable : BOOLEAN, heir : BOOLEAN]

Init ==
    /\ child \in {c \in Child : c.state = "new" /\ c.exit = None}
    /\ timer = "armed" /\ timedOut = FALSE /\ signals = <<>>
    /\ produced = 0 /\ captured = 0 /\ truncated = FALSE
    /\ outcome = None

-----------------------------------------------------------------------------
\* base(): what every outcome carries.
Outcome(status, exit, terms) ==
    [status |-> status, exit |-> exit, timedOut |-> timedOut, signals |-> terms,
     captured |-> captured, truncated |-> truncated,
     completed |-> status \in {"success", "failure"}]       \* of the turn

\* Mutant: an outcome replaces the one before.
FinishAgain(o) ==
    /\ outcome' = o
    /\ timer' = IF timer = "armed" THEN "cleared" ELSE timer

\* finish: the first outcome stands, and the timeout is disarmed; the timer of the
\* forced kill is left to fire.
Finish(o) ==
    IF outcome # None THEN UNCHANGED <<outcome, timer>>
    ELSE /\ outcome' = o
         /\ timer' = IF timer = "armed" THEN "cleared" ELSE timer

SpawnThrows ==
    /\ child.state = "new" /\ outcome = None
    /\ Finish(Outcome("spawn-error", None, <<>>))
    /\ UNCHANGED <<child, timedOut, signals, produced, captured, truncated>>

Spawn ==
    /\ child.state = "new" /\ outcome = None
    /\ child' = [child EXCEPT !.state = "running"]
    /\ UNCHANGED <<timer, timedOut, signals, produced, captured, truncated, outcome>>

-----------------------------------------------------------------------------
(* The child *)

ChildExits ==
    /\ child.state = "running"
    /\ \E exit \in Exit : child' = [child EXCEPT !.state = "exited", !.exit = exit]
    /\ UNCHANGED <<timer, timedOut, signals, produced, captured, truncated, outcome>>

\* Mutant: a chunk that does not fit is kept whole.
PushWhole(n) ==
    IF captured >= MaxOutput
    THEN /\ truncated' = TRUE
         /\ UNCHANGED captured
    ELSE /\ captured' = captured + n
         /\ UNCHANGED truncated

\* BoundedBuffer.push
Push(n) ==
    LET room == MaxOutput - captured IN
    IF room = 0
    THEN /\ truncated' = TRUE
         /\ UNCHANGED captured
    ELSE IF n <= room
    THEN /\ captured' = captured + n
         /\ UNCHANGED truncated
    ELSE /\ captured' = MaxOutput
         /\ truncated' = TRUE

\* A chunk arrives from the child, or from its heir.
Data(n) ==
    /\ child.state = "running" \/ (child.state = "exited" /\ child.heir)
    /\ produced + n <= MaxProduced
    /\ produced' = produced + n
    /\ Push(n)
    /\ UNCHANGED <<child, timer, timedOut, signals, outcome>>

-----------------------------------------------------------------------------
(* Timers *)

Send(signal) ==
    child' = IF /\ child.state = "running" /\ child.killable
                /\ signal = "SIGTERM" => child.obeys
             THEN [child EXCEPT !.state = "exited", !.exit = "signal"]
             ELSE child

\* Mutant: the forced kill is left out.
TimeoutOnce ==
    /\ timer = "armed" /\ child.state # "new"
    /\ timer' = "done" /\ timedOut' = TRUE
    /\ signals' = Append(signals, "SIGTERM")
    /\ Send("SIGTERM")
    /\ UNCHANGED <<produced, captured, truncated, outcome>>

\* Mutant: the timer is an interval.
TimeoutAgain ==
    /\ timer = "armed" /\ child.state # "new"
    /\ timedOut' = TRUE
    /\ signals' = Append(signals, "SIGTERM")
    /\ Send("SIGTERM")
    /\ UNCHANGED <<timer, produced, captured, truncated, outcome>>

Timeout ==
    /\ timer = "armed" /\ child.state # "new"
    /\ timer' = "grace" /\ timedOut' = TRUE
    /\ signals' = Append(signals, "SIGTERM")
    /\ Send("SIGTERM")
    /\ UNCHANGED <<produced, captured, truncated, outcome>>

ForceKill ==
    /\ timer = "grace"
    /\ timer' = "done"
    /\ signals' = Append(signals, "SIGKILL")
    /\ Send("SIGKILL")
    /\ UNCHANGED <<timedOut, produced, captured, truncated, outcome>>

-----------------------------------------------------------------------------
(* Events *)

\* Mutant: an error after the timeout is left to the timers.
ErrorUnlessTimedOut ==
    /\ \/ child.state = "new"
       \/ child.state = "running" /\ ~child.killable /\ signals # <<>>
    /\ ~timedOut
    /\ Finish(Outcome("spawn-error", None, <<>>))
    /\ UNCHANGED <<child, timedOut, signals, produced, captured, truncated>>

\* The child could not be started, or a signal could not be sent to it.
ErrorEvent ==
    /\ \/ child.state = "new"
       \/ child.state = "running" /\ ~child.killable /\ signals # <<>>
    /\ IF timedOut THEN Finish(Outcome("timeout", None, signals))
                   ELSE Finish(Outcome("spawn-error", None, <<>>))
    /\ UNCHANGED <<child, timedOut, signals, produced, captured, truncated>>

\* Mutant: the exit code alone decides.
CloseByCode ==
    /\ child.state = "exited" /\ ~child.heir
    /\ Finish(Outcome(IF child.exit = "zero" THEN "success" ELSE "failure", child.exit, <<>>))
    /\ UNCHANGED <<child, timedOut, signals, produced, captured, truncated>>

\* The child has exited and its pipes are closed.
Close ==
    /\ child.state = "exited" /\ ~child.heir
    /\ IF timedOut THEN Finish(Outcome("timeout", None, signals))
       ELSE IF child.exit = "zero" THEN Finish(Outcome("success", "zero", <<>>))
       ELSE Finish(Outcome("failure", child.exit, <<>>))
    /\ UNCHANGED <<child, timedOut, signals, produced, captured, truncated>>

\* The heir ends and with it the last writer of the pipes.
HeirEnds ==
    /\ child.state = "exited" /\ child.heir
    /\ child' = [child EXCEPT !.heir = FALSE]
    /\ UNCHANGED <<timer, timedOut, signals, produced, captured, truncated, outcome>>

Next ==
    \/ SpawnThrows \/ Spawn \/ ChildExits \/ HeirEnds
    \/ \E n \in 1 .. MaxChunk : Data(n)
    \/ Timeout \/ ForceKill \/ ErrorEvent \/ Close

Spec == Init /\ [][Next]_vars

-----------------------------------------------------------------------------
TypeOK ==
    /\ child \in Child
    /\ timer \in {"armed", "cleared", "grace", "done"}
    /\ timedOut \in BOOLEAN /\ truncated \in BOOLEAN
    /\ signals \in {<<>>, <<"SIGTERM">>, <<"SIGTERM", "SIGKILL">>}
    /\ produced \in 0 .. MaxProduced /\ captured \in 0 .. MaxOutput
    /\ outcome = None \/ outcome.status \in {"success", "failure", "timeout", "spawn-error"}

\* A run is a success only for a child that ended by itself with exit code 0 before
\* the time was up; a run that timed out is never reported as anything else, and
\* names every signal that had been sent.
OutcomeTruthful ==
    outcome # None =>
        /\ outcome.status = "success" =>
             child.state = "exited" /\ child.exit = "zero" /\ ~outcome.timedOut
        /\ outcome.timedOut <=> outcome.status = "timeout"
        /\ outcome.status = "timeout" =>
             /\ outcome.signals # <<>>
             /\ child.state = "exited" \/ ~child.killable

\* The capture never exceeds its bound and says so exactly when bytes are missing.
CaptureBounded ==
    /\ captured <= MaxOutput
    /\ truncated <=> captured < produced

\* What run() resolved to does not change, whatever event or timer comes after.
OutcomeStands == outcome # None => outcome' = outcome

\* What must not last under the fairness of MCEndings: a child that signals can reach,
\* once its time is up; a run, unless a process the child left behind keeps the pipes open.
Overdue == timedOut /\ child.killable /\ child.state # "exited"
Unresolved == outcome = None /\ ~child.heir
=============================================================================
