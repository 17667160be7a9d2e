------------------------- MODULE GenerationPromise -------------------------
(***************************************************************************)
(* What the conversation service promises a student: an idempotency key    *)
(* takes effect once; every attempt at an answer is for one question of a  *)
(* live thread, at most one per question is open, it ends once, and only   *)
(* a live thread is answered.                                              *)
(***************************************************************************)
CONSTANTS Conversation, Request, Attempt, Slot, None

VARIABLES
    thread,   \* "absent", "live" or "deleted"
    asked,    \* the thread of each question, None while it is not asked
    used,     \* the idempotency keys that had their effect
    of,       \* the question of each attempt
    outcome   \* "none", "open", "answered" or "failed"

vars == <<thread, asked, used, of, outcome>>

Init ==
    /\ thread = [c \in Conversation |-> "absent"]
    /\ asked = [r \in Request |-> None]
    /\ used = {}
    /\ of = [a \in Attempt |-> None]
    /\ outcome = [a \in Attempt |-> "none"]

\* A call without a key may take effect any number of times, one with a key once.
Use(s) ==
    \/ s = None /\ UNCHANGED used
    \/ s \in Slot \ used /\ used' = used \cup {s}

Open(c) == thread[c] = "absent" /\ thread' = [thread EXCEPT ![c] = "live"]

Ask(r, c) == asked[r] = None /\ asked' = [asked EXCEPT ![r] = c]

Begin(a, r) ==
    /\ outcome[a] = "none"
    /\ \A b \in Attempt : of[b] = r => outcome[b] # "open"
    /\ of' = [of EXCEPT ![a] = r]
    /\ outcome' = [outcome EXCEPT ![a] = "open"]

OpenThread(s, c) == Use(s) /\ Open(c) /\ UNCHANGED <<asked, of, outcome>>

OpenAsking(s, c, r, a) == Use(s) /\ Open(c) /\ Ask(r, c) /\ Begin(a, r)

AskIn(s, c, r, a) ==
    /\ Use(s) /\ thread[c] = "live" /\ Ask(r, c) /\ Begin(a, r)
    /\ UNCHANGED thread

AskAgain(r, a) ==
    /\ asked[r] # None /\ thread[asked[r]] = "live" /\ Begin(a, r)
    /\ UNCHANGED <<thread, asked, used>>

Answer(a) ==
    /\ outcome[a] = "open" /\ thread[asked[of[a]]] = "live"
    /\ outcome' = [outcome EXCEPT ![a] = "answered"]
    /\ UNCHANGED <<thread, asked, used, of>>

GiveUp(a) ==
    /\ outcome[a] = "open"
    /\ outcome' = [outcome EXCEPT ![a] = "failed"]
    /\ UNCHANGED <<thread, asked, used, of>>

Close(c) ==
    /\ thread[c] = "live"
    /\ thread' = [thread EXCEPT ![c] = "deleted"]
    /\ UNCHANGED <<asked, used, of, outcome>>

Next ==
    \/ \E s \in Slot \cup {None}, c \in Conversation :
         \/ OpenThread(s, c)
         \/ \E r \in Request, a \in Attempt : OpenAsking(s, c, r, a) \/ AskIn(s, c, r, a)
    \/ \E r \in Request, a \in Attempt : AskAgain(r, a)
    \/ \E a \in Attempt : Answer(a) \/ GiveUp(a)
    \/ \E c \in Conversation : Close(c)

Spec == Init /\ [][Next]_vars
=============================================================================
