------------------------------ MODULE MCEndings ------------------------------
(* Whether what is begun ends: four components that wait for others, each with
   the fairness of its own scheduling; a behaviour is one of any of them (Parts). *)
EXTENDS Naturals, Parts

CONSTANTS
    One, Two, Place, Fetch,             \* sets of one, two or more identities
    MaxOutput, MaxChunk, MaxProduced    \* ProcessRunner

\* Two calls, one question and two attempts at it, one fault.
Conv == INSTANCE Conversation WITH
    conv <- v1, reqs <- v2, atts <- v3, responses <- v4, usage <- v5, idem <- v6,
    task <- v7, reply <- v8, faults <- v9, convKey <- v10, reqKey <- v11,
    Conversation <- One, Request <- One, Attempt <- Two, Key <- One, Question <- One, MaxFaults <- 1

\* One tab, two requests that may meet an expired access token.
Tabs == INSTANCE Sessions WITH
    tok <- v1, call <- v2, storage <- v3, status <- v4, req <- v5, faults <- v6,
    contended <- v7, lost <- v8,
    Tab <- One, Slot <- Place, Token <- Two, MaxFaults <- 1

\* One conversation and one question, two reads at a time, a lost answer.
View == INSTANCE ThreadPage WITH
    asked <- v1, deleted <- v2, claims <- v3, page <- v4, thread <- v5, snap <- v6, op <- v7,
    draft <- v8, busy <- v9, required <- v10, keys <- v11, fetches <- v12, latest <- v13,
    calls <- v14, heard <- v15, visited <- v16, strayed <- v17, faults <- v18,
    Conversation <- One, Question <- One, Key <- One, Intent <- One, Call <- One,
    MaxAttempts <- 2, MaxFaults <- 1

\* A child that writes more than is kept, up to MaxProduced.
Run == INSTANCE ProcessRunner WITH
    child <- v1, timer <- v2, timedOut <- v3, signals <- v4, produced <- v5, captured <- v6,
    truncated <- v7, outcome <- v8

ASSUME BoundsFit == Tabs!NoneIsNoId /\ Tabs!FaultBound /\ Run!Bounds

EndingsInit ==
    \/ part = "conversation" /\ Conv!Init /\ Unused12
    \/ part = "session" /\ Tabs!Init /\ Unused9
    \/ part = "page" /\ View!Init
    \/ part = "process" /\ Run!Init /\ Unused9

EndingsNext ==
    /\ \/ part = "conversation" /\ Conv!Next /\ UNCHANGED from12
       \/ part = "session" /\ Tabs!Next /\ UNCHANGED from9
       \/ part = "page" /\ View!Next
       \/ part = "process" /\ Run!Next /\ UNCHANGED from9
    /\ UNCHANGED part

\* The fairness each module states, for its part.
ConversationFair == \A h \in Handler : WF_state(part = "conversation" /\ Conv!Work(h) /\ UNCHANGED from12)

SessionFair ==
    /\ \A h \in Handler :
          WF_state(part = "session" /\ (Tabs!Serve(h) \/ Tabs!Return(h)) /\ UNCHANGED from9)
    /\ \A x \in One :
          /\ WF_state(part = "session" /\ Tabs!Check(x) /\ UNCHANGED from9)
          /\ \A s \in Place : WF_state(part = "session" /\ Tabs!Respond(x, s) /\ UNCHANGED from9)

PageFair ==
    /\ \A m \in One :
          /\ WF_state(part = "page" /\ (View!Arrive(m) \/ View!End(m) \/ View!Unheard(m)))
          /\ WF_state(part = "page" /\ (View!HearDeleted(m) \/ \E f \in Fetch : View!Reply(m, f)))
    /\ \A f \in Fetch : WF_state(part = "page" /\ (View!Read(f) \/ View!Deliver(f)))
    /\ WF_state(part = "page" /\ \E f \in Fetch : View!Poll(f))

ProcessFair ==
    /\ WF_state(part = "process" /\ (Run!Spawn \/ Run!SpawnThrows) /\ UNCHANGED from9)
    /\ WF_state(part = "process" /\ Run!Timeout /\ UNCHANGED from9)
    /\ WF_state(part = "process" /\ Run!ForceKill /\ UNCHANGED from9)
    /\ WF_state(part = "process" /\ Run!ErrorEvent /\ UNCHANGED from9)
    /\ WF_state(part = "process" /\ Run!Close /\ UNCHANGED from9)

EndingsSpec ==
    EndingsInit /\ [][EndingsNext]_<<part, state>> /\ ConversationFair /\ SessionFair /\ PageFair /\ ProcessFair

-----------------------------------------------------------------------------
\* A call to the conversation service is answered, or the process died under it; and
\* unless the process or the database failed, every attempt ends, so no conversation
\* stays blocked for new messages.
GenerationsEnd ==
    /\ \A h \in Handler : []<>~(part = "conversation" /\ v7[h] # Conv!Idle)
    /\ \A a \in Two : []<>~(part = "conversation" /\ v3[a].status = "PROCESSING" /\ v9 = 0)

\* A tab that checks its session comes to a decision (auth-context.tsx), and a request of
\* it is answered one way or the other: waiting for a refresh that another request started
\* never leaves it hanging (client.ts).
SessionSettles ==
    /\ \A x \in One : []<>~(part = "session" /\ Tabs!Undecided(x))
    /\ \A x \in One, s \in Place : []<>~(part = "session" /\ Tabs!Unanswered(x, s))

\* On the conversation page no operation stays pending, no loading skeleton stays, and an
\* answer shown as being generated is seen to have ended (AiConversationPage.tsx).
PageSettles ==
    /\ []<>~(part = "page" /\ View!OperationPending)
    /\ []<>~(part = "page" /\ View!Loading)
    /\ []<>~(part = "page" /\ View!ShownProcessing)

\* Every tool run ends, after a timeout at the latest, unless a process the child left
\* behind keeps the pipes open, and ends once: no later event or timer changes what it
\* resolved to.  The child itself ends once the time is up.
ToolRunEnds ==
    /\ [][part = "process" => Run!OutcomeStands]_<<part, state>>
    /\ []<>~(part = "process" /\ Run!Unresolved)
    /\ []<>~(part = "process" /\ Run!Overdue)

\* What a tool run reports of its child is what became of it, whichever event or timer came
\* first, and its output is all there unless marked truncated (opencode-process.ts).
ToolRunTruthful ==
    part = "process" => Run!TypeOK /\ Run!OutcomeTruthful /\ Run!CaptureBounded
=============================================================================
