------------------------------ MODULE Sessions ------------------------------
(***************************************************************************)
(* Sessions of one user: the refresh tokens of the server (server.ts,      *)
(* auth/login.ts) and the browser tabs that share them through local       *)
(* storage (client.ts, auth-context.tsx).                                  *)
(*                                                                         *)
(* Each statement of a server handler is a step.  A tab runs between two   *)
(* awaits without interruption.  An access token is a signed claim that    *)
(* nobody stores: all that matters of it is whether it has run out.        *)
(***************************************************************************)
EXTENDS Naturals, FiniteSets

CONSTANTS
    Tab,        \* browser tabs of the user, one local storage
    Slot,       \* requests a tab may have under way
    Handler,    \* calls of the auth endpoints under way
    Token,      \* ids of refresh_tokens
    None,       \* null
    MaxFaults   \* bound on lost replies, failed statements, reloads and expiries

FaultBound == MaxFaults \in Nat

VARIABLES
    tok,        \* refresh_tokens
    call,       \* the handlers
    storage,    \* local storage
    status,     \* per tab: AuthStatus, "checking" in its three awaits
    req,        \* per tab: requests and what became of them
    faults,     \* faults so far
    contended,  \* history: families with two calls under way that no promise keeps apart
    lost        \* history: families with a call whose reply was lost

server  == <<tok, call>>
history == <<contended, lost>>
vars    == <<server, storage, status, req, faults, history>>

\* A row of refresh_tokens; a family is named by the token its login inserted.
TokenRow == [family : Token \cup {None}, revoked : BOOLEAN, expired : BOOLEAN,
             next : Token \cup {None}]
NoToken  == [family |-> None, revoked |-> FALSE, expired |-> FALSE, next |-> None]
RootRow(t) == [family |-> t, revoked |-> FALSE, expired |-> FALSE, next |-> None]

Purpose == {"share", "recover", "login", "logout"}
NoneIsNoId == None \notin Token \cup Tab \cup Purpose
Stage   == {"idle", "lookup", "reuse", "revoke", "insert", "link", "refused", "done"}
Call    == [op : Purpose \cup {None}, stage : Stage, tab : Tab \cup {None},
            token : Token \cup {None}, new : Token \cup {None}]
Idle    == [op |-> None, stage |-> "idle", tab |-> None, token |-> None, new |-> None]

Checking == {"validating", "recovering", "revalidating"}
Signed   == "authenticated"
Out      == "unauthenticated"
Cleared  == [access |-> None, refresh |-> None]
Storage  == [access : {"fresh", "stale", None}, refresh : Token \cup {None}]
AuthStatus == Checking \cup {Signed, Out}
Answer   == {"idle", "fresh", "stale", "waiting", "resent", "refused"}

TypeOK ==
    /\ tok \in [Token -> TokenRow]
    /\ call \in [Handler -> Call]
    /\ storage \in Storage
    /\ status \in [Tab -> AuthStatus]
    /\ req \in [Tab -> [Slot -> Answer]]
    /\ faults \in 0..MaxFaults
    /\ contended \subseteq Token /\ lost \subseteq Token

Init ==
    /\ tok = [t \in Token |-> NoToken]
    /\ call = [h \in Handler |-> Idle]
    /\ storage = Cleared
    /\ status = [x \in Tab |-> Out]
    /\ req = [x \in Tab |-> [s \in Slot |-> "idle"]]
    /\ faults = 0 /\ contended = {} /\ lost = {}

Unissued == {t \in Token : tok[t] = NoToken}
Live(f)  == {t \in Token : tok[t].family = f /\ ~tok[t].revoked /\ ~tok[t].expired}
FamilyOf(t) == IF t = None THEN None ELSE tok[t].family
Under(f) == {h \in Handler : call[h].token # None /\ FamilyOf(call[h].token) = f}

\* A refresh of the family is past its checks and has not inserted the successor.
Rotating(f) == \E h \in Under(f) : call[h].stage \in {"revoke", "insert"}

Dead(f) == Live(f) = {} /\ ~Rotating(f)

Of(x, op) == {h \in Handler : call[h].tab = x /\ call[h].op = op}

-----------------------------------------------------------------------------
(* The server.  A call begins when a tab sends it. *)

\* Two refreshes of a tab for its requests: the promise they share keeps them apart.
SharedBy(x, op, g) == op = "share" /\ call[g].op = "share" /\ call[g].tab = x

Begin(h, op, x, t) ==
    /\ call[h] = Idle
    /\ call' = [call EXCEPT ![h] =
         [op |-> op, stage |-> IF op = "login" THEN "insert" ELSE "lookup",
          tab |-> x, token |-> t, new |-> None]]
    /\ contended' = IF t # None /\ \E g \in Under(FamilyOf(t)) : ~SharedBy(x, op, g)
                    THEN contended \cup {FamilyOf(t)} ELSE contended
    /\ UNCHANGED <<tok, faults, lost>>

Refreshing(h) == call[h].op \in {"share", "recover"}
Goto(h, stage) == call' = [call EXCEPT ![h].stage = stage]
Rest == <<storage, status, req, faults, history>>

LookupReplaced(h) ==    \* mutant: reuse is only seen of a token that has a successor
    LET row == tok[call[h].token] IN
    /\ Refreshing(h) /\ call[h].stage = "lookup"
    /\ Goto(h, IF row.next # None THEN "reuse" ELSE IF row.expired THEN "refused" ELSE "revoke")
    /\ UNCHANGED <<tok, Rest>>

Lookup(h) ==
    LET row == tok[call[h].token] IN
    /\ Refreshing(h) /\ call[h].stage = "lookup"
    /\ Goto(h, IF row.revoked THEN "reuse" ELSE IF row.expired THEN "refused" ELSE "revoke")
    /\ UNCHANGED <<tok, Rest>>

\* A token presented again ends its family.
Reuse(h) ==
    /\ call[h].stage = "reuse"
    /\ tok' = [t \in Token |-> IF tok[t].family = FamilyOf(call[h].token)
                               THEN [tok[t] EXCEPT !.revoked = TRUE] ELSE tok[t]]
    /\ Goto(h, "refused")
    /\ UNCHANGED Rest

\* Mutant: the old token is left as it is until the successor is linked.
RevokeNothing(h) ==
    /\ call[h].stage = "revoke"
    /\ Goto(h, "insert")
    /\ UNCHANGED <<tok, Rest>>

\* Whether the UPDATE revoked anything is not looked at.
Revoke(h) ==
    /\ call[h].stage = "revoke"
    /\ tok' = [tok EXCEPT ![call[h].token].revoked = TRUE]
    /\ Goto(h, "insert")
    /\ UNCHANGED Rest

\* The successor of a refresh, or the first token of a login's new family.
Insert(h) ==
    /\ call[h].stage = "insert"
    /\ \E n \in Unissued :
         /\ tok' = [tok EXCEPT ![n] = IF Refreshing(h)
                      THEN [RootRow(n) EXCEPT !.family = FamilyOf(call[h].token)] ELSE RootRow(n)]
         /\ call' = [call EXCEPT ![h].new = n, ![h].stage = IF Refreshing(h) THEN "link" ELSE "done"]
    /\ UNCHANGED Rest

\* The bound on tokens is met as a failed INSERT.
InsertFails(h) ==
    /\ call[h].stage = "insert" /\ Unissued = {}
    /\ Goto(h, "refused")
    /\ lost' = lost \cup ({FamilyOf(call[h].token)} \ {None})
    /\ UNCHANGED <<tok, storage, status, req, faults, contended>>

LinkBack(h) ==          \* mutant: the two ids swapped
    /\ call[h].stage = "link"
    /\ tok' = [tok EXCEPT ![call[h].new].next = call[h].token]
    /\ Goto(h, "done")
    /\ UNCHANGED Rest

Link(h) ==
    /\ call[h].stage = "link"
    /\ tok' = [tok EXCEPT ![call[h].token].next = call[h].new]
    /\ Goto(h, "done")
    /\ UNCHANGED Rest

\* Mutant: logging out is left to the browser.
LogoutNothing(h) ==
    /\ call[h].op = "logout" /\ call[h].stage = "lookup"
    /\ Goto(h, "done")
    /\ UNCHANGED <<tok, Rest>>

Logout(h) ==
    /\ call[h].op = "logout" /\ call[h].stage = "lookup"
    /\ tok' = IF call[h].token = None THEN tok ELSE [tok EXCEPT ![call[h].token].revoked = TRUE]
    /\ Goto(h, "done")
    /\ UNCHANGED Rest

\* An answer nobody waits for.
Unheard(h) ==
    /\ call[h].stage \in {"done", "refused"} /\ call[h].tab = None
    /\ call' = [call EXCEPT ![h] = Idle]
    /\ UNCHANGED <<tok, Rest>>

Serve(h) == Lookup(h) \/ Reuse(h) \/ Revoke(h) \/ Insert(h) \/ InsertFails(h)
            \/ Link(h) \/ Logout(h) \/ Unheard(h)

-----------------------------------------------------------------------------
(* The browser *)

Enter(x, st) == status' = [status EXCEPT ![x] = st]

GiveUpQuietly(x) ==    \* mutant: those who wait for the shared refresh are not told
    storage' = Cleared /\ Enter(x, Out) /\ UNCHANGED req

\* refreshAccessToken resolved with null: clearSession and the unauthorized event.
GiveUp(x) ==
    /\ storage' = Cleared
    /\ Enter(x, Out)
    /\ req' = [req EXCEPT ![x] = [s \in Slot |-> IF req[x][s] = "waiting" THEN "idle" ELSE req[x][s]]]

SignIn(x) == \E h \in Handler :
    /\ status[x] = Out /\ Of(x, "login") = {} /\ Unissued # {}
    /\ Begin(h, "login", x, None)
    /\ UNCHANGED <<storage, status, req>>

\* The button is there while the tab is signed in; the request carries the
\* refresh token of that moment, or none.
SignOut(x) == \E h \in Handler :
    /\ status[x] = Signed /\ Of(x, "logout") = {}
    /\ Begin(h, "logout", x, storage.refresh)
    /\ UNCHANGED <<storage, status, req>>

\* A request with an access token.  Without one the tab gets its 401 and stays.
Request(x, s) ==
    /\ status[x] = Signed /\ req[x][s] = "idle" /\ storage.access # None
    /\ req' = [req EXCEPT ![x][s] = storage.access]
    /\ UNCHANGED <<server, storage, status, faults, history>>

\* Answered, or failed for another reason than the token.
Answered(x, s) ==
    /\ req[x][s] \in {"fresh", "resent"}
    /\ req' = [req EXCEPT ![x][s] = "idle"]
    /\ UNCHANGED <<server, storage, status, faults, history>>

Share(x, s) ==
    /\ req' = [req EXCEPT ![x][s] = "waiting"]
    /\ \E h \in Handler : Begin(h, "share", x, storage.refresh)
    /\ UNCHANGED <<storage, status>>

\* The session of the tab is over, this request with it.
EndWith(x, s) ==
    /\ storage' = Cleared /\ Enter(x, Out)
    /\ req' = [req EXCEPT ![x][s] = "idle"]
    /\ UNCHANGED <<server, faults, history>>

\* Mutant: a 401 ends the session.
RefusedAtOnce(x, s) ==
    /\ req[x][s] = "stale" /\ EndWith(x, s)

\* A 401: join the refresh of this tab, or start it with the token stored now.
Refused(x, s) ==
    /\ req[x][s] = "stale"
    /\ \/ /\ Of(x, "share") # {}
          /\ req' = [req EXCEPT ![x][s] = "waiting"]
          /\ UNCHANGED <<server, storage, status, faults, history>>
       \/ Of(x, "share") = {} /\ storage.refresh = None /\ EndWith(x, s)
       \/ Of(x, "share") = {} /\ storage.refresh # None /\ Share(x, s)

\* A 401 of the retry: the new access token has run out already.
RefusedAgain(x, s) ==
    /\ req[x][s] = "refused"
    /\ EndWith(x, s)

ValidatedOnce(x) ==    \* mutant: the answer after a recovery is not looked at
    /\ status[x] = "validating" /\ storage.access = "fresh"
    /\ Enter(x, Signed)
    /\ UNCHANGED <<server, storage, req, faults, history>>

\* bootstrap: GET /api/auth/me with the stored access token.
Validated(x) ==
    /\ status[x] \in {"validating", "revalidating"} /\ storage.access = "fresh"
    /\ Enter(x, Signed)
    /\ UNCHANGED <<server, storage, req, faults, history>>

\* The first 401 starts the one recovery; the second, or no token, ends the session.
Invalid(x) ==
    /\ status[x] \in {"validating", "revalidating"} /\ storage.access # "fresh"
    /\ IF status[x] = "validating" /\ storage.refresh # None
       THEN /\ \E h \in Handler : Begin(h, "recover", x, storage.refresh)
            /\ Enter(x, "recovering")
            /\ UNCHANGED <<storage, req>>
       ELSE /\ storage' = Cleared /\ Enter(x, Out)
            /\ UNCHANGED <<server, req, faults, history>>

\* What a tab does with the end of its call: n is the new token, None a failure.
Continue(x, op, n) ==
    CASE op = "login" ->
           /\ storage' = IF n = None THEN storage ELSE [access |-> "fresh", refresh |-> n]
           /\ Enter(x, IF n = None THEN status[x] ELSE Signed)
           /\ UNCHANGED req
      [] op = "logout" -> storage' = Cleared /\ Enter(x, Out) /\ UNCHANGED req
      [] op = "recover" ->
           /\ storage' = IF n = None THEN Cleared ELSE [access |-> "fresh", refresh |-> n]
           /\ Enter(x, IF n = None THEN Out ELSE "revalidating")
           /\ UNCHANGED req
      [] op = "share" ->
           IF n = None THEN GiveUp(x)
           ELSE /\ storage' = [access |-> "fresh", refresh |-> n]
                /\ req' = [req EXCEPT ![x] = [s \in Slot |-> IF req[x][s] = "waiting"
                                                              THEN "resent" ELSE req[x][s]]]
                /\ UNCHANGED status

\* Mutant: a tab keeps the tokens it had when its refresh has replaced them.
ReturnOld(h) ==
    /\ call[h].stage \in {"done", "refused"} /\ call[h].tab # None
    /\ Continue(call[h].tab, call[h].op, IF call[h].op = "share" THEN call[h].token ELSE call[h].new)
    /\ call' = [call EXCEPT ![h] = Idle]
    /\ UNCHANGED <<tok, faults, history>>

Return(h) ==
    /\ call[h].stage \in {"done", "refused"} /\ call[h].tab # None
    /\ Continue(call[h].tab, call[h].op, call[h].new)
    /\ call' = [call EXCEPT ![h] = Idle]
    /\ UNCHANGED <<tok, faults, history>>

Browse(x) == SignIn(x) \/ SignOut(x) \/ \E s \in Slot : Request(x, s)

Respond(x, s) == Answered(x, s) \/ Refused(x, s) \/ RefusedAgain(x, s)
Check(x) == Validated(x) \/ Invalid(x)

-----------------------------------------------------------------------------
(* Faults and time *)

\* The check of the session fails for another reason: the tab goes on with what it has.
Unreachable(x) ==
    /\ faults < MaxFaults /\ faults' = faults + 1
    /\ status[x] \in {"validating", "revalidating"}
    /\ Enter(x, Signed)
    /\ UNCHANGED <<server, storage, req, history>>

\* The families a call has to do with.
Touched(h) == {FamilyOf(call[h].token), FamilyOf(call[h].new)} \ {None}

\* The tab learns of no result; the handler stops at a failed statement or goes on.
Lose(h) ==
    /\ call[h].tab # None
    /\ faults < MaxFaults /\ faults' = faults + 1
    /\ \E goesOn \in BOOLEAN : call' = [call EXCEPT ![h] =
         IF goesOn THEN [call[h] EXCEPT !.tab = None] ELSE Idle]
    /\ Continue(call[h].tab, call[h].op, None)
    /\ lost' = lost \cup Touched(h)
    /\ UNCHANGED <<tok, contended>>

\* A tab is loaded again; its calls go on without it.
Reload(x) ==
    LET mine == {h \in Handler : call[h].tab = x} IN
    /\ faults < MaxFaults /\ faults' = faults + 1
    /\ call' = [h \in Handler |-> IF h \in mine THEN [call[h] EXCEPT !.tab = None] ELSE call[h]]
    /\ lost' = lost \cup UNION {Touched(h) : h \in mine}
    /\ req' = [req EXCEPT ![x] = [s \in Slot |-> "idle"]]
    /\ Enter(x, IF storage.access = None THEN Out ELSE "validating")
    /\ UNCHANGED <<tok, storage, contended>>

\* The access token in use runs out, under way as well: one is asked for only when
\* the one before has run out.
AccessRunsOut ==
    /\ storage.access = "fresh"
    /\ storage' = [storage EXCEPT !.access = "stale"]
    /\ req' = [x \in Tab |-> [s \in Slot |->
         CASE req[x][s] = "fresh"  -> "stale"
           [] req[x][s] = "resent" -> "refused"
           [] OTHER -> req[x][s]]]
    /\ UNCHANGED <<server, status, faults, history>>

Expire(t) ==
    /\ faults < MaxFaults /\ faults' = faults + 1
    /\ tok[t] # NoToken /\ ~tok[t].expired
    /\ tok' = [tok EXCEPT ![t].expired = TRUE]
    /\ UNCHANGED <<call, storage, status, req, history>>

Next ==
    \/ \E h \in Handler : Serve(h) \/ Return(h) \/ Lose(h)
    \/ \E x \in Tab : Browse(x) \/ Check(x) \/ Reload(x) \/ Unreachable(x)
    \/ \E x \in Tab, s \in Slot : Respond(x, s)
    \/ AccessRunsOut
    \/ \E t \in Token : Expire(t)

Spec == Init /\ [][Next]_vars

-----------------------------------------------------------------------------
(* Properties *)

\* A family has two live tokens only if two calls of it overlapped: rotation in
\* three statements gives no other way (server.ts, refresh).
OneLivePerFamily ==
    \A f \in Token \ contended : Cardinality(Live(f)) <= 1

\* A family without a live token stays without one, unless a refresh was past its
\* checks: neither reuse detection nor logging out can be undone later.
FamilyDies == \A f \in Token : tok[f].family = f /\ Dead(f) => Dead(f)'

\* A family named by replaced_by_token_id only leads forward inside the family, from
\* a token that is revoked to one that no other token was replaced by.
Succession ==
    \A t \in Token : tok[t].next # None =>
        /\ tok[t].revoked
        /\ FamilyOf(tok[t].next) = tok[t].family /\ tok[t].next # tok[t].family
        /\ \A u \in Token : tok[u].next = tok[t].next => u = t

\* What a browser keeps is good: the stored refresh token is the live one of its
\* family, or has expired, while no call of the family is under way, overlapped
\* another or lost its reply.
StoredIsLive ==
    LET f == FamilyOf(storage.refresh) IN
    storage.refresh # None /\ Under(f) = {} /\ f \notin contended \cup lost
    => Live(f) = {storage.refresh} \/ tok[storage.refresh].expired

\* Signing out ends the family for good unless a refresh overlapped it or the tab
\* had not heard of the last one (server.ts, logout, revokes one token by its hash).
SignOutEndsFamily ==
    \A h \in Handler :
      call[h].op = "logout" /\ call[h].stage = "lookup" /\ call'[h].stage = "done"
      => LET f == FamilyOf(call[h].token) IN
         f = None \/ f \in contended \cup lost \/ Live(f)' = {}

\* A refresh of x that the server had to refuse: expired, or overlapped, or made
\* with a token whose replacement the browser never heard of.
Hopeless(h) ==
    tok[call[h].token].expired \/ FamilyOf(call[h].token) \in contended \cup lost

\* A tab is signed out by its user, or because the session is over: the stored
\* tokens are gone, the token it refreshed with was hopeless, the new access token
\* has run out already, or its reply is lost now.  A request that is merely refused never
\* does it (client.ts, request).
SignedInStays ==
    \A x \in Tab : status[x] = Signed /\ status'[x] = Out =>
      \/ Of(x, "logout") # {} \/ storage.refresh = None
      \/ \E h \in Of(x, "share") : Hopeless(h)
      \/ \E s \in Slot : req[x][s] = "refused"
      \/ faults' > faults

\* What must not last under the fairness of MCEndings: a tab checking its session, a
\* request that is not answered.
Undecided(x) == status[x] \in Checking
Unanswered(x, s) == req[x][s] # "idle"
=============================================================================
