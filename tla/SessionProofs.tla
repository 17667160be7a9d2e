--------------------------- MODULE SessionProofs ----------------------------
(***************************************************************************)
(* For any number of tabs, calls and tokens, whatever fails or overlaps.   *)
(*                                                                         *)
(*   Kept     every token a call or the browser holds has a row, and a     *)
(*            family is named by a token whose row says so; what a refresh *)
(*            is about to link is its own.  From it: a token is replaced   *)
(*            by one of its family, and a family that died stays dead.     *)
(*   Rotated  where the live token of a family is: with the one call under *)
(*            way, with a login that has not returned, or in the browser,  *)
(*            unless calls overlapped or a reply was lost.  From it: one   *)
(*            live token, the stored one works, signing out ends it all.   *)
(*   Browsed  a tab that checks its session has no other call.  From it: a *)
(*            tab is signed out only when its session is over.             *)
(***************************************************************************)
EXTENDS Sessions, FiniteSetTheorems, TLAPS

Issued(t) == t \in Token /\ tok[t].family # None
Held(t)   == t = None \/ Issued(t)

Rows == tok \in [Token -> TokenRow] /\ call \in [Handler -> Call] /\ storage \in Storage

Founded ==
    \A t \in Token :
        /\ tok[t].family = None => tok[t] = NoToken
        /\ tok[t].family # None => tok[tok[t].family].family = tok[t].family
        /\ Held(tok[t].next)

\* What a call holds at each stage.
Staged(h) ==
    /\ Held(call[h].token) /\ Held(call[h].new)
    /\ call[h].tab # None => call[h].op # None
    /\ Refreshing(h) => call[h].token # None
    /\ call[h].stage \in {"reuse", "revoke", "link"} => Refreshing(h)
    /\ call[h].stage = "insert" /\ Refreshing(h) => tok[call[h].token].revoked

Linking(h) ==
    call[h].stage = "link" =>
        /\ call[h].new # None /\ tok[call[h].token].revoked
        /\ FamilyOf(call[h].new) = FamilyOf(call[h].token)
        /\ call[h].new # FamilyOf(call[h].new)
        /\ \A u \in Token : tok[u].next # call[h].new
        /\ \A g \in Handler : g # h /\ call[g].stage = "link" => call[g].new # call[h].new

Kept ==
    /\ Rows /\ Founded /\ Held(storage.refresh)
    /\ \A h \in Handler : Staged(h) /\ Linking(h)
    /\ Succession

-----------------------------------------------------------------------------
(* The steps, by what they do to the tokens and the calls. *)

Beginning ==
    \E h \in Handler, op \in Purpose, x \in Tab, t \in {None, storage.refresh} :
        /\ op \in {"share", "recover"} => t # None
        /\ op = "login" => t = None
        /\ call[h] = Idle
        /\ call' = [call EXCEPT ![h] =
              [op |-> op, stage |-> IF op = "login" THEN "insert" ELSE "lookup",
               tab |-> x, token |-> t, new |-> None]]
        /\ UNCHANGED <<tok, storage>>

\* Calls end or lose their tab, and the browser keeps what it has, nothing or a call's token.
Ending ==
    /\ tok' = tok /\ call' \in [Handler -> Call] /\ storage' \in Storage
    /\ storage'.refresh \in {None, storage.refresh} \cup {call[h].new : h \in Handler}
    /\ \A h \in Handler :
          \/ call'[h] = Idle
          \/ /\ call'[h].op = call[h].op /\ call'[h].stage = call[h].stage
             /\ call'[h].tab \in {call[h].tab, None}
             /\ call'[h].token = call[h].token /\ call'[h].new = call[h].new

Serving == UNCHANGED storage /\ \E h \in Handler : Serve(h)

Expiring == UNCHANGED <<call, storage>> /\ \E t \in Token : Expire(t)

LEMMA BeginKind ==
    ASSUME NEW h \in Handler, NEW op \in Purpose, NEW x \in Tab, NEW t \in {None, storage.refresh},
           op \in {"share", "recover"} => t # None, op = "login" => t = None,
           Begin(h, op, x, t), UNCHANGED storage
    PROVE  Beginning
BY DEF Begin, Beginning

LEMMA ContinueKind ==
    ASSUME Rows, NEW x, NEW op \in Purpose \cup {None}, NEW n \in Token \cup {None}, Continue(x, op, n)
    PROVE  op # None => storage' \in Storage /\ storage'.refresh \in {None, storage.refresh, n}
<1> USE DEF Rows, Storage, Cleared
<1>1. CASE op = "login"
    BY <1>1 DEF Continue
<1>2. CASE op = "logout"
    BY <1>2 DEF Continue
<1>3. CASE op = "recover"
    BY <1>3 DEF Continue
<1>4. CASE op = "share"
    BY <1>4 DEF Continue, GiveUp
<1> QED
    BY <1>1, <1>2, <1>3, <1>4 DEF Purpose

LEMMA EndKind ==
    ASSUME Rows, \A h \in Handler : Staged(h), NEW h \in Handler, call[h].tab # None,
           NEW n \in {call[h].new, None}, Continue(call[h].tab, call[h].op, n), tok' = tok,
           \/ call' = [call EXCEPT ![h] = Idle]
           \/ call' = [call EXCEPT ![h] = [call[h] EXCEPT !.tab = None]]
    PROVE  Ending
<1>1. call[h] \in Call /\ n \in Token \cup {None} /\ call[h].op # None
    BY DEF Rows, Call, Staged
<1>2. storage' \in Storage /\ storage'.refresh \in {None, storage.refresh, n}
    BY <1>1, ContinueKind DEF Call
<1>3. Idle \in Call /\ [call[h] EXCEPT !.tab = None] \in Call
    BY <1>1 DEF Idle, Call, Stage
<1>4. call' \in [Handler -> Call]
    BY <1>3 DEF Rows
<1>5. \A g \in Handler :
        \/ call'[g] = Idle
        \/ /\ call'[g].op = call[g].op /\ call'[g].stage = call[g].stage
           /\ call'[g].tab \in {call[g].tab, None}
           /\ call'[g].token = call[g].token /\ call'[g].new = call[g].new
    BY <1>1 DEF Rows, Call
<1> QED
    BY <1>2, <1>4, <1>5 DEF Ending

LEMMA RestKind ==
    ASSUME Rows, UNCHANGED <<tok, call>>, storage' \in Storage,
           storage'.refresh \in {None, storage.refresh}
    PROVE  Ending
BY DEF Rows, Ending

LEMMA ReloadKind ==
    ASSUME Rows, NEW x \in Tab, Reload(x)
    PROVE  Ending
<1>1. storage' = storage /\ tok' = tok
    BY DEF Reload
<1>2. \A h \in Handler : call'[h] \in {call[h], [call[h] EXCEPT !.tab = None]}
    BY DEF Reload
<1>3. \A h \in Handler : call[h] \in Call /\ [call[h] EXCEPT !.tab = None] \in Call
    BY DEF Rows, Call
<1>4. call' \in [Handler -> Call]
    BY <1>2, <1>3 DEF Reload
<1>5. \A g \in Handler :
           /\ call'[g].op = call[g].op /\ call'[g].stage = call[g].stage
           /\ call'[g].tab \in {call[g].tab, None}
           /\ call'[g].token = call[g].token /\ call'[g].new = call[g].new
    BY <1>2, <1>3 DEF Call
<1> QED
    BY <1>1, <1>4, <1>5 DEF Ending, Rows

LEMMA StepKind ==
    ASSUME Kept, Next
    PROVE  Beginning \/ Ending \/ Serving \/ Expiring
<1>0. Rows /\ \A h \in Handler : Staged(h)
    BY DEF Kept
<1>1. CASE \E h \in Handler : Serve(h)
    BY <1>1 DEF Serving, Serve, Lookup, Reuse, Revoke, Insert, InsertFails, Link, Logout, Unheard, Rest
<1>2. CASE \E h \in Handler : Return(h)
    <2>1. PICK h \in Handler : Return(h)
        BY <1>2
    <2> QED
        BY <1>0, <2>1, EndKind DEF Return
<1>3. CASE \E h \in Handler : Lose(h)
    <2>1. PICK h \in Handler : Lose(h)
        BY <1>3
    <2>2. PICK goesOn \in BOOLEAN : call' = [call EXCEPT ![h] =
             IF goesOn THEN [call[h] EXCEPT !.tab = None] ELSE Idle]
        BY <2>1 DEF Lose
    <2> QED
        BY <1>0, <2>1, <2>2, EndKind DEF Lose
<1>4. CASE \E x \in Tab : Browse(x)
    <2>1. PICK x \in Tab : Browse(x)
        BY <1>4
    <2>2. CASE SignIn(x)
        BY <2>2, BeginKind DEF SignIn, Purpose
    <2>3. CASE SignOut(x)
        BY <2>3, BeginKind DEF SignOut, Purpose
    <2>4. CASE \E s \in Slot : Request(x, s)
        BY <1>0, <2>4, RestKind DEF Request, Rows, server
    <2> QED
        BY <2>1, <2>2, <2>3, <2>4 DEF Browse
<1>5. CASE \E x \in Tab : Check(x)
    <2>1. PICK x \in Tab : Check(x)
        BY <1>5
    <2>2. CASE Validated(x)
        BY <1>0, <2>2, RestKind DEF Validated, Rows, server
    <2>3. CASE Invalid(x)
        <3>1. CASE status[x] = "validating" /\ storage.refresh # None
            BY <2>3, <3>1, BeginKind DEF Invalid, Purpose
        <3>2. CASE ~(status[x] = "validating" /\ storage.refresh # None)
            BY <1>0, <2>3, <3>2, RestKind DEF Invalid, Rows, server, Cleared, Storage
        <3> QED
            BY <3>1, <3>2
    <2> QED
        BY <2>1, <2>2, <2>3 DEF Check
<1>6. CASE \E x \in Tab, s \in Slot : Respond(x, s)
    <2>1. PICK x \in Tab, s \in Slot : Respond(x, s)
        BY <1>6
    <2>2. ASSUME EndWith(x, s) PROVE Ending
        BY <1>0, <2>2, RestKind DEF EndWith, Rows, server, Cleared, Storage
    <2>3. ASSUME Share(x, s), storage.refresh # None PROVE Beginning
        BY <2>3, BeginKind DEF Share, Purpose
    <2>4. CASE Answered(x, s)
        BY <1>0, <2>4, RestKind DEF Answered, Rows, server
    <2>5. CASE Refused(x, s)
        BY <1>0, <2>5, <2>2, <2>3, RestKind DEF Refused, Rows, server
    <2>6. CASE RefusedAgain(x, s)
        BY <2>6, <2>2 DEF RefusedAgain
    <2> QED
        BY <2>1, <2>4, <2>5, <2>6 DEF Respond
<1>7. CASE \E x \in Tab : Reload(x) \/ Unreachable(x)
    <2>1. PICK x \in Tab : Reload(x) \/ Unreachable(x)
        BY <1>7
    <2>2. CASE Unreachable(x)
        BY <1>0, <2>2, RestKind DEF Unreachable, Rows, server
    <2> QED
        BY <1>0, <2>1, <2>2, ReloadKind
<1>8. CASE AccessRunsOut
    BY <1>0, <1>8, RestKind DEF AccessRunsOut, Rows, server, Storage
<1>9. CASE \E t \in Token : Expire(t)
    BY <1>9 DEF Expire, Expiring
<1> QED
    BY <1>1, <1>2, <1>3, <1>4, <1>5, <1>6, <1>7, <1>8, <1>9 DEF Next

-----------------------------------------------------------------------------
(* The invariant. *)

LEMMA InitKept ==
    ASSUME NoneIsNoId, Init
    PROVE  Kept
<1> USE DEF NoneIsNoId
<1>1. Rows /\ Held(storage.refresh)
    BY DEF Init, Rows, TokenRow, NoToken, Call, Idle, Stage, Storage, Cleared, Held
<1>2. Founded
    BY DEF Init, Founded, NoToken, Held
<1>3. \A h \in Handler : Staged(h) /\ Linking(h)
    BY DEF Init, Staged, Linking, Idle, Held, Refreshing, Purpose
<1>4. Succession
    BY DEF Init, Succession, NoToken
<1> QED
    BY <1>1, <1>2, <1>3, <1>4 DEF Kept

\* A step that at most marks tokens as revoked or expired.
Marks ==
    /\ tok' \in [Token -> TokenRow]
    /\ \A t \in Token :
          /\ tok'[t].family = tok[t].family /\ tok'[t].next = tok[t].next
          /\ tok[t].revoked => tok'[t].revoked
          /\ tok[t].family = None => tok'[t] = tok[t]

LEMMA MarksKept ==
    ASSUME NoneIsNoId, Kept, Marks, call' \in [Handler -> Call], storage' \in Storage,
           Held(storage'.refresh), \A h \in Handler : Staged(h)',
           \A h \in Handler : call'[h].stage = "link" =>
              call[h].stage = "link" /\ call'[h].token = call[h].token /\ call'[h].new = call[h].new
    PROVE  Kept'
<1> USE DEF NoneIsNoId
<1>1. Rows'
    BY DEF Marks, Rows
<1>2. \A t : Held(t) <=> Held(t)'
    BY DEF Held, Issued, Marks
<1>3. \A t \in Token \cup {None} : FamilyOf(t)' = FamilyOf(t)
    BY DEF FamilyOf, Marks
<1>4. Founded'
    <2> SUFFICES ASSUME NEW t \in Token
                 PROVE  /\ tok'[t].family = None => tok'[t] = NoToken
                        /\ tok'[t].family # None => tok'[tok'[t].family].family = tok'[t].family
                        /\ Held(tok[t].next)'
        BY DEF Founded, Held, Issued
    <2>1. tok'[t].family = tok[t].family /\ tok'[t].next = tok[t].next
          /\ (tok[t].family = None => tok'[t] = tok[t])
        BY DEF Marks
    <2>2. tok[t].family \in Token \cup {None}
        BY DEF Kept, Rows, TokenRow
    <2> QED
        BY <1>2, <2>1, <2>2 DEF Kept, Founded, Marks
<1>5. ASSUME NEW h \in Handler, call'[h].stage = "link" PROVE Linking(h)'
    <2>1. /\ call[h].stage = "link" /\ call'[h].token = call[h].token /\ call'[h].new = call[h].new
          /\ Linking(h) /\ Staged(h)
        BY <1>5 DEF Kept
    <2>2. call[h].token \in Token /\ call[h].new \in Token
        BY <2>1 DEF Staged, Linking, Held, Issued
    <2>3. call'[h].new = call[h].new /\ tok'[call[h].token].revoked
          /\ FamilyOf(call[h].new)' = FamilyOf(call[h].new)
          /\ FamilyOf(call[h].token)' = FamilyOf(call[h].token)
        BY <2>1, <2>2 DEF FamilyOf, Marks, Linking
    <2>4. \A u \in Token : tok'[u].next # call[h].new
        BY <2>1 DEF Linking, Marks
    <2>5. \A g \in Handler : g # h /\ call'[g].stage = "link" => call'[g].new # call[h].new
        BY <2>1 DEF Linking
    <2> QED
        BY <2>1, <2>2, <2>3, <2>4, <2>5 DEF Linking
<1>6. Succession'
    <2> SUFFICES ASSUME NEW t \in Token, tok'[t].next # None
                 PROVE  /\ tok'[t].revoked
                        /\ FamilyOf(tok[t].next)' = tok'[t].family /\ tok'[t].next # tok'[t].family
                        /\ \A u \in Token : tok'[u].next = tok'[t].next => u = t
        BY DEF Succession, FamilyOf
    <2>1. tok'[t].next = tok[t].next /\ tok'[t].family = tok[t].family
        BY DEF Marks
    <2>2. tok[t].next \in Token
        BY <2>1 DEF Kept, Rows, TokenRow
    <2> QED
        BY <2>1, <2>2 DEF Kept, Succession, Marks, FamilyOf
<1> QED
    BY <1>1, <1>2, <1>4, <1>5, <1>6 DEF Kept, Linking

LEMMA StagedHeld ==
    ASSUME Kept, NEW h \in Handler
    PROVE  /\ Staged(h) /\ Linking(h) /\ call[h] \in Call
           /\ Refreshing(h) => call[h].token \in Token /\ tok[call[h].token].family # None
                              /\ tok[call[h].token].family \in Token
BY DEF Kept, Staged, Rows, Held, Issued, TokenRow

LEMMA BeginKept ==
    ASSUME NoneIsNoId, Kept, Beginning
    PROVE  Kept'
<1>1. PICK h \in Handler, op \in Purpose, x \in Tab, t \in {None, storage.refresh} :
        /\ op \in {"share", "recover"} => t # None
        /\ call[h] = Idle
        /\ call' = [call EXCEPT ![h] =
              [op |-> op, stage |-> IF op = "login" THEN "insert" ELSE "lookup",
               tab |-> x, token |-> t, new |-> None]]
        /\ UNCHANGED <<tok, storage>>
    BY DEF Beginning
<1>2. Held(t) /\ t \in Token \cup {None} /\ Held(storage'.refresh) /\ storage' \in Storage
    BY <1>1 DEF Kept, Rows, Held, Issued
<1>3. Marks
    BY <1>1 DEF Marks, Kept, Rows
<1> DEFINE c == [op |-> op, stage |-> IF op = "login" THEN "insert" ELSE "lookup",
                 tab |-> x, token |-> t, new |-> None]
<1>4. c \in Call
    BY <1>2 DEF Call, Stage, Purpose
<1>5. call' \in [Handler -> Call] /\ call'[h] = c /\ \A g \in Handler \ {h} : call'[g] = call[g]
    BY <1>1, <1>4 DEF Kept, Rows
<1>6. /\ c.op = op /\ c.tab = x /\ c.token = t /\ c.new = None
      /\ c.stage \in {"insert", "lookup"} /\ (c.stage = "insert" => op = "login")
    OBVIOUS
<1> HIDE DEF c
<1>7. Staged(h)'
    BY <1>1, <1>2, <1>5, <1>6 DEF Staged, Refreshing, Held, Issued, Purpose, NoneIsNoId
<1>8. ASSUME NEW g \in Handler \ {h} PROVE Staged(g)'
    BY <1>1, <1>5, StagedHeld DEF Staged, Refreshing, Held, Issued
<1>9. \A g \in Handler : call'[g].stage = "link" =>
         call[g].stage = "link" /\ call'[g].token = call[g].token /\ call'[g].new = call[g].new
    BY <1>5, <1>6
<1> QED
    BY <1>2, <1>3, <1>5, <1>7, <1>8, <1>9, MarksKept

LEMMA EndKept ==
    ASSUME NoneIsNoId, Kept, Ending
    PROVE  Kept'
<1>1. Marks /\ call' \in [Handler -> Call] /\ storage' \in Storage
    BY DEF Ending, Marks, Kept, Rows
<1>2. Held(storage'.refresh)
    BY StagedHeld DEF Ending, Kept, Staged, Held
<1>3. ASSUME NEW h \in Handler PROVE Staged(h)'
    <2>1. CASE call'[h] = Idle
        BY <2>1 DEF Staged, Idle, Refreshing, Held, NoneIsNoId, Purpose
    <2>2. CASE call'[h] # Idle
        BY <2>2, StagedHeld DEF Ending, Staged, Refreshing, Held, Issued
    <2> QED
        BY <2>1, <2>2
<1>4. ASSUME NEW h \in Handler, call'[h].stage = "link"
      PROVE call[h].stage = "link" /\ call'[h].token = call[h].token /\ call'[h].new = call[h].new
    BY <1>4 DEF Ending, Idle
<1> QED
    BY <1>1, <1>2, <1>3, <1>4, MarksKept

\* The steps of the server, and an expiry, that mark tokens and move one call on.
LEMMA MoveKept ==
    ASSUME NoneIsNoId, Kept, Marks, storage' = storage, NEW h \in Handler,
           NEW stage \in Stage, call' = [call EXCEPT ![h].stage = stage],
           stage # "link", stage \in {"reuse", "revoke"} => Refreshing(h),
           stage = "insert" /\ Refreshing(h) => tok'[call[h].token].revoked
    PROVE  Kept'
<1>1. call[h] \in Call /\ [call[h] EXCEPT !.stage = stage] \in Call
    BY StagedHeld DEF Call
<1>2. /\ call' \in [Handler -> Call]
      /\ \A g \in Handler : /\ call'[g].op = call[g].op /\ call'[g].tab = call[g].tab
                            /\ call'[g].token = call[g].token /\ call'[g].new = call[g].new
                            /\ call'[g].stage = IF g = h THEN stage ELSE call[g].stage
    BY <1>1 DEF Kept, Rows, Call
<1>3. ASSUME NEW g \in Handler PROVE Staged(g)'
    <2>1. Staged(g) /\ call[g] \in Call
        BY StagedHeld
    <2>2. (Refreshing(g)' <=> Refreshing(g)) /\ Held(call[g].token)' /\ Held(call[g].new)'
        BY <1>2, <2>1 DEF Refreshing, Staged, Held, Issued, Marks
    <2>3. Refreshing(g) => call[g].token \in Token
        BY StagedHeld
    <2> QED
        BY <1>2, <2>1, <2>2, <2>3 DEF Staged, Held, Issued, Marks
<1>4. \A g \in Handler : call'[g].stage = "link" =>
         call[g].stage = "link" /\ call'[g].token = call[g].token /\ call'[g].new = call[g].new
    BY <1>2
<1> QED
    BY <1>2, <1>3, <1>4, MarksKept DEF Kept, Rows

LEMMA ExpireKept ==
    ASSUME NoneIsNoId, Kept, Expiring
    PROVE  Kept'
<1>1. PICK t \in Token : tok[t] # NoToken /\ tok' = [tok EXCEPT ![t].expired = TRUE]
    BY DEF Expiring, Expire
<1>2. Marks
    <2>1. \A u \in Token : tok[u] \in TokenRow /\ [tok[u] EXCEPT !.expired = TRUE] \in TokenRow
        BY DEF Kept, Rows, TokenRow
    <2>2. tok' = [tok EXCEPT ![t] = [tok[t] EXCEPT !.expired = TRUE]] /\ tok[t].family # None
        BY <1>1 DEF Kept, Founded
    <2>3. /\ tok' \in [Token -> TokenRow] /\ tok'[t] = [tok[t] EXCEPT !.expired = TRUE]
          /\ \A u \in Token \ {t} : tok'[u] = tok[u]
        BY <2>1, <2>2 DEF Kept, Rows
    <2> QED
        BY <2>1, <2>2, <2>3 DEF Marks, TokenRow
<1>3. UNCHANGED <<call, storage>>
    BY DEF Expiring
<1>4. ASSUME NEW g \in Handler PROVE Staged(g)'
    BY <1>2, <1>3, StagedHeld DEF Staged, Refreshing, Held, Issued, Marks
<1> QED
    BY <1>2, <1>3, <1>4, MarksKept DEF Kept, Rows

\* Revoking tokens that have a row is a marking.
LEMMA RevokeMarks ==
    ASSUME Kept, NEW S, \A t \in S : Issued(t),
           tok' = [t \in Token |-> IF t \in S THEN [tok[t] EXCEPT !.revoked = TRUE] ELSE tok[t]]
    PROVE  Marks
<1>1. \A t \in Token : tok[t] \in TokenRow /\ [tok[t] EXCEPT !.revoked = TRUE] \in TokenRow
    BY DEF Kept, Rows, TokenRow
<1> QED
    BY <1>1 DEF Marks, TokenRow, Issued

LEMMA RevokeOne ==
    ASSUME Kept, NEW c \in Token, tok' = [tok EXCEPT ![c].revoked = TRUE]
    PROVE  /\ tok' = [t \in Token |-> IF t \in {c} THEN [tok[t] EXCEPT !.revoked = TRUE] ELSE tok[t]]
           /\ tok'[c].revoked
<1>1. tok' = [tok EXCEPT ![c] = [tok[c] EXCEPT !.revoked = TRUE]]
    OBVIOUS
<1>2. tok[c] \in TokenRow /\ tok \in [Token -> TokenRow]
    BY DEF Kept, Rows
<1>3. [tok[c] EXCEPT !.revoked = TRUE].revoked
    BY <1>2 DEF TokenRow
<1> DEFINE row == [tok[c] EXCEPT !.revoked = TRUE]
<1>4. tok' = [tok EXCEPT ![c] = row] /\ row.revoked
    BY <1>1, <1>3
<1> HIDE DEF row
<1>5. tok' = [t \in Token |-> IF t \in {c} THEN row ELSE tok[t]]
    BY <1>2, <1>4
<1>6. tok'[c].revoked
    BY <1>4, <1>5
<1> QED
    BY <1>5, <1>6 DEF row

LEMMA RevokeOneMarks ==
    ASSUME Kept, NEW c \in Token, Issued(c), tok' = [tok EXCEPT ![c].revoked = TRUE]
    PROVE  Marks
<1> DEFINE S == {c}
<1>1. \A t \in S : Issued(t)
    OBVIOUS
<1>2. tok' = [t \in Token |-> IF t \in S THEN [tok[t] EXCEPT !.revoked = TRUE] ELSE tok[t]]
    BY RevokeOne
<1> HIDE DEF S
<1> QED
    BY <1>1, <1>2, RevokeMarks

LEMMA InsertKept ==
    ASSUME NoneIsNoId, Kept, NEW h \in Handler, Insert(h), UNCHANGED storage
    PROVE  Kept'
<1>1. PICK n \in Unissued :
         /\ tok' = [tok EXCEPT ![n] = IF Refreshing(h)
                      THEN [RootRow(n) EXCEPT !.family = FamilyOf(call[h].token)] ELSE RootRow(n)]
         /\ call' = [call EXCEPT ![h].new = n, ![h].stage = IF Refreshing(h) THEN "link" ELSE "done"]
    BY DEF Insert
<1> DEFINE family == IF Refreshing(h) THEN FamilyOf(call[h].token) ELSE n
<1>2. n \in Token /\ tok[n] = NoToken /\ n # None /\ ~Issued(n)
    BY DEF Unissued, Issued, NoToken, NoneIsNoId
<1>3. family \in Token /\ (Refreshing(h) => tok[family].family = family /\ family # n)
    BY <1>2, StagedHeld DEF FamilyOf, Kept, Founded, Issued, NoneIsNoId
<1>4. /\ tok' \in [Token -> TokenRow]
      /\ tok'[n] = [family |-> family, revoked |-> FALSE, expired |-> FALSE, next |-> None]
      /\ \A t \in Token \ {n} : tok'[t] = tok[t]
    BY <1>1, <1>2, <1>3 DEF Kept, Rows, TokenRow, RootRow
<1> HIDE DEF family
<1>5. /\ call' \in [Handler -> Call]
      /\ \A g \in Handler \ {h} : call'[g] = call[g]
      /\ call'[h].op = call[h].op /\ call'[h].tab = call[h].tab /\ call'[h].token = call[h].token
      /\ call'[h].new = n /\ call'[h].stage = IF Refreshing(h) THEN "link" ELSE "done"
    BY <1>1, <1>2 DEF Kept, Rows, Call, Stage
<1>6. \A t : Held(t) => Held(t)' /\ t # n
    BY <1>2, <1>4 DEF Held, Issued
<1>7. Held(n)'
    BY <1>2, <1>3, <1>4 DEF Held, Issued, NoneIsNoId
<1>8. Rows' /\ Held(storage.refresh)'
    BY <1>4, <1>5, <1>6 DEF Kept, Rows
<1>9. Founded'
    <2> SUFFICES ASSUME NEW t \in Token
                 PROVE  /\ tok'[t].family = None => tok'[t] = NoToken
                        /\ tok'[t].family # None => tok'[tok'[t].family].family = tok'[t].family
                        /\ tok'[t].next = None \/ (tok'[t].next \in Token /\ tok'[tok'[t].next].family # None)
        BY DEF Founded, Held, Issued
    <2>1. CASE t = n
        <3>1. tok'[t].family = family /\ tok'[t].next = None /\ family # None
            BY <1>3, <1>4, <2>1 DEF NoneIsNoId
        <3>2. tok'[family].family = family
            BY <1>3, <1>4 DEF family
        <3> QED
            BY <3>1, <3>2
    <2>2. CASE t # n
        <3>1. tok'[t] = tok[t] /\ Held(tok[t].next) /\ tok[t].family \in Token \cup {None}
            BY <1>4, <2>2 DEF Kept, Founded, Rows, TokenRow
        <3>2. tok[t].family # None => tok[tok[t].family].family = tok[t].family
            BY DEF Kept, Founded
        <3>3. tok[t].family # n
            BY <1>2, <3>1, <3>2 DEF NoToken
        <3> QED
            BY <1>2, <1>4, <1>6, <3>1, <3>2, <3>3 DEF Kept, Founded, Held, Issued
    <2> QED
        BY <2>1, <2>2
<1>10. ASSUME NEW g \in Handler PROVE Staged(g)'
    <2>1. Staged(g) /\ (Refreshing(g)' <=> Refreshing(g)) /\ call'[g].token = call[g].token
        BY <1>5, StagedHeld DEF Refreshing
    <2>2. Refreshing(g) => tok'[call[g].token] = tok[call[g].token]
        BY <1>2, <1>4, StagedHeld DEF NoToken
    <2> QED
        BY <1>5, <1>6, <1>7, <2>1, <2>2 DEF Staged
<1>11. ASSUME NEW g \in Handler, call'[g].stage = "link" PROVE Linking(g)'
    <2>1. \A u \in Token : tok'[u].next # n /\ (tok'[u].next = None \/ tok'[u].next = tok[u].next)
        BY <1>2, <1>4, <1>6 DEF Kept, Founded
    <2>2. \A f \in Handler : call[f].new # n
        BY <1>2, <1>6, StagedHeld DEF Staged
    <2>3. CASE g = h
        <3>1. /\ Refreshing(h) /\ call[h].stage = "insert" /\ tok[call[h].token].revoked
              /\ call[h].token \in Token /\ call[h].token # n
            BY <1>2, <1>5, <1>11, <2>3, StagedHeld DEF Insert, Staged, NoToken
        <3>2. /\ call'[g].new = n /\ tok'[call'[g].token].revoked
              /\ call'[g].token # None /\ tok'[call'[g].token].family = family /\ tok'[n].family = family
            BY <1>2, <1>4, <1>5, <2>3, <3>1 DEF family, FamilyOf, NoneIsNoId
        <3>3. \A f \in Handler : f # g => call'[f].new # n
            BY <1>5, <2>2, <2>3
        <3> QED
            BY <1>2, <1>3, <2>1, <3>1, <3>2, <3>3 DEF Linking, FamilyOf
    <2>4. CASE g # h
        <3>1. /\ call'[g] = call[g] /\ Linking(g) /\ call[g].stage = "link" /\ Refreshing(g)
              /\ call[g].new \in Token \ {n} /\ call[g].token \in Token \ {n}
            BY <1>2, <1>5, <1>11, <2>2, <2>4, StagedHeld DEF Linking, Staged, Held, Issued, NoToken
        <3>2. tok'[call[g].new] = tok[call[g].new] /\ tok'[call[g].token] = tok[call[g].token]
            BY <1>4, <3>1
        <3>3. \A u \in Token : tok'[u].next # call[g].new
            BY <2>1, <3>1 DEF Linking
        <3>4. \A f \in Handler : f # g /\ call'[f].stage = "link" => call'[f].new # call[g].new
            BY <1>5, <2>2, <3>1 DEF Linking
        <3> QED
            BY <3>1, <3>2, <3>3, <3>4 DEF Linking, FamilyOf
    <2> QED
        BY <2>3, <2>4
<1>12. Succession'
    <2> SUFFICES ASSUME NEW t \in Token, tok'[t].next # None
                 PROVE  /\ tok'[t].revoked
                        /\ tok'[tok'[t].next].family = tok'[t].family /\ tok'[t].next # tok'[t].family
                        /\ \A u \in Token : tok'[u].next = tok'[t].next => u = t
        BY DEF Succession, FamilyOf
    <2>1. t # n /\ tok'[t] = tok[t] /\ Issued(tok[t].next) /\ tok[t].next # n
        BY <1>4, <1>6 DEF Kept, Founded, Held
    <2>2. \A u \in Token : tok'[u].next = None \/ (u # n /\ tok'[u] = tok[u])
        BY <1>4
    <2>3. tok'[tok[t].next] = tok[tok[t].next]
        BY <1>4, <2>1 DEF Issued
    <2> QED
        BY <2>1, <2>2, <2>3 DEF Kept, Succession, FamilyOf, Issued
<1> QED
    BY <1>8, <1>9, <1>10, <1>11, <1>12 DEF Kept, Linking

LEMMA LinkKept ==
    ASSUME NoneIsNoId, Kept, NEW h \in Handler, Link(h), UNCHANGED storage
    PROVE  Kept'
<1> DEFINE old == call[h].token
           new == call[h].new
<1>1. /\ call[h].stage = "link" /\ tok' = [tok EXCEPT ![old].next = new]
      /\ call' = [call EXCEPT ![h].stage = "done"]
    BY DEF Link, Goto
<1>2. /\ Linking(h) /\ Staged(h) /\ old \in Token /\ new \in Token /\ Issued(new) /\ Issued(old)
    BY <1>1, StagedHeld DEF Linking, Staged, Held, Issued
<1>3. /\ tok[old].revoked /\ tok[new].family = tok[old].family /\ new # tok[new].family
      /\ \A u \in Token : tok[u].next # new
      /\ \A g \in Handler : g # h /\ call[g].stage = "link" => call[g].new # new
    BY <1>1, <1>2 DEF Linking, FamilyOf, NoneIsNoId
<1> HIDE DEF old, new
<1>4. /\ tok' \in [Token -> TokenRow]
      /\ \A t \in Token : /\ tok'[t].family = tok[t].family /\ tok'[t].revoked = tok[t].revoked
                          /\ tok'[t].next = IF t = old THEN new ELSE tok[t].next
                          /\ t # old => tok'[t] = tok[t]
    <2>1. tok[old] \in TokenRow /\ [tok[old] EXCEPT !.next = new] \in TokenRow
        BY <1>2 DEF Kept, Rows, TokenRow
    <2>2. tok' = [tok EXCEPT ![old] = [tok[old] EXCEPT !.next = new]]
        BY <1>1
    <2> QED
        BY <1>2, <2>1, <2>2 DEF Kept, Rows, TokenRow
<1>5. /\ call' \in [Handler -> Call]
      /\ \A g \in Handler : /\ call'[g].op = call[g].op /\ call'[g].tab = call[g].tab
                            /\ call'[g].token = call[g].token /\ call'[g].new = call[g].new
                            /\ call'[g].stage = IF g = h THEN "done" ELSE call[g].stage
    <2>1. call[h] \in Call /\ [call[h] EXCEPT !.stage = "done"] \in Call
        BY StagedHeld DEF Call, Stage
    <2>2. call' = [call EXCEPT ![h] = [call[h] EXCEPT !.stage = "done"]]
        BY <1>1
    <2> QED
        BY <2>1, <2>2 DEF Kept, Rows, Call
<1>6. \A t : Held(t)' <=> Held(t)
    BY <1>4 DEF Held, Issued
<1>7. Rows' /\ Held(storage.refresh)'
    BY <1>4, <1>5, <1>6 DEF Kept, Rows
<1>8. Founded'
    <2> SUFFICES ASSUME NEW t \in Token
                 PROVE  /\ tok'[t].family = None => tok'[t] = NoToken
                        /\ tok'[t].family # None => tok'[tok'[t].family].family = tok'[t].family
                        /\ tok'[t].next = None \/ Issued(tok'[t].next)
        BY <1>4 DEF Founded, Held, Issued
    <2>1. tok[t].family \in Token \cup {None} /\ Held(tok[t].next) /\ (tok[t].family = None => t # old)
        BY <1>2 DEF Kept, Founded, Rows, TokenRow, Issued
    <2>2. tok'[t].family # None => tok'[tok'[t].family].family = tok'[t].family
        BY <1>4, <2>1 DEF Kept, Founded
    <2>3. tok'[t].next = None \/ Issued(tok'[t].next)
        BY <1>2, <1>4, <2>1 DEF Held
    <2> QED
        BY <1>4, <2>1, <2>2, <2>3 DEF Kept, Founded
<1>9. ASSUME NEW g \in Handler PROVE Staged(g)'
    BY <1>4, <1>5, <1>6, StagedHeld DEF Staged, Refreshing
<1>10. ASSUME NEW g \in Handler, call'[g].stage = "link" PROVE Linking(g)'
    <2>1. g # h /\ Linking(g) /\ Staged(g) /\ call[g].stage = "link" /\ call[g].new # new
        BY <1>3, <1>5, <1>10, StagedHeld
    <2>2. call[g].token \in Token /\ call[g].new \in Token
        BY <2>1 DEF Staged, Linking, Held, Issued
    <2>3. \A u \in Token : tok'[u].next # call[g].new
        BY <1>4, <2>1 DEF Linking
    <2>4. \A f \in Handler : f # g /\ call'[f].stage = "link" => call'[f].new # call[g].new
        BY <1>5, <2>1 DEF Linking
    <2> QED
        BY <1>4, <1>5, <2>1, <2>2, <2>3, <2>4 DEF Linking, FamilyOf
<1>11. Succession'
    <2> SUFFICES ASSUME NEW t \in Token, tok'[t].next # None
                 PROVE  /\ tok'[t].revoked
                        /\ tok'[tok'[t].next].family = tok'[t].family /\ tok'[t].next # tok'[t].family
                        /\ \A u \in Token : tok'[u].next = tok'[t].next => u = t
        BY DEF Succession, FamilyOf
    <2>1. CASE t = old
        BY <1>2, <1>3, <1>4, <2>1
    <2>2. CASE t # old
        <3>1. tok'[t] = tok[t] /\ tok[t].next \in Token /\ tok[t].next # new
            BY <1>3, <1>4, <2>2 DEF Kept, Rows, TokenRow
        <3> QED
            BY <1>4, <3>1 DEF Kept, Succession, FamilyOf
    <2> QED
        BY <2>1, <2>2
<1> QED
    BY <1>7, <1>8, <1>9, <1>10, <1>11 DEF Kept, Linking

LEMMA ServeKept ==
    ASSUME NoneIsNoId, Kept, Serving
    PROVE  Kept'
<1>1. PICK h \in Handler : Serve(h) /\ UNCHANGED storage
    BY DEF Serving
<1>2. Staged(h) /\ call[h] \in Call
    BY StagedHeld
<1>3. ASSUME tok' = tok PROVE Marks
    BY <1>3 DEF Marks, Kept, Rows
<1>4. CASE Lookup(h)
    BY <1>1, <1>3, <1>4, MoveKept DEF Lookup, Goto, Stage
<1>5. CASE Reuse(h)
    <2> DEFINE S == {t \in Token : tok[t].family = FamilyOf(call[h].token)}
    <2>1. Refreshing(h) /\ call[h].token \in Token /\ tok[call[h].token].family # None
        BY <1>2, <1>5, StagedHeld DEF Reuse, Staged
    <2>2. \A t \in S : Issued(t)
        BY <2>1 DEF FamilyOf, Issued, NoneIsNoId
    <2>3. Marks
        BY <1>5, <2>2, RevokeMarks DEF Reuse
    <2> QED
        BY <1>1, <1>5, <2>3, MoveKept DEF Reuse, Goto, Stage
<1>6. CASE Revoke(h)
    <2>1. Refreshing(h) /\ Issued(call[h].token)
        BY <1>2, <1>6, StagedHeld DEF Revoke, Staged, Issued
    <2>2. Marks /\ tok'[call[h].token].revoked
        BY <1>6, <2>1, RevokeOne, RevokeOneMarks DEF Revoke, Issued
    <2> QED
        BY <1>1, <1>6, <2>1, <2>2, MoveKept DEF Revoke, Goto, Stage
<1>7. CASE Insert(h)
    BY <1>1, <1>7, InsertKept
<1>8. CASE InsertFails(h)
    BY <1>1, <1>3, <1>8, MoveKept DEF InsertFails, Goto, Stage
<1>9. CASE Link(h)
    BY <1>1, <1>9, LinkKept
<1>10. CASE Logout(h)
    <2>1. Marks
        <3>1. CASE call[h].token = None
            BY <1>3, <1>10, <3>1 DEF Logout
        <3>2. CASE call[h].token # None
            <4>1. Issued(call[h].token)
                BY <1>2, <3>2 DEF Staged, Held
            <4> QED
                BY <1>10, <3>2, <4>1, RevokeOneMarks DEF Logout, Issued
        <3> QED
            BY <3>1, <3>2
    <2> QED
        BY <1>1, <1>10, <2>1, MoveKept DEF Logout, Goto, Stage
<1>11. CASE Unheard(h)
    <2>1. Idle \in Call
        BY DEF Idle, Call, Stage
    <2>2. Ending
        BY <1>1, <1>11, <2>1 DEF Unheard, Ending, Kept, Rows
    <2> QED
        BY <2>2, EndKept
<1> QED
    BY <1>1, <1>4, <1>5, <1>6, <1>7, <1>8, <1>9, <1>10, <1>11 DEF Serve

LEMMA StepKept ==
    ASSUME NoneIsNoId, Kept, [Next]_vars
    PROVE  Kept'
<1>1. CASE UNCHANGED vars
    <2>1. Ending
        BY <1>1 DEF vars, server, Ending, Kept, Rows
    <2> QED
        BY <2>1, EndKept
<1> QED
    BY <1>1, StepKind, BeginKept, EndKept, ServeKept, ExpireKept

\* The invariant: every token held has a row, whose family exists, and what is being linked
\* is its refresh's own.
THEOREM KeptInvariant ==
    ASSUME NoneIsNoId
    PROVE  Spec => []Kept
<1>1. Init => Kept
    BY InitKept
<1>2. Kept /\ [Next]_vars => Kept'
    BY StepKept
<1> QED
    BY <1>1, <1>2, PTL DEF Spec

\* A refresh token is replaced by one token of its family, which replaced no other, and only
\* once it is revoked: rotation never branches back or crosses into another session.
THEOREM SuccessionAlways ==
    ASSUME NoneIsNoId
    PROVE  Spec => []Succession
<1>1. Kept => Succession
    BY DEF Kept
<1> QED
    BY <1>1, KeptInvariant, PTL

-----------------------------------------------------------------------------
LEMMA DeadStays ==
    ASSUME NoneIsNoId, Kept, [Next]_vars, NEW f \in Token, tok[f].family = f, Dead(f)
    PROVE  Dead(f)'
<1> DEFINE Late(h) == /\ call[h].token # None /\ FamilyOf(call[h].token) = f
                      /\ call[h].stage \in {"revoke", "insert"}
<1>1. \A t \in Token : tok[t].family = f => tok[t].revoked \/ tok[t].expired
    BY DEF Dead, Live
<1>2. \A h \in Handler : ~Late(h)
    BY DEF Dead, Rotating, Under
<1>3. ASSUME \A t \in Token : tok'[t].family = f => tok'[t].revoked \/ tok'[t].expired,
             \A h \in Handler : ~Late(h)'
      PROVE  Dead(f)'
    BY <1>3 DEF Dead, Live, Rotating, Under
<1>4. \A h \in Handler : Staged(h) /\ call[h] \in Call
    BY StagedHeld
<1>5. ASSUME tok' = tok, \A h \in Handler : Late(h)' => Late(h) PROVE Dead(f)'
    BY <1>1, <1>2, <1>3, <1>5
<1>6. CASE UNCHANGED vars
    BY <1>5, <1>6 DEF vars, server, FamilyOf
<1>7. CASE Beginning
    <2>1. \A h \in Handler : Late(h)' => Late(h)
        BY <1>7 DEF Beginning, FamilyOf, Kept, Rows
    <2> QED
        BY <1>5, <1>7, <2>1 DEF Beginning
<1>8. CASE Ending
    <2>1. \A h \in Handler : Late(h)' => Late(h)
        BY <1>8 DEF Ending, FamilyOf, Idle
    <2> QED
        BY <1>5, <1>8, <2>1 DEF Ending
\* Tokens keep their families and come to no life, and calls move on but for one.
<1>9. ASSUME \A t \in Token : /\ tok'[t].family = tok[t].family
                              /\ tok[t].revoked \/ tok[t].expired => tok'[t].revoked \/ tok'[t].expired,
             NEW h \in Handler, NEW stage, call' = [call EXCEPT ![h].stage = stage],
             stage \in {"revoke", "insert"} => Late(h) \/ FamilyOf(call[h].token) # f
      PROVE  Dead(f)'
    <2>1. \A g \in Handler : /\ call'[g].token = call[g].token
                             /\ call'[g].stage = IF g = h THEN stage ELSE call[g].stage
        BY <1>4, <1>9 DEF Kept, Rows, Call
    <2>2. \A g \in Handler : FamilyOf(call[g].token)' = FamilyOf(call[g].token)
        BY <1>4, <1>9, <2>1 DEF FamilyOf, Call
    <2>3. \A g \in Handler : ~Late(g)'
        BY <1>2, <1>9, <2>1, <2>2
    <2> QED
        BY <1>1, <1>3, <1>9, <2>3
<1>10. CASE Expiring
    <2>1. PICK t \in Token : tok' = [tok EXCEPT ![t].expired = TRUE]
        BY <1>10 DEF Expiring, Expire
    <2>2. \A u \in Token : /\ tok'[u].family = tok[u].family
                           /\ tok[u].revoked \/ tok[u].expired => tok'[u].revoked \/ tok'[u].expired
        BY <2>1 DEF Kept, Rows, TokenRow
    <2>3. \A h \in Handler : Late(h)' => Late(h)
        BY <1>4, <1>10, <2>2 DEF Expiring, FamilyOf, Call
    <2> QED
        BY <1>1, <1>2, <1>3, <2>2, <2>3
<1>11. CASE Serving
    <2>1. PICK h \in Handler : Serve(h)
        BY <1>11 DEF Serving
    <2>2. ASSUME NEW S, tok' = [t \in Token |-> IF t \in S THEN [tok[t] EXCEPT !.revoked = TRUE] ELSE tok[t]]
          PROVE  \A t \in Token : /\ tok'[t].family = tok[t].family
                                  /\ tok[t].revoked \/ tok[t].expired => tok'[t].revoked \/ tok'[t].expired
        BY <2>2 DEF Kept, Rows, TokenRow
    <2>3. CASE Lookup(h)
        <3>1. Refreshing(h) /\ call[h].token \in Token /\ call[h].token # None
            BY <2>3, StagedHeld DEF Lookup, Staged
        <3>2. FamilyOf(call[h].token) = f => tok[call[h].token].revoked \/ tok[call[h].token].expired
            BY <1>1, <3>1 DEF FamilyOf
        <3> QED
            BY <1>9, <2>3, <3>2 DEF Lookup, Goto
    <2>4. CASE Reuse(h)
        <3> DEFINE S == {t \in Token : tok[t].family = FamilyOf(call[h].token)}
        <3>1. tok' = [t \in Token |-> IF t \in S THEN [tok[t] EXCEPT !.revoked = TRUE] ELSE tok[t]]
            BY <2>4 DEF Reuse
        <3> HIDE DEF S
        <3> QED
            BY <1>9, <2>2, <2>4, <3>1 DEF Reuse, Goto
    <2>5. CASE Revoke(h)
        <3>1. call[h].token \in Token /\ call[h].token # None /\ (FamilyOf(call[h].token) = f => Late(h))
            BY <1>4, <2>5, StagedHeld DEF Revoke, Staged
        <3>2. tok' = [t \in Token |-> IF t \in {call[h].token} THEN [tok[t] EXCEPT !.revoked = TRUE] ELSE tok[t]]
            BY <2>5, <3>1, RevokeOne DEF Revoke
        <3> HIDE DEF Late
        <3> QED
            BY <1>9, <2>2, <2>5, <3>1, <3>2 DEF Revoke, Goto
    <2>6. CASE Insert(h)
        <3>1. PICK n \in Unissued :
                 /\ tok' = [tok EXCEPT ![n] = IF Refreshing(h)
                              THEN [RootRow(n) EXCEPT !.family = FamilyOf(call[h].token)] ELSE RootRow(n)]
                 /\ call' = [call EXCEPT ![h].new = n, ![h].stage = IF Refreshing(h) THEN "link" ELSE "done"]
            BY <2>6 DEF Insert
        <3>2. n \in Token /\ n # f /\ call[h].stage = "insert" /\ (Refreshing(h) => call[h].token # None)
            BY <2>6, <3>1, StagedHeld DEF Insert, Unissued, NoToken, NoneIsNoId, Staged
        <3>3. Refreshing(h) => FamilyOf(call[h].token) # f
            BY <1>2, <3>2
        <3>4. tok'[n].family # f /\ \A t \in Token \ {n} : tok'[t] = tok[t]
            BY <3>1, <3>2, <3>3 DEF Kept, Rows, RootRow
        <3>5. \A g \in Handler : g # h => call'[g] = call[g]
            BY <3>1 DEF Kept, Rows
        <3>6. call'[h].stage \in {"link", "done"}
            BY <3>1 DEF Kept, Rows, Call
        <3>7. \A g \in Handler : g # h => call[g].token # n
            BY <1>4, <3>1 DEF Staged, Held, Issued, Unissued, NoToken, NoneIsNoId
        <3>8. \A g \in Handler : ~Late(g)'
            BY <1>2, <1>4, <3>4, <3>5, <3>6, <3>7 DEF FamilyOf, Call
        <3> QED
            BY <1>1, <1>3, <3>4, <3>8
    <2>7. CASE InsertFails(h)
        BY <1>9, <2>7 DEF InsertFails, Goto
    <2>8. CASE Link(h)
        <3>1. \A t \in Token : /\ tok'[t].family = tok[t].family
                               /\ tok[t].revoked \/ tok[t].expired => tok'[t].revoked \/ tok'[t].expired
            BY <2>8 DEF Link, Kept, Rows, TokenRow
        <3> QED
            BY <1>9, <2>8, <3>1 DEF Link, Goto
    <2>9. CASE Logout(h)
        <3>1. \A t \in Token : /\ tok'[t].family = tok[t].family
                               /\ tok[t].revoked \/ tok[t].expired => tok'[t].revoked \/ tok'[t].expired
            BY <2>9 DEF Logout, Kept, Rows, TokenRow
        <3> QED
            BY <1>9, <2>9, <3>1 DEF Logout, Goto
    <2>10. CASE Unheard(h)
        <3>1. \A g \in Handler : Late(g)' => Late(g)
            BY <2>10 DEF Unheard, FamilyOf, Idle, Kept, Rows
        <3> QED
            BY <1>5, <2>10, <3>1 DEF Unheard
    <2> QED
        BY <2>1, <2>3, <2>4, <2>5, <2>6, <2>7, <2>8, <2>9, <2>10 DEF Serve
<1> QED
    BY <1>6, <1>7, <1>8, <1>10, <1>11, StepKind

\* A session that is over stays over: neither reuse detection nor logging out can be undone
\* by an older token, unless a refresh was past its checks already.
THEOREM FamiliesDie ==
    ASSUME NoneIsNoId
    PROVE  Spec => [][FamilyDies]_vars
<1>1. Kept /\ [Next]_vars => [FamilyDies]_vars
    BY DeadStays DEF FamilyDies
<1> QED
    BY <1>1, KeptInvariant, PTL DEF Spec

-----------------------------------------------------------------------------
(* Families.  Of one whose calls never overlapped, at most one call is     *)
(* under way and at most one token is live; if no reply was lost either,   *)
(* the live token is the one held by that call, by a login that has not    *)
(* returned, or by the browser.                                            *)

\* What a call holds, by its operation.
Formed(h) ==
    /\ call[h].op = None => call[h] = Idle
    /\ call[h].op = "login" =>
         /\ call[h].token = None /\ call[h].stage \in {"insert", "done", "refused"}
         /\ call[h].stage = "insert" => call[h].new = None
    /\ call[h].op = "logout" => call[h].new = None /\ call[h].stage \in {"lookup", "done"}
    /\ Refreshing(h) =>
         /\ call[h].new # None <=> call[h].stage \in {"link", "done"}
         /\ call[h].new # None => FamilyOf(call[h].new) = FamilyOf(call[h].token)

\* Logins that have opened family f and not returned.
Opening(f) == {h \in Handler : call[h].op = "login" /\ call[h].new # None /\ FamilyOf(call[h].new) = f}

\* Token t of f is live, or has expired, and no other is live.
Good(f, t) == Live(f) \subseteq {t} /\ (t \in Live(f) \/ tok[t].expired)

Single(f) ==
    /\ \A g, h \in Under(f) : g = h
    /\ \A s, t \in Live(f) : s = t
    /\ \A h \in Under(f) : /\ call[h].stage = "revoke" => Live(f) \subseteq {call[h].token}
                           /\ call[h].stage = "insert" => Live(f) = {}

Sound(f, h) ==
    /\ call[h].stage \in {"lookup", "revoke"} => Good(f, call[h].token)
    /\ Refreshing(h) /\ call[h].stage \in {"reuse", "refused"} => tok[call[h].token].expired
    /\ call[h].new # None => Good(f, call[h].new)
    /\ call[h].tab # None
    /\ FamilyOf(storage.refresh) = f => storage.refresh = call[h].token

Healthy(f) ==
    /\ \A h \in Under(f) : Sound(f, h)
    /\ \A h \in Opening(f) :
         /\ Good(f, call[h].new) /\ Under(f) = {} /\ FamilyOf(storage.refresh) # f
         /\ \A g \in Opening(f) : g = h
    /\ FamilyOf(storage.refresh) = f /\ Under(f) = {} => Good(f, storage.refresh)

Fit(f) ==
    /\ f \notin contended => Single(f)
    /\ f \notin contended \cup lost => Healthy(f)

Rotated ==
    /\ Kept /\ \A h \in Handler : Formed(h)
    /\ \A f \in Token : Fit(f)

\* The steps, with what they do to the histories.
Opens(h, op, x, t) ==
    /\ Begin(h, op, x, t) /\ UNCHANGED storage /\ t \in {None, storage.refresh}
    /\ op \in {"share", "recover"} => t # None
    /\ op = "login" => t = None
    /\ op = "share" => Of(x, "share") = {}

Detached(g) ==
    /\ call'[g].op = call[g].op /\ call'[g].stage = call[g].stage /\ call'[g].tab = None
    /\ call'[g].token = call[g].token /\ call'[g].new = call[g].new /\ call'[g] \in Call
    /\ Touched(g) \subseteq lost'

Leaves(g) ==
    /\ call'[g] = Idle
    /\ \/ Touched(g) \subseteq lost' \/ call[g].tab = None
       \/ storage'.refresh \in {None, call[g].new}
       \/ call[g].op = "login" /\ call[g].new = None

Closing ==
    /\ tok' = tok /\ contended' = contended /\ lost \subseteq lost'
    /\ \A g \in Handler : call'[g] = call[g] \/ Leaves(g) \/ Detached(g)
    /\ \/ storage'.refresh \in {None, storage.refresh}
       \/ \E g \in Handler : call'[g] = Idle /\ call[g] # Idle /\ storage'.refresh = call[g].new

Moving(h) ==
    /\ UNCHANGED <<storage, contended>>
    /\ Lookup(h) \/ Reuse(h) \/ Revoke(h) \/ Insert(h) \/ InsertFails(h) \/ Link(h) \/ Logout(h)

LEMMA RestCloses ==
    ASSUME UNCHANGED <<tok, call, contended, lost>>, storage'.refresh \in {None, storage.refresh}
    PROVE  Closing
BY DEF Closing

\* What a tab stores at the end of its call.
LEMMA ContinueStores ==
    ASSUME NEW x, NEW op \in Purpose, NEW n, Continue(x, op, n)
    PROVE  \/ storage'.refresh \in {None, n} /\ (op = "logout" => storage'.refresh = None)
           \/ op = "login" /\ n = None /\ storage' = storage
<1>1. CASE op = "login"
    BY <1>1 DEF Continue
<1>2. CASE op = "logout"
    BY <1>2 DEF Continue, Cleared
<1>3. CASE op = "recover"
    BY <1>3 DEF Continue, Cleared
<1>4. CASE op = "share"
    BY <1>4 DEF Continue, GiveUp, Cleared
<1> QED
    BY <1>1, <1>2, <1>3, <1>4 DEF Purpose

LEMMA ReturnCloses == ASSUME Kept, NEW h \in Handler, Return(h) PROVE Closing
<1>1. /\ call[h].tab # None /\ Continue(call[h].tab, call[h].op, call[h].new)
      /\ call[h].stage \in {"done", "refused"} /\ UNCHANGED <<tok, contended, lost>>
    BY DEF Return, history
<1>2. call'[h] = Idle /\ call[h] # Idle /\ \A g \in Handler \ {h} : call'[g] = call[g]
    BY <1>1 DEF Return, Kept, Rows, Idle
<1>3. call[h].op \in Purpose
    BY <1>1, StagedHeld DEF Staged, Call
<1>4. \/ storage'.refresh \in {None, call[h].new}
      \/ call[h].op = "login" /\ call[h].new = None /\ storage' = storage
    BY <1>1, <1>3, ContinueStores
<1>5. Leaves(h)
    BY <1>2, <1>4 DEF Leaves
<1> QED
    BY <1>1, <1>2, <1>4, <1>5 DEF Closing

LEMMA LoseCloses == ASSUME Kept, NEW h \in Handler, Lose(h) PROVE Closing
<1>1. /\ call[h].tab # None /\ Continue(call[h].tab, call[h].op, None)
      /\ lost' = lost \cup Touched(h) /\ UNCHANGED <<tok, contended>>
    BY DEF Lose
<1>2. PICK goesOn \in BOOLEAN : call' = [call EXCEPT ![h] =
         IF goesOn THEN [call[h] EXCEPT !.tab = None] ELSE Idle]
    BY DEF Lose
<1>3. call[h] \in Call /\ call[h].op \in Purpose
    BY <1>1, StagedHeld DEF Staged, Call
<1>4. storage'.refresh \in {None, storage.refresh}
    BY <1>1, <1>3, ContinueStores
<1>5. \A g \in Handler \ {h} : call'[g] = call[g]
    BY <1>2 DEF Kept, Rows
<1>6. Leaves(h) \/ Detached(h)
  <2>1. CASE goesOn
    <3> DEFINE c == [call[h] EXCEPT !.tab = None]
    <3>1. c \in Call /\ c.op = call[h].op /\ c.stage = call[h].stage /\ c.tab = None
          /\ c.token = call[h].token /\ c.new = call[h].new
        BY <1>3 DEF Call
    <3>2. call' = [call EXCEPT ![h] = c]
        BY <1>2, <2>1
    <3> HIDE DEF c
    <3>3. call'[h] = c
        BY <3>2 DEF Kept, Rows
    <3> QED
        BY <1>1, <3>1, <3>3 DEF Detached
  <2>2. CASE ~goesOn
      BY <1>1, <1>2, <2>2 DEF Leaves, Kept, Rows
  <2> QED
      BY <2>1, <2>2
<1> QED
    BY <1>1, <1>4, <1>5, <1>6 DEF Closing

LEMMA ReloadCloses == ASSUME Kept, NEW x \in Tab, Reload(x) PROVE Closing
<1> DEFINE mine == {h \in Handler : call[h].tab = x}
<1>1. /\ tok' = tok /\ contended' = contended /\ storage' = storage
      /\ lost' = lost \cup UNION {Touched(h) : h \in mine}
      /\ call' = [h \in Handler |-> IF h \in mine THEN [call[h] EXCEPT !.tab = None] ELSE call[h]]
    BY DEF Reload
<1>2. ASSUME NEW g \in Handler PROVE call'[g] = call[g] \/ Detached(g)
  <2>1. CASE g \in mine
    <3>1. call[g] \in Call
        BY StagedHeld
    <3>2. call'[g] = [call[g] EXCEPT !.tab = None] /\ Touched(g) \subseteq lost'
        BY <1>1, <2>1
    <3> QED
        BY <3>1, <3>2 DEF Detached, Call
  <2>2. CASE g \notin mine
      BY <1>1, <2>2
  <2> QED
      BY <2>1, <2>2
<1> QED
    BY <1>1, <1>2 DEF Closing

LEMMA StepSorts ==
    ASSUME Kept, [Next]_vars
    PROVE  \/ Closing
           \/ \E h \in Handler : Moving(h)
           \/ \E h \in Handler, op \in Purpose, x \in Tab : \E t : Opens(h, op, x, t)
           \/ \E t \in Token : Expire(t)
<1>1. ASSUME NEW h \in Handler, Serve(h) PROVE Closing \/ Moving(h)
  <2>1. CASE Unheard(h)
    <3>1. UNCHANGED <<tok, storage, contended, lost>> /\ call[h].tab = None
          /\ call'[h] = Idle /\ \A g \in Handler \ {h} : call'[g] = call[g]
        BY <2>1 DEF Unheard, Rest, history, Kept, Rows
    <3> QED
        BY <3>1 DEF Closing, Leaves
  <2>2. CASE ~Unheard(h)
      BY <1>1, <2>2
      DEF Serve, Moving, Lookup, Reuse, Revoke, Insert, InsertFails, Link, Logout, Rest, history
  <2> QED
      BY <2>1, <2>2
<1>2. ASSUME NEW x \in Tab, Browse(x) \/ Check(x)
      PROVE  Closing \/ \E h \in Handler, op \in Purpose : \E t : Opens(h, op, x, t)
  <2>1. CASE SignIn(x)
      BY <2>1 DEF SignIn, Opens, Purpose
  <2>2. CASE SignOut(x)
      BY <2>2 DEF SignOut, Opens, Purpose
  <2>3. CASE Validated(x) \/ \E s \in Slot : Request(x, s)
      BY <2>3, RestCloses DEF Request, Validated, server, history
  <2>4. CASE Invalid(x) /\ status[x] = "validating" /\ storage.refresh # None
      BY <2>4 DEF Invalid, Opens, Purpose
  <2>5. CASE Invalid(x) /\ ~(status[x] = "validating" /\ storage.refresh # None)
      BY <2>5, RestCloses DEF Invalid, server, history, Cleared
  <2> QED
      BY <1>2, <2>1, <2>2, <2>3, <2>4, <2>5 DEF Browse, Check
<1>3. ASSUME NEW x \in Tab, NEW s \in Slot, Respond(x, s)
      PROVE  Closing \/ \E h \in Handler, op \in Purpose : \E t : Opens(h, op, x, t)
  <2>1. CASE EndWith(x, s)
      BY <2>1, RestCloses DEF EndWith, server, history, Cleared
  <2>2. CASE Share(x, s) /\ Of(x, "share") = {} /\ storage.refresh # None
      BY <2>2 DEF Share, Opens, Purpose
  <2>3. CASE UNCHANGED <<server, storage, history>>
      BY <2>3, RestCloses DEF server, history
  <2> QED
      BY <1>3, <2>1, <2>2, <2>3 DEF Respond, Answered, Refused, RefusedAgain
<1>4. CASE \E x \in Tab : Unreachable(x)
    BY <1>4, RestCloses DEF Unreachable, server, history
<1>5. CASE AccessRunsOut
    BY <1>5, RestCloses DEF AccessRunsOut, server, history, Kept, Rows, Storage
<1>6. CASE UNCHANGED vars
    BY <1>6, RestCloses DEF vars, server, history
<1> QED
    BY <1>1, <1>2, <1>3, <1>4, <1>5, <1>6, ReturnCloses, LoseCloses, ReloadCloses DEF Next

\* Issued tokens keep their family.
Firm == \A t \in Token : tok[t].family # None => tok'[t].family = tok[t].family

LEMMA FamilyFirm ==
    ASSUME NoneIsNoId, Firm, NEW t, Held(t) PROVE FamilyOf(t)' = FamilyOf(t)
BY DEF Firm, Held, Issued, FamilyOf

LEMMA MovingFirm == ASSUME NoneIsNoId, Kept, NEW h \in Handler, Moving(h) PROVE Firm
<1>1. Staged(h) /\ call[h] \in Call
    BY StagedHeld
<1>2. CASE Reuse(h)
    BY <1>2 DEF Reuse, Firm, Kept, Rows, TokenRow
<1>3. CASE Revoke(h)
    BY <1>3 DEF Revoke, Firm, Kept, Rows, TokenRow
<1>4. CASE Insert(h)
    BY <1>4 DEF Insert, Unissued, NoToken, Firm, Kept, Rows
<1>5. CASE Link(h)
    BY <1>5 DEF Link, Firm, Kept, Rows, TokenRow
<1>6. CASE Logout(h)
    BY <1>6 DEF Logout, Firm, Kept, Rows, TokenRow
<1>7. CASE Lookup(h) \/ InsertFails(h)
    BY <1>7 DEF Lookup, InsertFails, Firm, Rest
<1> QED
    BY <1>2, <1>3, <1>4, <1>5, <1>6, <1>7 DEF Moving

\* The call that moves, and the others.
LEMMA MovingCall ==
    ASSUME Kept, NEW h \in Handler, Moving(h)
    PROVE  /\ \A g \in Handler \ {h} : call'[g] = call[g]
           /\ call'[h].op = call[h].op /\ call'[h].tab = call[h].tab /\ call'[h].token = call[h].token
           /\ ~Insert(h) => call'[h].new = call[h].new
           /\ Lookup(h) => call'[h].stage = IF tok[call[h].token].revoked THEN "reuse"
                                            ELSE IF tok[call[h].token].expired THEN "refused" ELSE "revoke"
           /\ Reuse(h) \/ InsertFails(h) => call'[h].stage = "refused"
           /\ Revoke(h) => call'[h].stage = "insert"
           /\ Insert(h) => call'[h].stage = IF Refreshing(h) THEN "link" ELSE "done"
           /\ Link(h) \/ Logout(h) => call'[h].stage = "done"
<1>1. call[h] \in Call /\ call \in [Handler -> Call]
    BY DEF Kept, Rows
<1>2. ASSUME NEW stage, Goto(h, stage)
      PROVE  /\ \A g \in Handler \ {h} : call'[g] = call[g]
             /\ call'[h].op = call[h].op /\ call'[h].tab = call[h].tab /\ call'[h].token = call[h].token
             /\ call'[h].new = call[h].new /\ call'[h].stage = stage
    BY <1>1, <1>2 DEF Goto, Call
<1>3. CASE Insert(h)
  <2>1. PICK n \in Unissued :
          call' = [call EXCEPT ![h].new = n, ![h].stage = IF Refreshing(h) THEN "link" ELSE "done"]
      BY <1>3 DEF Insert
  <2>2. /\ \A g \in Handler \ {h} : call'[g] = call[g]
        /\ call'[h].op = call[h].op /\ call'[h].tab = call[h].tab /\ call'[h].token = call[h].token
        /\ call'[h].stage = IF Refreshing(h) THEN "link" ELSE "done"
      BY <1>1, <2>1 DEF Call
  <2> QED
      BY <1>3, <2>2 DEF Insert, Lookup, Reuse, Revoke, InsertFails, Link, Logout, Unissued
<1>4. CASE Lookup(h)
  <2> DEFINE stage == IF tok[call[h].token].revoked THEN "reuse"
                      ELSE IF tok[call[h].token].expired THEN "refused" ELSE "revoke"
  <2>1. Goto(h, stage) /\ call[h].stage = "lookup" /\ Refreshing(h)
      BY <1>4 DEF Lookup
  <2> HIDE DEF stage
  <2> QED
      BY <1>2, <2>1 DEF stage, Insert, Reuse, Revoke, InsertFails, Link, Logout, Refreshing
<1>5. CASE Reuse(h)
    BY <1>2, <1>5 DEF Reuse, Insert, Lookup, Revoke, InsertFails, Link, Logout
<1>6. CASE Revoke(h)
    BY <1>2, <1>6 DEF Reuse, Insert, Lookup, Revoke, InsertFails, Link, Logout
<1>7. CASE InsertFails(h)
    BY <1>2, <1>7 DEF Reuse, Insert, Lookup, Revoke, InsertFails, Link, Logout
<1>8. CASE Link(h)
    BY <1>2, <1>8 DEF Reuse, Insert, Lookup, Revoke, InsertFails, Link, Logout
<1>9. CASE Logout(h)
    BY <1>2, <1>9 DEF Reuse, Insert, Lookup, Revoke, InsertFails, Link, Logout, Refreshing
<1> QED
    BY <1>3, <1>4, <1>5, <1>6, <1>7, <1>8, <1>9 DEF Moving

LEMMA StepFirm == ASSUME NoneIsNoId, Kept, [Next]_vars PROVE Firm
<1>1. ASSUME tok' = tok PROVE Firm
    BY <1>1 DEF Firm
<1>2. ASSUME NEW t \in Token, Expire(t) PROVE Firm
    BY <1>2 DEF Expire, Firm, Kept, Rows, TokenRow
<1> QED
    BY <1>1, <1>2, StepSorts, MovingFirm DEF Closing, Opens, Begin

LEMMA FormedKept ==
    ASSUME NoneIsNoId, Kept, \A h \in Handler : Formed(h), [Next]_vars, NEW g \in Handler
    PROVE  Formed(g)'
<1>1. Formed(g) /\ Staged(g) /\ call[g] \in Call
    BY StagedHeld
<1>3. \A t : Held(t) => FamilyOf(t)' = FamilyOf(t)
    BY StepFirm, FamilyFirm
<1>4. ASSUME call'[g].op = call[g].op, call'[g].stage = call[g].stage,
             call'[g].token = call[g].token, call'[g].new = call[g].new,
             call[g] = Idle => call'[g] = call[g]
      PROVE  Formed(g)'
  <2>1. PICK t, n : t = call[g].token /\ n = call[g].new
      OBVIOUS
  <2>2. FamilyOf(t)' = FamilyOf(t) /\ FamilyOf(n)' = FamilyOf(n)
      BY <1>1, <1>3, <2>1 DEF Staged
  <2> QED
      BY <1>1, <1>4, <2>1, <2>2 DEF Formed, Refreshing
<1>5. ASSUME call'[g] = Idle PROVE Formed(g)'
    BY <1>5 DEF Formed, Idle, Refreshing, NoneIsNoId, Purpose
<1>6. CASE Closing
  <2>1. CASE call'[g] = call[g]
      BY <1>4, <2>1
  <2>2. CASE Leaves(g)
      BY <1>5, <2>2 DEF Leaves
  <2>3. CASE Detached(g)
    <3>1. call[g] = Idle => call'[g] = call[g]
        BY <2>3 DEF Detached, Idle, Call
    <3> QED
        BY <1>4, <2>3, <3>1 DEF Detached
  <2> QED
      BY <1>6, <2>1, <2>2, <2>3 DEF Closing
<1>7. ASSUME NEW h \in Handler, NEW op \in Purpose, NEW x \in Tab, NEW t, Opens(h, op, x, t)
      PROVE  Formed(g)'
  <2> DEFINE c == [op |-> op, stage |-> IF op = "login" THEN "insert" ELSE "lookup",
                   tab |-> x, token |-> t, new |-> None]
  <2>1. call' = [call EXCEPT ![h] = c] /\ (op = "login" => t = None)
      BY <1>7 DEF Opens, Begin
  <2>2. /\ c.op = op /\ c.token = t /\ c.new = None
        /\ c.stage = IF op = "login" THEN "insert" ELSE "lookup"
      OBVIOUS
  <2> HIDE DEF c
  <2>3. CASE g = h
    <3>1. call'[g] = c
        BY <2>1, <2>3 DEF Kept, Rows
    <3> QED
        BY <2>1, <2>2, <3>1 DEF Formed, Refreshing, Purpose, NoneIsNoId
  <2>4. CASE g # h
      BY <1>4, <2>1, <2>4 DEF Kept, Rows
  <2> QED
      BY <2>3, <2>4
<1>8. ASSUME NEW h \in Handler, Moving(h) PROVE Formed(g)'
  <2>1. CASE g # h
      BY <1>4, <1>8, <2>1, MovingCall
  <2>2. CASE g = h
    <3>1. PICK t, n : t = call[g].token /\ n = call[g].new
        OBVIOUS
    <3>2. FamilyOf(t)' = FamilyOf(t) /\ FamilyOf(n)' = FamilyOf(n)
        BY <1>1, <1>3, <3>1 DEF Staged
    <3>3. call'[g].op = call[g].op /\ call'[g].token = t /\ call[g].op # None
      <4>1. call[g].stage # "idle"
          BY <1>8, <2>2 DEF Moving, Lookup, Reuse, Revoke, Insert, InsertFails, Link, Logout
      <4>2. call[g] # Idle
          BY <4>1 DEF Idle
      <4> QED
          BY <1>1, <1>8, <2>2, <3>1, <4>2, MovingCall DEF Formed
    <3>4. CASE Insert(g)
      <4>1. PICK m \in Unissued :
              /\ tok' = [tok EXCEPT ![m] = IF Refreshing(g)
                   THEN [RootRow(m) EXCEPT !.family = FamilyOf(call[g].token)] ELSE RootRow(m)]
              /\ call' = [call EXCEPT ![g].new = m, ![g].stage = IF Refreshing(g) THEN "link" ELSE "done"]
          BY <3>4 DEF Insert
      <4>2. m # None /\ call'[g].new = m /\ call[g].stage = "insert"
            /\ call'[g].stage = IF Refreshing(g) THEN "link" ELSE "done"
          BY <3>4, <4>1, <1>1 DEF Insert, Unissued, Kept, Rows, Call, NoneIsNoId
      <4>3. Refreshing(g) => tok'[m].family = FamilyOf(t)
          BY <3>1, <4>1 DEF Unissued, Kept, Rows, RootRow
      <4>4. Refreshing(g) => FamilyOf(m)' = FamilyOf(t)'
          BY <4>2, <4>3, <3>2 DEF FamilyOf
      <4> QED
          BY <1>1, <3>1, <3>3, <4>2, <4>4 DEF Formed, Refreshing
    <3>5. CASE ~Insert(g)
      <4>1. call'[g].new = n
          BY <1>8, <2>2, <3>1, <3>5, MovingCall
      <4>2. CASE Lookup(g)
          BY <1>1, <1>8, <2>2, <3>1, <3>2, <3>3, <4>1, <4>2, MovingCall DEF Formed, Refreshing, Lookup
      <4>3. CASE Reuse(g)
          BY <1>1, <1>8, <2>2, <3>1, <3>2, <3>3, <4>1, <4>3, MovingCall DEF Formed, Refreshing, Reuse, Staged
      <4>4. CASE Revoke(g)
          BY <1>1, <1>8, <2>2, <3>1, <3>2, <3>3, <4>1, <4>4, MovingCall DEF Formed, Refreshing, Revoke, Staged
      <4>5. CASE InsertFails(g)
          BY <1>1, <1>8, <2>2, <3>1, <3>2, <3>3, <4>1, <4>5, MovingCall DEF Formed, Refreshing, InsertFails
      <4>6. CASE Link(g)
        <5>1. Refreshing(g) /\ n # None /\ FamilyOf(n) = FamilyOf(t) /\ call[g].op \in {"share", "recover"}
            BY <1>1, <3>1, <4>6 DEF Link, Staged, Formed, Refreshing
        <5>2. call'[g].stage = "done"
            BY <1>8, <2>2, <4>6, MovingCall
        <5> QED
            BY <3>2, <3>3, <4>1, <5>1, <5>2 DEF Formed, Refreshing, NoneIsNoId, Purpose
      <4>7. CASE Logout(g)
          BY <1>1, <1>8, <2>2, <3>1, <3>2, <3>3, <4>1, <4>7, MovingCall DEF Formed, Refreshing, Logout
      <4> QED
          BY <1>8, <2>2, <3>5, <4>2, <4>3, <4>4, <4>5, <4>6, <4>7 DEF Moving
    <3> QED
        BY <3>4, <3>5
  <2> QED
      BY <2>1, <2>2
<1>9. CASE \E t \in Token : Expire(t)
    BY <1>4, <1>9 DEF Expire
<1> QED
    BY <1>6, <1>7, <1>8, <1>9, StepSorts

\* Who holds a new token holds it for its family.
LEMMA Successor ==
    ASSUME NoneIsNoId, Kept, NEW h \in Handler, Formed(h), call[h].new # None
    PROVE  \/ call[h].op = "login" /\ call[h].token = None
           \/ /\ Refreshing(h) /\ FamilyOf(call[h].new) = FamilyOf(call[h].token)
              /\ call[h].token # None
<1>1. call[h].op \in Purpose \cup {None} /\ Staged(h)
    BY StagedHeld DEF Call
<1>2. call[h].op # None
    BY DEF Formed, Idle
<1> QED
    BY <1>1, <1>2 DEF Formed, Refreshing, Staged, Purpose

\* A step that leaves the rows, the calls and the stored token of a family alone.
LEMMA Elsewhere ==
    ASSUME NoneIsNoId, Kept, \A h \in Handler : Formed(h), NEW f \in Token, Fit(f), Firm, storage' = storage,
           contended \subseteq contended', lost \subseteq lost',
           \A t \in Token : tok'[t].family = f \/ tok[t].family = f => tok'[t] = tok[t],
           \A g \in Handler : call'[g] = call[g] \/ (g \notin Under(f) \cup Opening(f) \cup Under(f)' \cup Opening(f)')
    PROVE  Fit(f)'
<1>1. \A t : Held(t) => FamilyOf(t)' = FamilyOf(t)
    BY FamilyFirm
<1>2. Live(f)' = Live(f)
    BY DEF Live
<1>3. ASSUME NEW g \in Handler, call'[g] = call[g]
      PROVE  (g \in Under(f)' <=> g \in Under(f)) /\ (g \in Opening(f)' <=> g \in Opening(f))
  <2>1. PICK t, n : t = call[g].token /\ n = call[g].new
      OBVIOUS
  <2>2. FamilyOf(t)' = FamilyOf(t) /\ FamilyOf(n)' = FamilyOf(n)
      BY <1>1, <2>1, StagedHeld DEF Staged
  <2> QED
      BY <1>3, <2>1, <2>2 DEF Under, Opening
<1>4. Under(f)' = Under(f) /\ Opening(f)' = Opening(f)
  <2>1. Under(f) \subseteq Handler /\ Opening(f) \subseteq Handler
        /\ Under(f)' \subseteq Handler /\ Opening(f)' \subseteq Handler
      BY DEF Under, Opening
  <2> QED
      BY <1>3, <2>1
<1>5. \A g \in Under(f) \cup Opening(f) : call'[g] = call[g]
    BY DEF Under, Opening
<1>6. \A t \in Token : tok[t].family = f => (Good(f, t)' <=> Good(f, t)) /\ tok'[t] = tok[t]
    BY <1>2 DEF Good
<1>7. Single(f) => Single(f)'
    BY <1>2, <1>4, <1>5 DEF Single
<1>8. PICK r : r = storage.refresh
    OBVIOUS
<1>9. (FamilyOf(r)' = f <=> FamilyOf(r) = f) /\ (FamilyOf(r) = f => r \in Token /\ tok[r].family = f)
    BY <1>1, <1>8 DEF Kept, Held, Issued, FamilyOf, NoneIsNoId
<1>10. Healthy(f) => Healthy(f)'
  <2> SUFFICES ASSUME Healthy(f) PROVE Healthy(f)'
      OBVIOUS
  <2>1. ASSUME NEW h \in Under(f) PROVE Sound(f, h)'
    <3>1. PICK t, n : t = call[h].token /\ n = call[h].new
        OBVIOUS
    <3>2. /\ Sound(f, h) /\ call'[h] = call[h] /\ Staged(h) /\ Formed(h)
          /\ FamilyOf(t) = f /\ t # None /\ h \in Handler
        BY <1>5, <3>1, StagedHeld DEF Healthy, Under
    <3>3. t \in Token /\ tok[t].family = f
        BY <3>1, <3>2 DEF Staged, Held, Issued, FamilyOf
    <3>4. n # None => n \in Token /\ tok[n].family = f
      <4>1. n # None => FamilyOf(n) = f
          BY <3>1, <3>2, Successor
      <4> QED
          BY <3>1, <3>2, <4>1 DEF Staged, Held, Issued, FamilyOf
    <3>5. (Good(f, t)' <=> Good(f, t)) /\ (n # None => (Good(f, n)' <=> Good(f, n))) /\ tok'[t] = tok[t]
        BY <1>6, <3>3, <3>4
    <3>6. call'[h].token = t /\ call'[h].new = n /\ call'[h].stage = call[h].stage
          /\ call'[h].op = call[h].op /\ call'[h].tab = call[h].tab
        BY <3>1, <3>2
    <3>7. FamilyOf(r)' = f => r = t
        BY <1>8, <1>9, <3>1, <3>2 DEF Sound
    <3>11. r = storage'.refresh
        BY <1>8
    <3>8. /\ call[h].stage \in {"lookup", "revoke"} => Good(f, t)'
          /\ n # None => Good(f, n)'
      <4>1. /\ call[h].stage \in {"lookup", "revoke"} => Good(f, t)
            /\ n # None => Good(f, n)
          BY <3>1, <3>2 DEF Sound, Good
      <4> QED
          BY <3>5, <4>1
    <3>9. Refreshing(h) /\ call[h].stage \in {"reuse", "refused"} => tok'[t].expired
        BY <3>1, <3>2, <3>5 DEF Sound
    <3>10. call[h].tab # None
        BY <3>2 DEF Sound
    <3> QED
        BY <3>6, <3>7, <3>8, <3>9, <3>10, <3>11 DEF Sound, Refreshing, Good, FamilyOf
  <2>2. ASSUME NEW h \in Opening(f)
        PROVE  Good(f, call[h].new)' /\ Under(f)' = {} /\ FamilyOf(storage.refresh)' # f
               /\ \A g \in Opening(f)' : g = h
    <3>1. PICK n : n = call[h].new
        OBVIOUS
    <3>2. n \in Token /\ tok[n].family = f /\ call'[h].new = n
        BY <1>5, <3>1, StagedHeld DEF Opening, Staged, Held, Issued, FamilyOf
    <3>3. Good(f, n)'
        BY <1>6, <3>1, <3>2 DEF Healthy
    <3> QED
        BY <1>4, <1>8, <1>9, <3>2, <3>3 DEF Healthy
  <2>3. FamilyOf(storage.refresh)' = f /\ Under(f)' = {} => Good(f, storage.refresh)'
    <3>1. FamilyOf(r)' = f /\ Under(f)' = {} => Good(f, r)'
        BY <1>4, <1>6, <1>8, <1>9 DEF Healthy
    <3> QED
        BY <1>8, <3>1
  <2> QED
      BY <1>4, <2>1, <2>2, <2>3 DEF Healthy
<1> QED
    BY <1>7, <1>10 DEF Fit

\* A step after which h is the one call of family f.
LEMMA Alone ==
    ASSUME NEW f \in Token, NEW h \in Handler, NEW t, NEW n, NEW L,
           call'[h].token = t, call'[h].new = n, Under(f)' = {h}, Live(f)' = L,
           \A s, u \in L : s = u,
           call'[h].stage = "revoke" => L \subseteq {t},
           call'[h].stage = "insert" => L = {},
           f \notin contended' \cup lost' =>
             /\ Opening(f)' = {}
             /\ call'[h].stage \in {"lookup", "revoke"} => L \subseteq {t} /\ (t \in L \/ tok'[t].expired)
             /\ Refreshing(h)' /\ call'[h].stage \in {"reuse", "refused"} => tok'[t].expired
             /\ n # None => L \subseteq {n} /\ (n \in L \/ tok'[n].expired)
             /\ call'[h].tab # None
             /\ FamilyOf(storage.refresh)' = f => storage'.refresh = t
    PROVE  Fit(f)'
<1>1. Single(f)'
    BY DEF Single
<1>2. f \notin contended' \cup lost' => Healthy(f)'
  <2> SUFFICES ASSUME f \notin contended' \cup lost' PROVE Healthy(f)'
      OBVIOUS
  <2>1. \A g \in Under(f)' : g = h
      OBVIOUS
  <2>2. Sound(f, h)'
      BY DEF Sound, Good
  <2> QED
      BY <2>1, <2>2 DEF Healthy
<1> QED
    BY <1>1, <1>2 DEF Fit

LEMMA OpensFit ==
    ASSUME NoneIsNoId, Rotated, NEW h \in Handler, NEW op \in Purpose, NEW x \in Tab, NEW t,
           Opens(h, op, x, t), NEW f \in Token
    PROVE  Fit(f)'
<1> DEFINE c == [op |-> op, stage |-> IF op = "login" THEN "insert" ELSE "lookup",
                 tab |-> x, token |-> t, new |-> None]
<1>1. /\ call[h] = Idle /\ call' = [call EXCEPT ![h] = c] /\ UNCHANGED <<tok, storage, lost>>
      /\ t \in {None, storage.refresh} /\ (op = "login" => t = None)
      /\ (op \in {"share", "recover"} => t # None) /\ (op = "share" => Of(x, "share") = {})
      /\ contended' = IF t # None /\ \E g \in Under(FamilyOf(t)) : ~SharedBy(x, op, g)
                      THEN contended \cup {FamilyOf(t)} ELSE contended
    BY DEF Opens, Begin
<1>2. c.op = op /\ c.token = t /\ c.new = None /\ c.tab = x /\ c.stage \in {"insert", "lookup"}
      /\ (c.stage = "insert" => op = "login")
    OBVIOUS
<1> HIDE DEF c
<1>3. call'[h] = c /\ \A g \in Handler \ {h} : call'[g] = call[g]
    BY <1>1 DEF Rotated, Kept, Rows
<1>4. Firm /\ Held(t) /\ Kept /\ \A g \in Handler : Formed(g)
    BY <1>1 DEF Firm, Rotated, Kept, Held
<1>5. \A u : FamilyOf(u)' = FamilyOf(u)
    BY <1>1 DEF FamilyOf
<1>6. h \notin Under(f) /\ h \notin Opening(f) /\ h \notin Opening(f)'
    BY <1>1, <1>2, <1>3 DEF Under, Opening, Idle
<1>7. h \in Under(f)' <=> t # None /\ FamilyOf(t) = f
    BY <1>1, <1>2, <1>3 DEF Under, FamilyOf
<1>8. CASE ~(t # None /\ FamilyOf(t) = f)
  <2>1. contended \subseteq contended' /\ lost \subseteq lost' /\ storage' = storage
      BY <1>1
  <2>2. \A g \in Handler : call'[g] = call[g] \/ g \notin Under(f) \cup Opening(f) \cup Under(f)' \cup Opening(f)'
      BY <1>3, <1>6, <1>7, <1>8
  <2>3. \A u \in Token : tok'[u].family = f \/ tok[u].family = f => tok'[u] = tok[u]
      BY <1>1
  <2> QED
      BY <1>4, <2>1, <2>2, <2>3, Elsewhere DEF Rotated
<1>9. CASE t # None /\ FamilyOf(t) = f
  <2>1. CASE Under(f) # {}
    <3>1. PICK g \in Under(f) : TRUE
        BY <2>1
    <3>2. ~SharedBy(x, op, g)
        BY <1>1, <3>1 DEF SharedBy, Of, Under
    <3>3. f \in contended'
        BY <1>1, <1>9, <3>1, <3>2
    <3> QED
        BY <3>3 DEF Fit
  <2>2. CASE Under(f) = {} /\ f \in contended
    <3>1. f \in contended'
        BY <1>1, <2>2
    <3> QED
        BY <3>1 DEF Fit
  <2>3. CASE Under(f) = {} /\ f \notin contended
    <3>1. Under(f)' = {h}
      <4>1. ASSUME NEW g \in Handler \ {h} PROVE g \notin Under(f)'
        <5>1. PICK u : u = call[g].token
            OBVIOUS
        <5>2. call'[g].token = u /\ ~(u # None /\ FamilyOf(u) = f)
            BY <1>3, <2>3, <5>1 DEF Under
        <5> QED
            BY <1>5, <5>2 DEF Under, FamilyOf
      <4>2. Under(f)' \subseteq Handler
          BY DEF Under
      <4> QED
          BY <1>7, <1>9, <4>1, <4>2
    <3>2. Live(f)' = Live(f) /\ contended' = contended
        BY <1>1, <1>9, <2>3 DEF Live
    <3>3. Single(f)
        BY <2>3 DEF Rotated, Fit
    <3>4. storage'.refresh = t /\ t = storage.refresh
        BY <1>1, <1>9
    <3>5. ASSUME f \notin contended' \cup lost'
          PROVE  /\ Opening(f)' = {}
                 /\ Live(f) \subseteq {t} /\ (t \in Live(f) \/ tok'[t].expired)
      <4>1. Healthy(f)
          BY <1>1, <3>2, <3>5 DEF Rotated, Fit
      <4>2. Good(f, t)
          BY <1>9, <2>3, <3>4, <4>1 DEF Healthy
      <4>3. Opening(f) = {}
          BY <1>9, <3>4, <4>1 DEF Healthy
      <4>4. ASSUME NEW g \in Handler \ {h} PROVE g \notin Opening(f)'
        <5>1. PICK u : u = call[g].new
            OBVIOUS
        <5>2. call'[g] = call[g] /\ ~(call[g].op = "login" /\ u # None /\ FamilyOf(u) = f)
            BY <1>3, <4>3, <5>1 DEF Opening
        <5> QED
            BY <1>5, <5>1, <5>2 DEF Opening, FamilyOf
      <4>5. Opening(f)' \subseteq Handler
          BY DEF Opening
      <4> QED
          BY <1>1, <1>6, <4>2, <4>4, <4>5 DEF Good
    <3>6. call'[h].stage = "lookup" /\ call'[h].tab # None
        BY <1>1, <1>2, <1>3, <1>9 DEF NoneIsNoId
    <3>7. \A s, u \in Live(f) : s = u
        BY <3>3 DEF Single
    <3> HIDE DEF Opens
    <3>8. PICK L : L = Live(f)
        OBVIOUS
    <3>9. Live(f)' = L
        BY <3>2, <3>8
    <3> QED
        BY <1>2, <1>3, <3>1, <3>4, <3>5, <3>6, <3>7, <3>8, <3>9, Alone
  <2> QED
      BY <2>1, <2>2, <2>3
<1> QED
    BY <1>8, <1>9

LEMMA ClosingFit ==
    ASSUME NoneIsNoId, Rotated, Closing, NEW f \in Token
    PROVE  Fit(f)'
<1>1. /\ Kept /\ \A g \in Handler : Formed(g) /\ Staged(g)
      /\ tok' = tok /\ contended' = contended /\ lost \subseteq lost' /\ Fit(f) /\ f # None
    BY StagedHeld DEF Rotated, Closing, NoneIsNoId
<1>2. \A u : FamilyOf(u)' = FamilyOf(u)
    BY <1>1 DEF FamilyOf
<1>3. Live(f)' = Live(f) /\ \A u : Good(f, u)' <=> Good(f, u)
    BY <1>1 DEF Live, Good
\* What is under way afterwards was so before.
<1>4. ASSUME NEW g \in Under(f)'
      PROVE  /\ g \in Under(f) /\ call'[g].stage = call[g].stage
             /\ call'[g].token = call[g].token /\ call'[g].new = call[g].new
             /\ f \notin lost' => call'[g] = call[g]
  <2>1. g \in Handler /\ call'[g].token # None
      BY DEF Under
  <2>2. PICK u : u = call'[g].token
      OBVIOUS
  <2>3. FamilyOf(u) = f
      BY <1>2, <2>2 DEF Under, FamilyOf
  <2>4. CASE call'[g] = call[g]
      BY <2>1, <2>2, <2>3, <2>4 DEF Under
  <2>5. CASE Leaves(g)
      BY <2>1, <2>5 DEF Leaves, Idle
  <2>6. CASE Detached(g)
    <3>1. FamilyOf(call[g].token) = f
        BY <2>2, <2>3, <2>6 DEF Detached
    <3>2. f \in lost'
        BY <1>1, <2>6, <3>1 DEF Detached, Touched
    <3> QED
        BY <2>1, <2>6, <3>1, <3>2 DEF Detached, Under
  <2> QED
      BY <2>1, <2>4, <2>5, <2>6 DEF Closing
<1>5. ASSUME NEW g \in Opening(f)', f \notin lost'
      PROVE  g \in Opening(f) /\ call'[g] = call[g]
  <2>1. g \in Handler /\ call'[g].op = "login" /\ call'[g].new # None
      BY DEF Opening
  <2>2. PICK u : u = call'[g].new
      OBVIOUS
  <2>3. FamilyOf(u) = f
      BY <1>2, <2>2 DEF Opening, FamilyOf
  <2>4. CASE call'[g] = call[g]
      BY <2>1, <2>2, <2>3, <2>4 DEF Opening
  <2>5. CASE Leaves(g)
      BY <2>1, <2>5 DEF Leaves, Idle
  <2>6. CASE Detached(g)
    <3>1. FamilyOf(call[g].new) = f
        BY <2>2, <2>3, <2>6 DEF Detached
    <3> QED
        BY <1>1, <1>5, <2>6, <3>1 DEF Detached, Touched
  <2> QED
      BY <2>1, <2>4, <2>5, <2>6 DEF Closing
<1>6. Single(f) => Single(f)'
  <2> SUFFICES ASSUME Single(f) PROVE Single(f)'
      OBVIOUS
  <2>1. ASSUME NEW g \in Under(f)'
        PROVE  /\ call'[g].stage = "revoke" => Live(f) \subseteq {call'[g].token}
               /\ call'[g].stage = "insert" => Live(f) = {}
      BY <1>4 DEF Single
  <2>2. \A g, h \in Under(f)' : g = h
      BY <1>4 DEF Single
  <2> QED
      BY <1>3, <2>1, <2>2 DEF Single
<1>7. ASSUME f \notin contended \cup lost', Single(f), Healthy(f) PROVE Healthy(f)'
  <2>1. PICK r, q : r = storage.refresh /\ q = storage'.refresh
      OBVIOUS
  <2>2. FamilyOf(q)' = f => q = r \/ \E g \in Handler :
          call'[g] = Idle /\ call[g] # Idle /\ q = call[g].new /\ q # None
      BY <1>1, <1>2, <2>1 DEF Closing, FamilyOf
  \* A token of the family that a call has just handed over.
  <2>3. ASSUME NEW g \in Handler, call[g].new # None, FamilyOf(call[g].new) = f
        PROVE  Good(f, call[g].new) /\ (g \in Under(f) \/ g \in Opening(f))
    <3>1. g \in Under(f) \/ g \in Opening(f)
        BY <1>1, <2>3, Successor DEF Under, Opening
    <3>2. ASSUME g \in Under(f) PROVE Good(f, call[g].new)
      <4>1. Sound(f, g)
          BY <1>7, <3>2 DEF Healthy
      <4> QED
          BY <2>3, <4>1 DEF Sound, Good
    <3>3. ASSUME g \in Opening(f) PROVE Good(f, call[g].new)
        BY <1>7, <3>3 DEF Healthy, Good
    <3> QED
        BY <3>1, <3>2, <3>3
  <2>4. ASSUME NEW g \in Under(f)' PROVE Sound(f, g)'
    <3>1. g \in Under(f) /\ call'[g] = call[g] /\ g \in Handler
        BY <1>4, <1>7 DEF Under
    <3>2. PICK t, n : t = call[g].token /\ n = call[g].new
        OBVIOUS
    <3>3. Sound(f, g)
        BY <1>7, <3>1 DEF Healthy
    <3>4. FamilyOf(q)' = f => q = t
      <4> SUFFICES ASSUME FamilyOf(q)' = f PROVE q = t
          OBVIOUS
      <4>1. CASE q = r
          BY <1>2, <2>1, <3>2, <3>3, <4>1 DEF Sound
      <4>2. CASE q # r
        <5>1. PICK h \in Handler : call'[h] = Idle /\ call[h] # Idle /\ q = call[h].new /\ q # None
            BY <2>2, <4>2
        <5>2. FamilyOf(call[h].new) = f
            BY <1>2, <5>1
        <5>3. h \in Under(f) \/ h \in Opening(f)
            BY <2>3, <5>1, <5>2
        <5>4. h # g
            BY <3>1, <5>1
        <5> QED
            BY <1>7, <3>1, <5>3, <5>4 DEF Single, Healthy
      <4> QED
          BY <4>1, <4>2
    <3>5. /\ call[g].stage \in {"lookup", "revoke"} => Good(f, t)
          /\ n # None => Good(f, n)
        BY <3>2, <3>3 DEF Sound, Good
    <3>6. /\ call[g].stage \in {"lookup", "revoke"} => Good(f, t)'
          /\ n # None => Good(f, n)'
        BY <1>3, <3>5
    <3>7. Refreshing(g) /\ call[g].stage \in {"reuse", "refused"} => tok'[t].expired
        BY <1>1, <3>2, <3>3 DEF Sound
    <3>8. /\ call'[g].token = t /\ call'[g].new = n /\ call'[g].stage = call[g].stage
          /\ call'[g].op = call[g].op /\ call'[g].tab # None
        BY <3>1, <3>2, <3>3 DEF Sound
    <3> QED
        BY <2>1, <3>4, <3>6, <3>7, <3>8 DEF Sound, Good, Refreshing, FamilyOf
  <2>5. ASSUME NEW h \in Opening(f)'
        PROVE  /\ Good(f, call[h].new)' /\ Under(f)' = {} /\ FamilyOf(storage.refresh)' # f
               /\ \A g \in Opening(f)' : g = h
    <3>1. h \in Opening(f) /\ call'[h] = call[h] /\ h \in Handler
        BY <1>5, <1>7 DEF Opening
    <3>2. PICK n : n = call[h].new
        OBVIOUS
    <3>3. Good(f, n)'
        BY <1>3, <1>7, <3>1, <3>2 DEF Healthy
    <3>4. Under(f)' = {}
        BY <1>4, <1>7, <3>1 DEF Healthy
    <3>5. \A g \in Opening(f)' : g = h
        BY <1>5, <1>7, <3>1 DEF Healthy
    <3>6. FamilyOf(q)' # f
      <4> SUFFICES ASSUME FamilyOf(q)' = f PROVE FALSE
          OBVIOUS
      <4>1. FamilyOf(r) # f
          BY <1>7, <2>1, <3>1 DEF Healthy
      <4>2. PICK g \in Handler : call'[g] = Idle /\ call[g] # Idle /\ q = call[g].new /\ q # None
          BY <1>2, <2>2, <4>1
      <4>3. FamilyOf(call[g].new) = f
          BY <1>2, <4>2
      <4>4. g \in Opening(f)
          BY <1>7, <2>3, <3>1, <4>2, <4>3 DEF Healthy
      <4> QED
          BY <1>7, <3>1, <4>2, <4>4 DEF Healthy
    <3>7. Good(f, call[h].new)'
        BY <3>1, <3>2, <3>3 DEF Good
    <3>8. FamilyOf(storage.refresh)' # f
        BY <2>1, <3>6 DEF FamilyOf
    <3> QED
        BY <3>4, <3>5, <3>7, <3>8
  <2>6. FamilyOf(q)' = f /\ Under(f)' = {} => Good(f, q)'
    <3> SUFFICES ASSUME FamilyOf(q)' = f, Under(f)' = {} PROVE Good(f, q)'
        OBVIOUS
    <3>1. CASE q = r
      <4>1. FamilyOf(storage.refresh) = f
          BY <1>2, <2>1, <3>1
      <4>2. CASE Under(f) = {}
        <5>1. Good(f, storage.refresh)
            BY <1>7, <4>1, <4>2 DEF Healthy
        <5> QED
            BY <1>3, <2>1, <3>1, <5>1
      <4>3. CASE Under(f) # {}
        <5>1. PICK g \in Under(f) : TRUE
            BY <4>3
        <5>2. PICK t : t = call[g].token
            OBVIOUS
        <5>3. g \in Handler /\ t # None /\ FamilyOf(t) = f /\ Sound(f, g)
            BY <1>7, <5>1, <5>2 DEF Healthy, Under
        <5>4. g \notin Under(f)'
            OBVIOUS
        <5>5. call'[g] # call[g]
            BY <1>2, <5>2, <5>3, <5>4 DEF Under, FamilyOf
        <5>6. ~Detached(g) /\ ~(Touched(g) \subseteq lost')
            BY <1>1, <1>7, <5>2, <5>3 DEF Detached, Touched
        <5>7. Leaves(g)
            BY <5>3, <5>5, <5>6 DEF Closing
        <5>8. call[g].op # "login" /\ call[g].tab # None
            BY <1>1, <5>2, <5>3 DEF Sound, Formed
        <5>9. q = call[g].new /\ q # None
            BY <1>2, <2>1, <5>6, <5>7, <5>8, <1>1 DEF Leaves, FamilyOf
        <5>10. Good(f, q)
            BY <1>2, <2>3, <5>3, <5>9
        <5> QED
            BY <1>3, <5>10
      <4> QED
          BY <4>2, <4>3
    <3>2. CASE q # r
      <4>1. PICK g \in Handler : call'[g] = Idle /\ call[g] # Idle /\ q = call[g].new /\ q # None
          BY <2>2, <3>2
      <4>2. Good(f, q)
          BY <1>2, <2>3, <4>1
      <4> QED
          BY <1>3, <4>2
    <3> QED
        BY <3>1, <3>2
  <2>7. FamilyOf(storage.refresh)' = f /\ Under(f)' = {} => Good(f, storage.refresh)'
      BY <2>1, <2>6 DEF FamilyOf, Good
  <2> QED
      BY <2>4, <2>5, <2>7 DEF Healthy
<1> QED
    BY <1>1, <1>6, <1>7 DEF Fit

LEMMA ExpireFit ==
    ASSUME NoneIsNoId, Rotated, NEW t \in Token, Expire(t), NEW f \in Token
    PROVE  Fit(f)'
<1>1. /\ Kept /\ \A g \in Handler : Formed(g) /\ Staged(g)
      /\ UNCHANGED <<call, storage, contended, lost>> /\ Fit(f) /\ f # None
    BY StagedHeld DEF Rotated, Expire, NoneIsNoId, history
<1>2. \A u \in Token : /\ tok'[u].family = tok[u].family /\ tok'[u].revoked = tok[u].revoked
                       /\ tok'[u].expired = IF u = t THEN TRUE ELSE tok[u].expired
    BY <1>1 DEF Expire, Kept, Rows, TokenRow
<1>3. \A u \in Token \cup {None} : FamilyOf(u)' = FamilyOf(u)
    BY <1>2 DEF FamilyOf
<1>4. \A g \in Handler : call[g].token \in Token \cup {None} /\ call[g].new \in Token \cup {None}
    BY <1>1 DEF Kept, Rows, Call
<1>5. PICK r : r = storage.refresh
    OBVIOUS
<1>6. r \in Token \cup {None} /\ FamilyOf(r)' = FamilyOf(r)
    BY <1>1, <1>3, <1>5 DEF Kept, Rows, Storage
<1>7. Under(f)' = Under(f) /\ Opening(f)' = Opening(f)
    BY <1>1, <1>2, <1>4 DEF Under, Opening, FamilyOf
<1>8. Live(f)' = Live(f) \ {t}
    BY <1>2 DEF Live
<1>9. ASSUME NEW u \in Token, Good(f, u) PROVE Good(f, u)'
    BY <1>2, <1>8, <1>9 DEF Good
<1>10. Single(f) => Single(f)'
    BY <1>1, <1>7, <1>8 DEF Single
<1>11. ASSUME Healthy(f) PROVE Healthy(f)'
  <2>1. ASSUME NEW g \in Under(f) PROVE Sound(f, g)'
    <3>1. PICK v, n : v = call[g].token /\ n = call[g].new
        OBVIOUS
    <3>2. Sound(f, g) /\ g \in Handler /\ v \in Token /\ n \in Token \cup {None}
        BY <1>4, <1>11, <3>1 DEF Healthy, Under
    <3>3. /\ call[g].stage \in {"lookup", "revoke"} => Good(f, v)'
          /\ n # None => Good(f, n)'
        BY <1>9, <3>1, <3>2 DEF Sound, Good
    <3>4. /\ Refreshing(g) /\ call[g].stage \in {"reuse", "refused"} => tok'[v].expired
          /\ call[g].tab # None /\ (FamilyOf(r)' = f => r = v)
        BY <1>2, <1>5, <1>6, <3>1, <3>2 DEF Sound
    <3> QED
        BY <1>1, <1>5, <3>1, <3>3, <3>4 DEF Sound, Good, Refreshing, FamilyOf
  <2>2. ASSUME NEW h \in Opening(f)
        PROVE  /\ Good(f, call[h].new)' /\ Under(f) = {} /\ FamilyOf(r)' # f
               /\ \A g \in Opening(f) : g = h
    <3>1. PICK n : n = call[h].new
        OBVIOUS
    <3>2. Good(f, n) /\ n \in Token
        BY <1>4, <1>11, <3>1 DEF Healthy, Opening
    <3>3. Good(f, call[h].new)'
        BY <1>1, <1>9, <3>1, <3>2 DEF Good
    <3> QED
        BY <1>5, <1>6, <1>11, <3>3 DEF Healthy
  <2>3. FamilyOf(r)' = f /\ Under(f) = {} => Good(f, r)'
    <3>1. FamilyOf(r) = f => r \in Token
        BY <1>1, <1>6 DEF FamilyOf
    <3> QED
        BY <1>5, <1>6, <1>9, <1>11, <3>1 DEF Healthy, Good
  <2>4. storage'.refresh = r
      BY <1>1, <1>5
  <2>5. (FamilyOf(storage.refresh)' = f <=> FamilyOf(r)' = f) /\ (Good(f, storage.refresh)' <=> Good(f, r)')
      BY <2>4 DEF FamilyOf, Good
  <2> QED
      BY <1>7, <2>1, <2>2, <2>3, <2>5 DEF Healthy
<1> QED
    BY <1>1, <1>10, <1>11 DEF Fit

\* The rows a server step writes: of the family of its call's token, or a new one.
LEMMA MovingRows ==
    ASSUME NoneIsNoId, Kept, NEW h \in Handler, Moving(h), ~Insert(h), NEW u \in Token, tok'[u] # tok[u]
    PROVE  call[h].token # None /\ tok[u].family = FamilyOf(call[h].token)
           /\ tok'[u].family = tok[u].family /\ tok[u].family # None
<1>1. Staged(h) /\ call[h] \in Call
    BY StagedHeld
<1>2. CASE Reuse(h)
    BY <1>1, <1>2, StagedHeld DEF Reuse, Staged, Kept, Rows, TokenRow, FamilyOf, NoneIsNoId
<1>3. CASE Revoke(h)
    BY <1>1, <1>3, StagedHeld DEF Revoke, Staged, Kept, Rows, TokenRow, FamilyOf, NoneIsNoId
<1>4. CASE Link(h)
    BY <1>1, <1>4, StagedHeld DEF Link, Staged, Kept, Rows, TokenRow, FamilyOf, NoneIsNoId
<1>5. CASE Logout(h)
    BY <1>1, <1>5 DEF Logout, Staged, Held, Issued, Kept, Rows, TokenRow, FamilyOf, NoneIsNoId
<1> QED
    BY <1>2, <1>3, <1>4, <1>5 DEF Moving, Lookup, InsertFails, Rest

\* A server step of a call leaves the other families alone.
LEMMA MovingElsewhere ==
    ASSUME NoneIsNoId, Rotated, NEW h \in Handler, Moving(h), NEW f \in Token,
           ~(call[h].token # None /\ FamilyOf(call[h].token) = f),
           Insert(h) => Refreshing(h) \/ tok'[f] = tok[f]
    PROVE  Fit(f)'
<1>1. /\ Kept /\ \A g \in Handler : Formed(g) /\ Staged(g)
      /\ storage' = storage /\ contended' = contended /\ lost \subseteq lost' /\ Fit(f)
    BY StagedHeld DEF Rotated, Moving, Lookup, Reuse, Revoke, Insert, InsertFails, Link, Logout, Rest, history
<1>2. Firm
    BY <1>1, MovingFirm
<1>3. PICK t, n : t = call[h].token /\ n = call[h].new
    OBVIOUS
<1>4. FamilyOf(t)' = FamilyOf(t) /\ FamilyOf(n)' = FamilyOf(n) /\ Held(t) /\ Held(n)
    BY <1>1, <1>2, <1>3, FamilyFirm DEF Staged
<1>5. h \notin Under(f) /\ h \notin Under(f)'
    BY <1>1, <1>3, <1>4, MovingCall DEF Under, FamilyOf
<1>6. call[h].op = "login" => call[h].stage = "insert" /\ call[h].new = None
  <2>1. call[h].op = "login" => ~Lookup(h) /\ ~Reuse(h) /\ ~Revoke(h) /\ ~Link(h) /\ ~Logout(h)
      BY <1>1 DEF Lookup, Reuse, Revoke, Link, Logout, Staged, Refreshing
  <2> QED
      BY <1>1, <2>1 DEF Moving, Insert, InsertFails, Formed
<1>7. h \notin Opening(f)
    BY <1>6 DEF Opening
<1>8. CASE ~Insert(h)
  <2>1. h \notin Opening(f)'
      BY <1>1, <1>6, <1>8, MovingCall DEF Opening
  <2>2. \A u \in Token : tok'[u].family = f \/ tok[u].family = f => tok'[u] = tok[u]
      BY <1>1, <1>3, <1>8, MovingRows
  <2>3. \A g \in Handler : call'[g] = call[g] \/ g \notin Under(f) \cup Opening(f) \cup Under(f)' \cup Opening(f)'
      BY <1>1, <1>5, <1>7, <2>1, MovingCall
  <2> QED
      BY <1>1, <1>2, <2>2, <2>3, Elsewhere
<1>9. CASE Insert(h)
  <2>1. PICK m \in Unissued :
          /\ tok' = [tok EXCEPT ![m] = IF Refreshing(h)
               THEN [RootRow(m) EXCEPT !.family = FamilyOf(call[h].token)] ELSE RootRow(m)]
          /\ call' = [call EXCEPT ![h].new = m, ![h].stage = IF Refreshing(h) THEN "link" ELSE "done"]
      BY <1>9 DEF Insert
  <2>2. m \in Token /\ tok[m] = NoToken /\ \A u \in Token \ {m} : tok'[u] = tok[u]
      BY <1>1, <2>1 DEF Unissued, Kept, Rows
  <2>3. tok'[m].family = IF Refreshing(h) THEN FamilyOf(t) ELSE m
      BY <1>1, <1>3, <2>1, <2>2 DEF Kept, Rows, RootRow
  <2>4. tok'[m].family # f
    <3>1. CASE Refreshing(h)
        BY <1>1, <1>3, <2>3, <3>1 DEF Staged
    <3>2. CASE ~Refreshing(h)
      <4>1. m # f
          BY <1>9, <2>2, <2>3, <3>2 DEF NoToken, NoneIsNoId
      <4> QED
          BY <2>3, <3>2, <4>1
    <3> QED
        BY <3>1, <3>2
  <2>5. call'[h].new = m
      BY <1>1, <2>1 DEF Kept, Rows, Call
  <2>6. h \notin Opening(f)'
      BY <2>2, <2>4, <2>5 DEF Opening, FamilyOf, NoneIsNoId
  <2>7. \A u \in Token : tok'[u].family = f \/ tok[u].family = f => tok'[u] = tok[u]
      BY <2>2, <2>4 DEF NoToken, NoneIsNoId
  <2>8. \A g \in Handler : call'[g] = call[g] \/ g \notin Under(f) \cup Opening(f) \cup Under(f)' \cup Opening(f)'
      BY <1>1, <1>5, <1>7, <1>9, <2>6, MovingCall
  <2> QED
      BY <1>1, <1>2, <2>7, <2>8, Elsewhere
<1> QED
    BY <1>8, <1>9

\* A login opens a family that nothing was known of.
LEMMA LoginFit ==
    ASSUME NoneIsNoId, Rotated, NEW h \in Handler, Moving(h), Insert(h), ~Refreshing(h),
           NEW f \in Token, tok'[f] # tok[f]
    PROVE  Fit(f)'
<1>1. /\ Kept /\ \A g \in Handler : Formed(g) /\ Staged(g)
      /\ storage' = storage /\ f # None /\ call[h].stage = "insert"
    BY StagedHeld DEF Rotated, Moving, Insert, NoneIsNoId
<1>2. /\ tok[f] = NoToken /\ tok' = [tok EXCEPT ![f] = RootRow(f)]
      /\ call' = [call EXCEPT ![h].new = f, ![h].stage = "done"]
  <2>1. PICK m \in Unissued :
          /\ tok' = [tok EXCEPT ![m] = RootRow(m)]
          /\ call' = [call EXCEPT ![h].new = m, ![h].stage = "done"]
      BY DEF Insert
  <2>2. m = f
      BY <1>1, <2>1 DEF Kept, Rows
  <2> QED
      BY <2>1, <2>2 DEF Unissued
<1>3. /\ \A u \in Token \ {f} : tok'[u] = tok[u]
      /\ tok'[f].family = f /\ ~tok'[f].revoked /\ ~tok'[f].expired
      /\ call'[h].new = f /\ call'[h].op = call[h].op /\ call'[h].token = call[h].token
      /\ call'[h].stage = "done"
      /\ \A g \in Handler \ {h} : call'[g] = call[g]
    BY <1>1, <1>2 DEF Kept, Rows, RootRow, Call
<1>4. call[h].op = "login" /\ call[h].token = None
    BY <1>1 DEF Formed, Refreshing, Kept, Rows, Call, Purpose, Idle
<1>5. \A u \in Token : tok[u].family # f
    BY <1>1, <1>2 DEF Kept, Founded, NoToken
<1>6. \A u : Held(u) => FamilyOf(u)' # f
    BY <1>1, <1>2, <1>3, <1>5 DEF FamilyOf, Held, Issued, NoToken
<1>7. Live(f)' = {f}
    BY <1>3, <1>5 DEF Live
<1>8. Under(f)' = {}
  <2> SUFFICES ASSUME NEW g \in Handler PROVE g \notin Under(f)'
      BY DEF Under
  <2>1. PICK u : u = call[g].token
      OBVIOUS
  <2>2. call'[g].token = u /\ FamilyOf(u)' # f
      BY <1>1, <1>3, <1>6, <2>1 DEF Staged
  <2> QED
      BY <2>2 DEF Under, FamilyOf
<1>9. \A g \in Opening(f)' : g = h
  <2> SUFFICES ASSUME NEW g \in Handler \ {h} PROVE g \notin Opening(f)'
      BY DEF Opening
  <2>1. PICK u : u = call[g].new
      OBVIOUS
  <2>2. call'[g].new = u /\ FamilyOf(u)' # f
      BY <1>1, <1>3, <1>6, <2>1 DEF Staged
  <2> QED
      BY <2>2 DEF Opening, FamilyOf
<1>10. FamilyOf(storage.refresh)' # f
  <2>1. PICK u : u = storage.refresh
      OBVIOUS
  <2>2. storage'.refresh = u /\ FamilyOf(u)' # f
      BY <1>1, <1>6, <2>1 DEF Kept
  <2> QED
      BY <2>2 DEF FamilyOf
<1>11. Single(f)'
    BY <1>7, <1>8 DEF Single
<1>12. Healthy(f)'
  <2>1. Good(f, call[h].new)'
      BY <1>3, <1>7 DEF Good
  <2> QED
      BY <1>8, <1>9, <1>10, <2>1 DEF Healthy
<1> QED
    BY <1>11, <1>12 DEF Fit

\* A server step in the family of its call.
LEMMA MovingOwn ==
    ASSUME NoneIsNoId, Rotated, NEW h \in Handler, Moving(h), NEW f \in Token,
           call[h].token # None, FamilyOf(call[h].token) = f
    PROVE  Fit(f)'
<1>1. /\ Kept /\ \A g \in Handler : Formed(g) /\ Staged(g)
      /\ storage' = storage /\ contended' = contended /\ lost \subseteq lost' /\ Fit(f) /\ f # None
    BY StagedHeld DEF Rotated, Moving, Lookup, Reuse, Revoke, Insert, InsertFails, Link, Logout, Rest,
                      history, NoneIsNoId
<1>2. Firm
    BY <1>1, MovingFirm
<1> SUFFICES ASSUME f \notin contended PROVE Fit(f)'
    BY <1>1 DEF Fit
<1>3. Single(f) /\ (f \notin lost => Healthy(f))
    BY <1>1 DEF Fit
<1>4. PICK t, k : t = call[h].token /\ k = call'[h].new
    OBVIOUS
<1>5. /\ t \in Token /\ tok[t].family = f /\ tok[t] \in TokenRow /\ call[h].op # "login"
      /\ call'[h].token = t /\ call'[h].op = call[h].op /\ call'[h].tab = call[h].tab
      /\ \A g \in Handler \ {h} : call'[g] = call[g]
    BY <1>1, <1>4, MovingCall DEF Staged, Held, Issued, FamilyOf, Kept, Rows, Formed
<1>6. h \in Under(f) /\ Under(f) = {h}
    BY <1>3 DEF Single, Under
<1>7. \A u : Held(u) => FamilyOf(u)' = FamilyOf(u)
    BY <1>2, FamilyFirm
<1>8. Under(f)' = {h}
  <2>1. ASSUME NEW g \in Handler PROVE g \in Under(f)' <=> g = h
    <3>1. PICK u : u = call[g].token
        OBVIOUS
    <3>2. call'[g].token = u /\ FamilyOf(u)' = FamilyOf(u)
        BY <1>1, <1>4, <1>5, <1>7, <3>1 DEF Staged
    <3>3. g \in Under(f)' <=> g \in Under(f)
        BY <3>1, <3>2 DEF Under, FamilyOf
    <3> QED
        BY <1>6, <3>3
  <2>2. Under(f)' \subseteq Handler
      BY DEF Under
  <2> QED
      BY <2>1, <2>2
<1>9. f \notin lost => Opening(f)' = {}
  <2> SUFFICES ASSUME f \notin lost, NEW g \in Handler PROVE g \notin Opening(f)'
      BY DEF Opening
  <2>1. CASE g = h
      BY <1>5, <2>1 DEF Opening
  <2>2. CASE g # h
    <3>1. PICK u : u = call[g].new
        OBVIOUS
    <3>2. call'[g] = call[g] /\ FamilyOf(u)' = FamilyOf(u)
        BY <1>1, <1>5, <1>7, <2>2, <3>1 DEF Staged
    <3>3. g \notin Opening(f)
        BY <1>3, <1>6 DEF Healthy
    <3> QED
        BY <3>1, <3>2, <3>3 DEF Opening, FamilyOf
  <2> QED
      BY <2>1, <2>2
<1>10. f \notin lost => call'[h].tab # None /\ (FamilyOf(storage.refresh)' = f => storage'.refresh = t)
  <2> SUFFICES ASSUME f \notin lost PROVE call'[h].tab # None /\ (FamilyOf(storage.refresh)' = f => storage'.refresh = t)
      OBVIOUS
  <2>1. Sound(f, h)
      BY <1>3, <1>6 DEF Healthy
  <2>2. PICK r : r = storage.refresh
      OBVIOUS
  <2>3. FamilyOf(r)' = FamilyOf(r)
      BY <1>1, <1>7, <2>2 DEF Kept
  <2>4. FamilyOf(r)' = f => r = t
      BY <1>4, <2>1, <2>2, <2>3 DEF Sound
  <2> QED
      BY <1>1, <1>5, <2>1, <2>2, <2>4 DEF Sound, FamilyOf
\* Where the call and the live tokens are after the step.
<1>11. ASSUME NEW L, Live(f)' = L, \A s, u \in L : s = u,
              call'[h].stage = "revoke" => L \subseteq {t}, call'[h].stage = "insert" => L = {},
              f \notin lost' =>
                /\ call'[h].stage \in {"lookup", "revoke"} => L \subseteq {t} /\ (t \in L \/ tok'[t].expired)
                /\ Refreshing(h) /\ call'[h].stage \in {"reuse", "refused"} => tok'[t].expired
                /\ k # None => L \subseteq {k} /\ (k \in L \/ tok'[k].expired)
       PROVE  Fit(f)'
  <2>1. Refreshing(h)' <=> Refreshing(h)
      BY <1>5 DEF Refreshing
  <2>2. f \notin contended' \cup lost' =>
             /\ Opening(f)' = {}
             /\ call'[h].stage \in {"lookup", "revoke"} => L \subseteq {t} /\ (t \in L \/ tok'[t].expired)
             /\ Refreshing(h)' /\ call'[h].stage \in {"reuse", "refused"} => tok'[t].expired
             /\ k # None => L \subseteq {k} /\ (k \in L \/ tok'[k].expired)
             /\ call'[h].tab # None
             /\ FamilyOf(storage.refresh)' = f => storage'.refresh = t
      BY <1>1, <1>9, <1>10, <1>11, <2>1
  <2> QED
      BY <1>4, <1>5, <1>8, <1>11, <2>2, Alone
<1>12. /\ \A s, u \in Live(f) : s = u
       /\ call[h].stage = "revoke" => Live(f) \subseteq {t}
       /\ call[h].stage = "insert" => Live(f) = {}
    BY <1>3, <1>4, <1>6 DEF Single
<1>13. f \notin lost =>
         /\ call[h].stage \in {"lookup", "revoke"} => Live(f) \subseteq {t} /\ (t \in Live(f) \/ tok[t].expired)
         /\ Refreshing(h) /\ call[h].stage \in {"reuse", "refused"} => tok[t].expired
         /\ call[h].new # None => Live(f) \subseteq {call[h].new}
                                  /\ (call[h].new \in Live(f) \/ tok[call[h].new].expired)
  <2> SUFFICES ASSUME f \notin lost, Sound(f, h)
               PROVE  /\ call[h].stage \in {"lookup", "revoke"} =>
                           Live(f) \subseteq {t} /\ (t \in Live(f) \/ tok[t].expired)
                      /\ Refreshing(h) /\ call[h].stage \in {"reuse", "refused"} => tok[t].expired
                      /\ call[h].new # None => Live(f) \subseteq {call[h].new}
                                               /\ (call[h].new \in Live(f) \/ tok[call[h].new].expired)
      BY <1>3, <1>6 DEF Healthy
  <2> QED
      BY <1>4 DEF Sound, Good
<1>14. \A u \in Live(f) : u \in Token /\ tok[u].family = f /\ ~tok[u].revoked /\ ~tok[u].expired
    BY DEF Live
<1>15. CASE Lookup(h)
  <2>1. /\ Refreshing(h) /\ call[h].stage = "lookup" /\ tok' = tok /\ k = None
        /\ call'[h].stage = IF tok[t].revoked THEN "reuse" ELSE IF tok[t].expired THEN "refused" ELSE "revoke"
      BY <1>1, <1>4, <1>15, MovingCall DEF Lookup, Insert, Formed
  <2>2. Live(f)' = Live(f)
      BY <2>1 DEF Live
  <2>3. ~tok[t].revoked /\ ~tok[t].expired => t \in Live(f)
      BY <1>5 DEF Live
  <2>4. PICK L : L = Live(f)
      OBVIOUS
  <2>5. Live(f)' = L
      BY <2>2, <2>4
  <2> QED
      BY <1>1, <1>11, <1>12, <1>13, <1>14, <2>1, <2>3, <2>4, <2>5
<1>16. CASE Reuse(h)
  <2>1. /\ Refreshing(h) /\ call[h].stage = "reuse" /\ k = None /\ call'[h].stage = "refused"
        /\ \A u \in Token : tok[u].family = f => tok'[u] = [tok[u] EXCEPT !.revoked = TRUE]
        /\ \A u \in Token : tok[u].family # f => tok'[u] = tok[u]
      BY <1>1, <1>4, <1>16, MovingCall DEF Reuse, Insert, Formed, Staged
  <2>2. \A u \in Token : tok[u] \in TokenRow
      BY <1>1 DEF Kept, Rows
  <2>3. \A u \in Token : tok[u].family = f => tok'[u].revoked /\ tok'[u].expired = tok[u].expired
      BY <2>1, <2>2 DEF TokenRow
  <2>4. Live(f)' = {} /\ tok'[t].expired = tok[t].expired
      BY <1>5, <2>1, <2>3 DEF Live
  <2> QED
      BY <1>1, <1>11, <1>13, <2>1, <2>4
<1>17. CASE Revoke(h)
  <2>1. /\ Refreshing(h) /\ call[h].stage = "revoke" /\ k = None /\ call'[h].stage = "insert"
        /\ tok' = [tok EXCEPT ![t].revoked = TRUE]
      BY <1>1, <1>4, <1>17, MovingCall DEF Revoke, Insert, Formed, Staged
  <2>2. tok'[t].revoked /\ \A u \in Token \ {t} : tok'[u] = tok[u]
      BY <1>1, <1>5, <2>1, RevokeOne DEF Kept, Rows
  <2>3. Live(f)' = {}
      BY <1>12, <2>1, <2>2 DEF Live
  <2> QED
      BY <1>11, <2>1, <2>3
<1>18. CASE Insert(h)
  <2>1. PICK m \in Unissued :
          /\ tok' = [tok EXCEPT ![m] = IF Refreshing(h)
               THEN [RootRow(m) EXCEPT !.family = FamilyOf(call[h].token)] ELSE RootRow(m)]
          /\ call' = [call EXCEPT ![h].new = m, ![h].stage = IF Refreshing(h) THEN "link" ELSE "done"]
      BY <1>18 DEF Insert
  <2>2. m \in Token /\ tok[m] = NoToken /\ k = m /\ call[h].stage = "insert" /\ Refreshing(h)
        /\ call'[h].stage = "link"
      BY <1>1, <1>4, <1>5, <1>18, <2>1
      DEF Unissued, Kept, Rows, Call, Insert, Formed, Refreshing, Purpose, Idle
  <2>3. /\ tok'[m].family = f /\ ~tok'[m].revoked /\ ~tok'[m].expired
        /\ \A u \in Token \ {m} : tok'[u] = tok[u]
      BY <1>1, <1>4, <1>5, <2>1, <2>2 DEF Kept, Rows, RootRow, FamilyOf, NoneIsNoId
  <2>4. Live(f)' = {m}
      BY <1>12, <2>2, <2>3 DEF Live
  <2> QED
      BY <1>11, <2>2, <2>4
<1>19. CASE InsertFails(h)
  <2>1. call'[h].stage = "refused" /\ tok' = tok /\ lost' = lost \cup ({f} \ {None})
      BY <1>1, <1>4, <1>19, MovingCall DEF InsertFails, FamilyOf
  <2>2. Live(f)' = Live(f)
      BY <2>1 DEF Live
  <2>3. PICK L : L = Live(f)
      OBVIOUS
  <2>4. Live(f)' = L
      BY <2>2, <2>3
  <2> QED
      BY <1>1, <1>11, <1>12, <2>1, <2>3, <2>4
<1>20. CASE Link(h)
  <2>1. /\ Refreshing(h) /\ call[h].stage = "link" /\ call'[h].stage = "done" /\ k = call[h].new
        /\ k # None /\ k \in Token /\ tok' = [tok EXCEPT ![t].next = k]
      BY <1>1, <1>4, <1>20, MovingCall DEF Link, Insert, Formed, Staged, Held, Issued
  <2>2. \A u \in Token : /\ tok'[u].family = tok[u].family /\ tok'[u].revoked = tok[u].revoked
                         /\ tok'[u].expired = tok[u].expired
      BY <1>1, <1>5, <2>1 DEF Kept, Rows, TokenRow
  <2>3. Live(f)' = Live(f)
      BY <2>2 DEF Live
  <2>4. PICK L : L = Live(f)
      OBVIOUS
  <2>5. Live(f)' = L
      BY <2>3, <2>4
  <2> QED
      BY <1>1, <1>11, <1>12, <1>13, <2>1, <2>2, <2>4, <2>5
<1>21. CASE Logout(h)
  <2>1. /\ call[h].op = "logout" /\ call[h].stage = "lookup" /\ call'[h].stage = "done" /\ k = None
        /\ tok' = [tok EXCEPT ![t].revoked = TRUE]
      BY <1>1, <1>4, <1>21, MovingCall DEF Logout, Insert, Formed
  <2>2. tok'[t].revoked /\ \A u \in Token \ {t} : tok'[u] = tok[u]
      BY <1>1, <1>5, <2>1, RevokeOne DEF Kept, Rows
  <2>3. Live(f)' = Live(f) \ {t}
      BY <1>5, <1>14, <2>2 DEF Live
  <2>4. PICK L : L = Live(f) \ {t}
      OBVIOUS
  <2>5. Live(f)' = L
      BY <2>3, <2>4
  <2> QED
      BY <1>11, <1>12, <2>1, <2>4, <2>5
<1> QED
    BY <1>15, <1>16, <1>17, <1>18, <1>19, <1>20, <1>21 DEF Moving

LEMMA InitRotated == ASSUME NoneIsNoId, Init PROVE Rotated
<1>1. Kept
    BY InitKept
<1>2. \A h \in Handler : Formed(h)
    BY DEF Init, Formed, Idle, Refreshing, Purpose, NoneIsNoId
<1>3. ASSUME NEW f \in Token PROVE Fit(f)
  <2>1. Live(f) = {} /\ Under(f) = {} /\ Opening(f) = {} /\ FamilyOf(storage.refresh) # f
      BY DEF Init, Live, Under, Opening, FamilyOf, Idle, NoToken, Cleared, NoneIsNoId
  <2> QED
      BY <2>1 DEF Fit, Single, Healthy
<1> QED
    BY <1>1, <1>2, <1>3 DEF Rotated

LEMMA StepRotated == ASSUME NoneIsNoId, Rotated, [Next]_vars PROVE Rotated'
<1>1. Kept /\ \A h \in Handler : Formed(h)
    BY DEF Rotated
<1>2. Kept' /\ \A h \in Handler : Formed(h)'
    BY <1>1, StepKept, FormedKept
<1>3. ASSUME NEW f \in Token PROVE Fit(f)'
  <2>1. CASE \E h \in Handler : Moving(h)
    <3>1. PICK h \in Handler : Moving(h)
        BY <2>1
    <3>2. CASE call[h].token # None /\ FamilyOf(call[h].token) = f
        BY <3>1, <3>2, MovingOwn
    <3>3. CASE Insert(h) /\ ~Refreshing(h) /\ tok'[f] # tok[f]
        BY <3>1, <3>3, LoginFit
    <3> QED
        BY <3>1, <3>2, <3>3, MovingElsewhere
  <2> QED
      BY <1>1, <2>1, StepSorts, OpensFit, ClosingFit, ExpireFit
<1> QED
    BY <1>2, <1>3 DEF Rotated

\* The invariant of rotation: where the live token of a family is, and who holds it.
THEOREM RotatedInvariant ==
    ASSUME NoneIsNoId
    PROVE  Spec => []Rotated
<1>1. Init => Rotated
    BY InitRotated
<1>2. Rotated /\ [Next]_vars => Rotated'
    BY StepRotated
<1> QED
    BY <1>1, <1>2, PTL DEF Spec

\* Three statements rotate a token, in no transaction: even so a family never has two live
\* tokens unless two of its calls overlapped.
THEOREM OneLive ==
    ASSUME NoneIsNoId
    PROVE  Spec => []OneLivePerFamily
<1>1. ASSUME Rotated, NEW f \in Token \ contended PROVE Cardinality(Live(f)) <= 1
  <2>1. \A s, t \in Live(f) : s = t
      BY <1>1 DEF Rotated, Fit, Single
  <2>2. PICK S : S = Live(f)
      OBVIOUS
  <2>3. CASE S = {}
    <3>1. Cardinality(S) = 0
        BY <2>3, FS_EmptySet
    <3> QED
        BY <2>2, <3>1
  <2>4. CASE S # {}
    <3>1. PICK t : S = {t}
        BY <2>1, <2>2, <2>4
    <3>2. Cardinality({t}) = 1
        BY FS_Singleton
    <3> QED
        BY <2>2, <3>1, <3>2
  <2> QED
      BY <2>3, <2>4
<1>2. Rotated => OneLivePerFamily
    BY <1>1 DEF OneLivePerFamily
<1> QED
    BY <1>2, RotatedInvariant, PTL

\* The refresh token a browser keeps is the one that works, or it ran out, while no call of
\* its family is under way, overlapped another or lost its reply.
THEOREM StoredLive ==
    ASSUME NoneIsNoId
    PROVE  Spec => []StoredIsLive
<1>1. ASSUME Rotated PROVE StoredIsLive
  <2> DEFINE f == FamilyOf(storage.refresh)
  <2> SUFFICES ASSUME storage.refresh # None, Under(f) = {}, f \notin contended \cup lost
               PROVE  Live(f) = {storage.refresh} \/ tok[storage.refresh].expired
      BY DEF StoredIsLive
  <2>1. storage.refresh \in Token /\ f \in Token
      BY <1>1 DEF Rotated, Kept, Held, Issued, FamilyOf, Rows, TokenRow
  <2>2. Healthy(f)
      BY <1>1, <2>1 DEF Rotated, Fit
  <2>3. Good(f, storage.refresh)
      BY <2>2 DEF Healthy
  <2> QED
      BY <2>3 DEF Good
<1> QED
    BY <1>1, RotatedInvariant, PTL

\* Signing out revokes one token, by its hash: that ends the family, unless a refresh
\* overlapped it or the tab had not heard of the last one.
THEOREM SignOutEnds ==
    ASSUME NoneIsNoId
    PROVE  Spec => [][SignOutEndsFamily]_vars
<1>1. ASSUME NoneIsNoId, Rotated, [Next]_vars, NEW h \in Handler,
             call[h].op = "logout", call[h].stage = "lookup", call'[h].stage = "done"
      PROVE  LET f == FamilyOf(call[h].token) IN f = None \/ f \in contended \cup lost \/ Live(f)' = {}
  <2>1. PICK t, f : t = call[h].token /\ f = FamilyOf(call[h].token)
      OBVIOUS
  <2>2. Kept /\ Staged(h) /\ call[h] \in Call
      BY <1>1, StagedHeld DEF Rotated
  <2> SUFFICES ASSUME f # None, f \notin contended \cup lost
               PROVE  (LET e == FamilyOf(call[h].token) IN Live(e)') = {}
      BY <2>1
  <2>3. t \in Token /\ t # None /\ tok[t].family = f /\ f \in Token
      BY <2>1, <2>2 DEF Staged, Held, Issued, FamilyOf, Kept, Rows, TokenRow
  <2>4. Live(f) \subseteq {t}
    <3>1. Healthy(f) /\ h \in Under(f)
        BY <1>1, <2>1, <2>3 DEF Rotated, Fit, Under
    <3> QED
        BY <1>1, <2>1, <3>1 DEF Healthy, Sound, Good
  <2>5. Logout(h)
    <3>1. CASE Closing
        BY <1>1, <3>1 DEF Closing, Leaves, Detached, Idle
    <3>2. CASE \E g \in Handler : Moving(g)
      <4>1. PICK g \in Handler : Moving(g)
          BY <3>2
      <4>2. g = h
          BY <1>1, <2>2, <4>1, MovingCall
      <4> QED
          BY <1>1, <4>1, <4>2 DEF Moving, Lookup, Reuse, Revoke, Insert, InsertFails, Link, Refreshing
    <3>3. CASE \E g \in Handler, op \in Purpose, x \in Tab : \E u : Opens(g, op, x, u)
        BY <1>1, <2>2, <3>3 DEF Opens, Begin, Idle, Kept, Rows
    <3> QED
        BY <1>1, <2>2, <3>1, <3>2, <3>3, StepSorts DEF Expire
  <2>6. tok' = [tok EXCEPT ![t].revoked = TRUE]
      BY <2>1, <2>3, <2>5 DEF Logout
  <2>7. tok'[t].revoked /\ \A u \in Token \ {t} : tok'[u] = tok[u]
      BY <2>2, <2>3, <2>6, RevokeOne DEF Kept, Rows
  <2>8. call'[h].token = t /\ tok'[t].family = f
    <3>1. Moving(h)
        BY <2>5 DEF Moving, Logout, Rest, history
    <3> QED
        BY <2>1, <2>2, <2>3, <3>1, MovingCall, MovingFirm DEF Firm
  <2>9. FamilyOf(call[h].token)' = f
      BY <2>3, <2>8 DEF FamilyOf
  <2> QED
      BY <2>4, <2>7, <2>9 DEF Live
<1>2. Rotated /\ [Next]_vars => [SignOutEndsFamily]_vars
    BY <1>1 DEF SignOutEndsFamily, FamilyOf
<1> QED
    BY <1>2, RotatedInvariant, PTL DEF Spec

-----------------------------------------------------------------------------
(* The tabs.  A tab that checks its session does nothing else: its only    *)
(* call is the one recovery, so nothing but the end of that one, or a      *)
(* reload, ends the check.                                                 *)

Typed ==
    /\ status \in [Tab -> AuthStatus] /\ req \in [Tab -> [Slot -> Answer]]
    /\ faults \in 0..MaxFaults /\ contended \subseteq Token /\ lost \subseteq Token

TabFit(x) ==
    /\ \A h \in Of(x, "recover") : status[x] = "recovering"
    /\ \A g, h \in Of(x, "recover") : g = h
    /\ status[x] \in Checking =>
         /\ \A s \in Slot : req[x][s] = "idle"
         /\ \A h \in Handler : call[h].tab = x => call[h].op = "recover"

Browsed == Rotated /\ Typed /\ \A x \in Tab : TabFit(x)

LEMMA ContinueTyped ==
    ASSUME Typed, NEW x \in Tab, NEW op \in Purpose, NEW n, Continue(x, op, n)
    PROVE  /\ status' \in [Tab -> AuthStatus] /\ req' \in [Tab -> [Slot -> Answer]]
           /\ \A y \in Tab \ {x} : status'[y] = status[y] /\ req'[y] = req[y]
           /\ op = "recover" => req' = req /\ status'[x] \in {Out, "revalidating"}
           /\ op # "recover" => status'[x] \in {status[x], Signed, Out}
<1> USE DEF Typed, Enter, AuthStatus, Checking, Signed, Out
<1>1. CASE op = "login"
    BY <1>1 DEF Continue
<1>2. CASE op = "logout"
    BY <1>2 DEF Continue
<1>3. CASE op = "recover"
    BY <1>3 DEF Continue
<1>4. CASE op = "share"
  <2>1. ASSUME NEW a \in Answer
        PROVE  req' = [req EXCEPT ![x] = [s \in Slot |-> IF req[x][s] = "waiting" THEN a ELSE req[x][s]]]
               => req' \in [Tab -> [Slot -> Answer]] /\ \A y \in Tab \ {x} : req'[y] = req[y]
      OBVIOUS
  <2>2. "idle" \in Answer /\ "resent" \in Answer
      BY DEF Answer
  <2>3. CASE n = None
      BY <1>4, <2>1, <2>2, <2>3 DEF Continue, GiveUp
  <2>4. CASE n # None
      BY <1>4, <2>1, <2>2, <2>4 DEF Continue
  <2> QED
      BY <2>3, <2>4
<1> QED
    BY <1>1, <1>2, <1>3, <1>4 DEF Purpose

\* Nothing of the tab changes but that calls may leave it.
LEMMA Quiet ==
    ASSUME NEW x \in Tab, TabFit(x), status'[x] = status[x],
           \A s \in Slot : req[x][s] = "idle" => req'[x][s] = "idle",
           \A h \in Handler : call'[h].tab = x => call[h].tab = x /\ call'[h].op = call[h].op
    PROVE  TabFit(x)'
BY DEF TabFit, Of

\* The tab is not checking its session.
LEMMA Settled ==
    ASSUME NEW x \in Tab, TabFit(x), status[x] \notin Checking, status'[x] \notin Checking,
           \A h \in Handler : call'[h].tab = x /\ call'[h].op = "recover" =>
              call[h].tab = x /\ call[h].op = "recover"
    PROVE  TabFit(x)'
BY DEF TabFit, Of, Checking

\* Calls that end or lose their tab.
LEMMA CallsLeave ==
    ASSUME NoneIsNoId, Closing, NEW x \in Tab, NEW h \in Handler, call'[h].tab = x
    PROVE  call[h].tab = x /\ call'[h] = call[h]
BY DEF Closing, Leaves, Detached, Idle, NoneIsNoId

\* A tab hears of the end of its call.
LEMMA EndTabs ==
    ASSUME NoneIsNoId, Browsed, NEW h \in Handler, call[h].tab # None, NEW n,
           Continue(call[h].tab, call[h].op, n), Closing, call'[h].tab = None, NEW x \in Tab
    PROVE  TabFit(x)'
<1>1. PICK y, op : y = call[h].tab /\ op = call[h].op
    OBVIOUS
<1>2. y \in Tab /\ op \in Purpose /\ Typed /\ TabFit(x) /\ Continue(y, op, n)
    BY <1>1, StagedHeld DEF Browsed, Rotated, Staged, Call
<1>3. /\ \A z \in Tab \ {y} : status'[z] = status[z] /\ req'[z] = req[z]
      /\ op = "recover" => req' = req /\ status'[y] \in {Out, "revalidating"}
      /\ op # "recover" => status'[y] \in {status[y], Signed, Out}
    BY <1>2, ContinueTyped
<1>4. \A g \in Handler : call'[g].tab = x => call[g].tab = x /\ call'[g] = call[g] /\ g # h
    BY CallsLeave DEF NoneIsNoId
<1>5. CASE x # y
    BY <1>2, <1>3, <1>4, <1>5, Quiet
<1>6. CASE x = y /\ op # "recover"
  <2>1. status[x] \notin Checking
      BY <1>1, <1>2, <1>6 DEF TabFit
  <2>2. status'[x] \notin Checking
      BY <1>3, <1>6, <2>1 DEF Checking, Signed, Out
  <2> QED
      BY <1>2, <1>4, <2>1, <2>2, Settled
<1>7. CASE x = y /\ op = "recover"
  <2>1. h \in Of(x, "recover") /\ status[x] = "recovering"
      BY <1>1, <1>2, <1>7 DEF TabFit, Of
  <2>2. \A g \in Handler : call'[g].tab # x
      BY <1>2, <1>4, <2>1 DEF TabFit, Of, Checking
  <2> QED
      BY <1>2, <1>3, <1>7, <2>1, <2>2 DEF TabFit, Of, Checking
<1> QED
    BY <1>5, <1>6, <1>7

\* A tab begins a call.
LEMMA BeginCall ==
    ASSUME Kept, NEW h \in Handler, NEW op, NEW x, NEW t, Begin(h, op, x, t)
    PROVE  /\ call'[h].op = op /\ call'[h].tab = x /\ \A g \in Handler \ {h} : call'[g] = call[g]
           /\ call[h] = Idle
BY DEF Begin, Kept, Rows

LEMMA ReturnTabs ==
    ASSUME NoneIsNoId, Browsed, NEW h \in Handler, Return(h) \/ Lose(h), NEW x \in Tab
    PROVE  TabFit(x)'
<1>1. Kept /\ call[h] \in Call /\ call[h].tab # None
    BY StagedHeld DEF Browsed, Rotated, Return, Lose
<1>2. Closing
    BY <1>1, ReturnCloses, LoseCloses
<1>3. CASE Return(h)
  <2>1. call'[h].tab = None
      BY <1>1, <1>3 DEF Return, Idle, Kept, Rows
  <2>2. PICK n : n = call[h].new
      OBVIOUS
  <2> QED
      BY <1>1, <1>2, <1>3, <2>1, <2>2, EndTabs DEF Return
<1>4. CASE Lose(h)
  <2>1. PICK goesOn \in BOOLEAN : call' = [call EXCEPT ![h] =
           IF goesOn THEN [call[h] EXCEPT !.tab = None] ELSE Idle]
      BY <1>4 DEF Lose
  <2>2. [call[h] EXCEPT !.tab = None].tab = None /\ Idle.tab = None
      BY <1>1 DEF Call, Idle
  <2>3. call'[h].tab = None
      BY <1>1, <2>1, <2>2 DEF Kept, Rows
  <2> QED
      BY <1>1, <1>2, <1>4, <2>3, EndTabs DEF Lose
<1> QED
    BY <1>3, <1>4

LEMMA StepTabs ==
    ASSUME NoneIsNoId, Browsed, [Next]_vars, NEW x \in Tab
    PROVE  TabFit(x)'
<1>1. Kept /\ Typed /\ TabFit(x) /\ \A h \in Handler : Staged(h) /\ call[h] \in Call
    BY StagedHeld DEF Browsed, Rotated
<1>2. ASSUME UNCHANGED <<status, req>>,
             \A h \in Handler : call'[h].tab = x => call[h].tab = x /\ call'[h].op = call[h].op
      PROVE  TabFit(x)'
    BY <1>1, <1>2, Quiet
<1>3. ASSUME NEW h \in Handler, Serve(h) PROVE TabFit(x)'
  <2>1. UNCHANGED <<status, req>>
      BY <1>3 DEF Serve, Lookup, Reuse, Revoke, Insert, InsertFails, Link, Logout, Unheard, Rest
  <2>2. CASE Unheard(h)
      BY <1>1, <1>2, <2>1, <2>2 DEF Unheard, Idle, Kept, Rows, NoneIsNoId
  <2>3. CASE Moving(h)
      BY <1>1, <1>2, <2>1, <2>3, MovingCall
  <2> QED
      BY <1>3, <2>2, <2>3
      DEF Serve, Moving, Lookup, Reuse, Revoke, Insert, InsertFails, Link, Logout, Rest, history
<1>4. ASSUME NEW y \in Tab, SignIn(y) \/ SignOut(y) PROVE TabFit(x)'
  <2>1. PICK h \in Handler, op \in {"login", "logout"}, t \in {None, storage.refresh} :
          Begin(h, op, y, t) /\ UNCHANGED <<status, req>> /\ status[y] \notin Checking
      BY <1>4 DEF SignIn, SignOut, Checking, Signed, Out
  <2>2. /\ call'[h].op = op /\ call'[h].tab = y /\ \A g \in Handler \ {h} : call'[g] = call[g]
        /\ call[h] = Idle
      BY <1>1, <2>1, BeginCall
  <2>3. CASE x = y
      BY <1>1, <2>1, <2>2, <2>3, Settled
  <2>4. CASE x # y
      BY <1>2, <2>1, <2>2, <2>4
  <2> QED
      BY <2>3, <2>4
<1>5. ASSUME NEW y \in Tab, NEW s \in Slot, Request(y, s) PROVE TabFit(x)'
  <2>1. UNCHANGED <<call, status>> /\ status[y] \notin Checking /\ (x # y => req'[x] = req[x])
      BY <1>1, <1>5 DEF Request, server, Checking, Signed, Typed
  <2> QED
      BY <1>1, <2>1, Settled, Quiet
<1>6. ASSUME NEW y \in Tab, Validated(y) \/ Unreachable(y) PROVE TabFit(x)'
  <2>1. /\ UNCHANGED <<call, req>> /\ status[y] \in {"validating", "revalidating"}
        /\ status' = [status EXCEPT ![y] = Signed]
      BY <1>6 DEF Validated, Unreachable, server, Enter
  <2>2. CASE x = y
      BY <1>1, <2>1, <2>2 DEF TabFit, Of, Checking, Signed, Typed
  <2>3. CASE x # y
      BY <1>1, <2>1, <2>3, Quiet DEF Typed
  <2> QED
      BY <2>2, <2>3
<1>7. ASSUME NEW y \in Tab, Invalid(y) PROVE TabFit(x)'
  <2>1. CASE status[y] = "validating" /\ storage.refresh # None
    <3>1. PICK h \in Handler : Begin(h, "recover", y, storage.refresh)
        BY <1>7, <2>1 DEF Invalid
    <3>2. /\ call'[h].op = "recover" /\ call'[h].tab = y /\ \A g \in Handler \ {h} : call'[g] = call[g]
          /\ req' = req /\ status' = [status EXCEPT ![y] = "recovering"]
        BY <1>1, <1>7, <2>1, <3>1, BeginCall DEF Invalid, Enter
    <3>3. CASE x = y
      <4>1. Of(x, "recover") = {} /\ status'[x] = "recovering"
          BY <1>1, <2>1, <3>2, <3>3 DEF TabFit, Typed
      <4>2. \A g \in Handler : call'[g].tab = x /\ call'[g].op = "recover" => g = h
          BY <3>2, <4>1 DEF Of
      <4> QED
          BY <1>1, <2>1, <3>2, <3>3, <4>1, <4>2 DEF TabFit, Of, Checking
    <3>4. CASE x # y
        BY <1>1, <3>2, <3>4, Quiet DEF Typed
    <3> QED
        BY <3>3, <3>4
  <2>2. CASE ~(status[y] = "validating" /\ storage.refresh # None)
    <3>1. /\ UNCHANGED <<call, req>> /\ status' = [status EXCEPT ![y] = Out]
          /\ status[y] \in {"validating", "revalidating"}
        BY <1>7, <2>2 DEF Invalid, server, Enter
    <3>2. CASE x = y
        BY <1>1, <3>1, <3>2 DEF TabFit, Of, Checking, Out, Typed
    <3>3. CASE x # y
        BY <1>1, <3>1, <3>3, Quiet DEF Typed
    <3> QED
        BY <3>2, <3>3
  <2> QED
      BY <2>1, <2>2
<1>8. ASSUME NEW y \in Tab, NEW s \in Slot, Respond(y, s) PROVE TabFit(x)'
  <2>1. status[y] \notin Checking \/ x # y
      BY <1>1, <1>8 DEF Respond, Answered, Refused, RefusedAgain, TabFit
  <2>2. CASE EndWith(y, s)
    <3>1. call' = call /\ status' = [status EXCEPT ![y] = Out] /\ (x # y => req'[x] = req[x])
        BY <1>1, <2>2 DEF EndWith, server, Enter, Typed
    <3>2. x = y => status'[x] \notin Checking
        BY <1>1, <3>1 DEF Typed, Out, Checking
    <3> QED
        BY <1>1, <2>1, <3>1, <3>2, Settled, Quiet DEF Typed
  <2>3. CASE Share(y, s)
    <3>1. PICK h \in Handler : Begin(h, "share", y, storage.refresh)
        BY <2>3 DEF Share
    <3>2. /\ call'[h].op = "share" /\ call'[h].tab = y /\ \A g \in Handler \ {h} : call'[g] = call[g]
          /\ status' = status /\ (x # y => req'[x] = req[x])
        BY <1>1, <2>3, <3>1, BeginCall DEF Share, Typed
    <3> QED
        BY <1>1, <2>1, <3>2, Settled, Quiet
  <2>4. CASE UNCHANGED <<call, status>> /\ \E a : req' = [req EXCEPT ![y][s] = a]
    <3>1. x # y => req'[x] = req[x]
        BY <1>1, <2>4 DEF Typed
    <3> QED
        BY <1>1, <2>1, <2>4, <3>1, Settled, Quiet
  <2> QED
      BY <1>8, <2>2, <2>3, <2>4 DEF Respond, Answered, Refused, RefusedAgain, server
<1>9. ASSUME NEW y \in Tab, Reload(y) PROVE TabFit(x)'
  <2>1. Closing
      BY <1>1, <1>9, ReloadCloses
  <2>2. \A g \in Handler : call'[g].tab = x => call[g].tab = x /\ call'[g] = call[g]
      BY <2>1, CallsLeave
  <2>3. CASE x = y
    <3>1. \A g \in Handler : call'[g].tab # x
      <4>1. SUFFICES ASSUME NEW g \in Handler, call'[g].tab = x PROVE FALSE
          OBVIOUS
      <4>2. call'[g] = [call[g] EXCEPT !.tab = None]
          BY <1>9, <2>2, <2>3, <4>1 DEF Reload
      <4> QED
          BY <1>1, <4>1, <4>2 DEF NoneIsNoId, Call
    <3>2. \A s \in Slot : req'[x][s] = "idle"
        BY <1>1, <1>9, <2>3 DEF Reload, Typed
    <3> QED
        BY <3>1, <3>2 DEF TabFit, Of
  <2>4. CASE x # y
      BY <1>1, <1>9, <2>2, <2>4, Quiet DEF Reload, Enter, Typed
  <2> QED
      BY <2>3, <2>4
<1>10. CASE AccessRunsOut
  <2>1. UNCHANGED <<call, status>> /\ \A s \in Slot : req[x][s] = "idle" => req'[x][s] = "idle"
      BY <1>1, <1>10 DEF AccessRunsOut, server, Typed
  <2> QED
      BY <1>1, <2>1, Quiet
<1>11. CASE UNCHANGED vars
    BY <1>2, <1>11 DEF vars, server
<1>12. CASE \E t \in Token : Expire(t)
    BY <1>2, <1>12 DEF Expire
<1> QED
    BY <1>3, <1>4, <1>5, <1>6, <1>7, <1>8, <1>9, <1>10, <1>11, <1>12, ReturnTabs DEF Next, Browse, Check

LEMMA TouchedToken ==
    ASSUME Kept, NEW h \in Handler PROVE Touched(h) \subseteq Token /\ FamilyOf(call[h].token) \in Token \cup {None}
BY StagedHeld DEF Touched, FamilyOf, Staged, Held, Issued, Kept, Rows, TokenRow

LEMMA StepTyped == ASSUME NoneIsNoId, FaultBound, Kept, Typed, Next PROVE Typed'
<1>1. \A h \in Handler : Staged(h) /\ call[h] \in Call
    BY StagedHeld
<1>2. \A h \in Handler : Touched(h) \subseteq Token /\ FamilyOf(call[h].token) \in Token \cup {None}
    BY TouchedToken
<1>3. storage.refresh # None => FamilyOf(storage.refresh) \in Token
    BY DEF FamilyOf, Kept, Held, Issued, Rows, TokenRow
<1>4. faults < MaxFaults /\ faults' = faults + 1 => faults' \in 0..MaxFaults
    BY DEF Typed, FaultBound
<1> USE DEF Typed, Enter, AuthStatus, Checking, Signed, Out, Answer
<1>5. ASSUME NEW h \in Handler, Serve(h) PROVE Typed'
  <2>1. UNCHANGED <<status, req, faults, contended>> /\ (~InsertFails(h) => lost' = lost)
      BY <1>5 DEF Serve, Lookup, Reuse, Revoke, Insert, InsertFails, Link, Logout, Unheard, Rest, history
  <2>2. InsertFails(h) => lost' \subseteq Token
      BY <1>2 DEF InsertFails
  <2> QED
      BY <2>1, <2>2
<1>6. ASSUME NEW h \in Handler, NEW op, NEW x, NEW t, Begin(h, op, x, t), t \in {None, storage.refresh}
      PROVE  contended' \subseteq Token /\ UNCHANGED <<faults, lost>>
  <2>1. t # None => FamilyOf(t) \in Token
      BY <1>3, <1>6
  <2> QED
      BY <1>6, <2>1 DEF Begin
<1>7. ASSUME NEW h \in Handler, Return(h) \/ Lose(h) PROVE Typed'
  <2>1. call[h].tab \in Tab /\ call[h].op \in Purpose
      BY <1>1, <1>7 DEF Return, Lose, Staged, Call
  <2>2. status' \in [Tab -> AuthStatus] /\ req' \in [Tab -> [Slot -> Answer]]
      BY <1>7, <2>1, ContinueTyped DEF Return, Lose
  <2> QED
      BY <1>2, <1>4, <1>7, <2>2 DEF Return, Lose, history
<1>8. ASSUME NEW x \in Tab, Browse(x) PROVE Typed'
  <2>1. CASE SignIn(x) \/ SignOut(x)
      BY <1>6, <2>1 DEF SignIn, SignOut
  <2>2. CASE \E s \in Slot : Request(x, s)
    <3>1. storage.access # None => storage.access \in Answer
        BY DEF Kept, Rows, Storage
    <3> QED
        BY <2>2, <3>1 DEF Request, history
  <2> QED
      BY <1>8, <2>1, <2>2 DEF Browse
<1>9. ASSUME NEW x \in Tab, Check(x) \/ Unreachable(x) PROVE Typed'
  <2>1. CASE Validated(x) \/ Unreachable(x)
      BY <1>4, <2>1 DEF Validated, Unreachable, history
  <2>2. CASE Invalid(x)
      BY <1>6, <2>2 DEF Invalid, history
  <2> QED
      BY <1>9, <2>1, <2>2 DEF Check
<1>10. ASSUME NEW x \in Tab, NEW s \in Slot, Respond(x, s) PROVE Typed'
  <2>1. CASE EndWith(x, s)
      BY <2>1 DEF EndWith, history
  <2>2. CASE Share(x, s)
      BY <1>6, <2>2 DEF Share
  <2>3. CASE UNCHANGED <<status, faults, history>> /\ \E a \in Answer : req' = [req EXCEPT ![x][s] = a]
      BY <2>3 DEF history
  <2> QED
      BY <1>10, <2>1, <2>2, <2>3 DEF Respond, Answered, Refused, RefusedAgain
<1>11. ASSUME NEW x \in Tab, Reload(x) PROVE Typed'
  <2>1. lost' \subseteq Token
      BY <1>2, <1>11 DEF Reload
  <2>2. status' \in [Tab -> AuthStatus] /\ req' \in [Tab -> [Slot -> Answer]]
      BY <1>11 DEF Reload
  <2> QED
      BY <1>4, <1>11, <2>1, <2>2 DEF Reload
<1>12. CASE AccessRunsOut
  <2>1. req' \in [Tab -> [Slot -> Answer]]
    <3>1. \A x \in Tab, s \in Slot : req[x][s] \in Answer
        OBVIOUS
    <3>2. \A x \in Tab, s \in Slot :
            (CASE req[x][s] = "fresh" -> "stale" [] req[x][s] = "resent" -> "refused" [] OTHER -> req[x][s])
            \in Answer
        BY <3>1
    <3> QED
        BY <1>12, <3>2 DEF AccessRunsOut
  <2> QED
      BY <1>12, <2>1 DEF AccessRunsOut, history
<1>13. CASE \E t \in Token : Expire(t)
    BY <1>4, <1>13 DEF Expire, history
<1> QED
    BY <1>5, <1>7, <1>8, <1>9, <1>10, <1>11, <1>12, <1>13 DEF Next

LEMMA InitBrowsed == ASSUME NoneIsNoId, FaultBound, Init PROVE Browsed
<1>1. Rotated
    BY InitRotated
<1>2. Typed /\ \A x \in Tab : TabFit(x)
    BY DEF Init, Typed, TabFit, Of, Idle, AuthStatus, Answer, Checking, Out, FaultBound, NoneIsNoId
<1> QED
    BY <1>1, <1>2 DEF Browsed

LEMMA StepBrowsed == ASSUME NoneIsNoId, FaultBound, Browsed, [Next]_vars PROVE Browsed'
<1>1. Rotated' /\ \A x \in Tab : TabFit(x)'
    BY StepRotated, StepTabs DEF Browsed
<1>2. Typed'
  <2>1. CASE UNCHANGED vars
      BY <2>1 DEF vars, history, Typed, Browsed
  <2> QED
      BY <2>1, StepTyped DEF Browsed, Rotated
<1> QED
    BY <1>1, <1>2 DEF Browsed

\* The invariant of the tabs, on top of that of the families.
THEOREM BrowsedInvariant ==
    ASSUME NoneIsNoId, FaultBound
    PROVE  Spec => []Browsed
<1>1. Init => Browsed
    BY InitBrowsed
<1>2. Browsed /\ [Next]_vars => Browsed'
    BY StepBrowsed
<1> QED
    BY <1>1, <1>2, PTL DEF Spec

\* Tokens, calls and tabs are what the code declares them to be.
THEOREM SessionsTyped ==
    ASSUME NoneIsNoId, FaultBound
    PROVE  Spec => []TypeOK
<1>1. Browsed => TypeOK
    BY DEF Browsed, Rotated, Kept, Rows, Typed, TypeOK
<1> QED
    BY <1>1, BrowsedInvariant, PTL

\* A refresh that was refused was hopeless.
LEMMA RefusedHopeless ==
    ASSUME NoneIsNoId, Rotated, NEW h \in Handler, Refreshing(h), call[h].stage \in {"done", "refused"},
           call[h].new = None
    PROVE  Hopeless(h)
<1>1. /\ Kept /\ Formed(h) /\ Staged(h) /\ call[h].token \in Token /\ call[h].token # None
      /\ FamilyOf(call[h].token) \in Token
    BY StagedHeld DEF Rotated, Staged, FamilyOf
<1>2. call[h].stage = "refused"
    BY <1>1 DEF Formed
<1>3. PICK f : f = FamilyOf(call[h].token)
    OBVIOUS
<1>4. CASE f \notin contended \cup lost
  <2>1. Sound(f, h)
      BY <1>1, <1>3, <1>4 DEF Rotated, Fit, Healthy, Under
  <2> QED
      BY <1>2, <2>1 DEF Sound, Hopeless
<1> QED
    BY <1>3, <1>4 DEF Hopeless

LEMMA StepSignedIn ==
    ASSUME NoneIsNoId, Browsed, [Next]_vars, NEW x \in Tab, status[x] = Signed, status'[x] = Out
    PROVE  \/ Of(x, "logout") # {} \/ storage.refresh = None
           \/ \E h \in Of(x, "share") : Hopeless(h)
           \/ \E s \in Slot : req[x][s] = "refused"
           \/ faults' > faults
<1>1. Rotated /\ Kept /\ Typed /\ TabFit(x) /\ \A h \in Handler : Staged(h) /\ call[h] \in Call
    BY StagedHeld DEF Browsed, Rotated
<1>2. status'[x] # status[x] /\ status[x] # Out
    BY DEF Signed, Out
<1>3. ASSUME faults < MaxFaults /\ faults' = faults + 1 PROVE faults' > faults
    BY <1>1, <1>3 DEF Typed
<1>4. ASSUME NEW h \in Handler, Return(h)
      PROVE  Of(x, "logout") # {} \/ \E g \in Of(x, "share") : Hopeless(g)
  <2>1. PICK y, op, n : y = call[h].tab /\ op = call[h].op /\ n = call[h].new
      OBVIOUS
  <2>2. y \in Tab /\ op \in Purpose /\ Continue(y, op, n) /\ call[h].stage \in {"done", "refused"}
      BY <1>1, <1>4, <2>1 DEF Return, Staged, Call
  <2>3. x = y
      BY <1>1, <1>2, <2>2, ContinueTyped
  <2>4. CASE op = "login"
      BY <1>1, <1>2, <2>2, <2>3, <2>4 DEF Continue, Enter, Typed, Signed, Out
  <2>5. CASE op = "logout"
      BY <2>1, <2>3, <2>5 DEF Of
  <2>6. CASE op = "recover"
      BY <1>1, <2>1, <2>3, <2>6 DEF TabFit, Of, Signed
  <2>7. CASE op = "share"
    <3>1. n = None
        BY <1>2, <2>2, <2>7 DEF Continue
    <3>2. Hopeless(h)
        BY <1>1, <2>1, <2>2, <2>7, <3>1, RefusedHopeless DEF Refreshing
    <3> QED
        BY <2>1, <2>3, <2>7, <3>2 DEF Of
  <2> QED
      BY <2>2, <2>4, <2>5, <2>6, <2>7 DEF Purpose
<1>5. ASSUME NEW y \in Tab, NEW s \in Slot, Respond(y, s)
      PROVE  storage.refresh = None \/ \E r \in Slot : req[x][r] = "refused"
  <2>1. ASSUME EndWith(y, s) PROVE x = y
      BY <1>1, <1>2, <2>1 DEF EndWith, Enter, Typed
  <2> QED
      BY <1>2, <1>5, <2>1 DEF Respond, Answered, Refused, RefusedAgain, Share
<1>6. ASSUME NEW y \in Tab, Check(y) PROVE FALSE
    BY <1>1, <1>2, <1>6 DEF Check, Validated, Invalid, Enter, Typed, Signed, Out
<1>7. \A h \in Handler : ~Serve(h)
    BY <1>2 DEF Serve, Lookup, Reuse, Revoke, Insert, InsertFails, Link, Logout, Unheard, Rest
<1>8. \A y \in Tab : ~Browse(y)
    BY <1>2 DEF Browse, SignIn, SignOut, Request
<1>9. (\E h \in Handler : Lose(h)) \/ (\E y \in Tab : Reload(y) \/ Unreachable(y)) => faults' > faults
    BY <1>3 DEF Lose, Reload, Unreachable
<1>10. ~AccessRunsOut /\ (\A t \in Token : ~Expire(t)) /\ ~UNCHANGED vars
    BY <1>2 DEF AccessRunsOut, Expire, vars
<1> QED
    BY <1>4, <1>5, <1>6, <1>7, <1>8, <1>9, <1>10 DEF Next

\* A tab is signed out by its user, or because its session is over: a request that is merely
\* refused never does it (client.ts, request).
THEOREM StaysSignedIn ==
    ASSUME NoneIsNoId, FaultBound
    PROVE  Spec => [][SignedInStays]_vars
<1>1. NoneIsNoId /\ Browsed /\ [Next]_vars => [SignedInStays]_vars
    BY StepSignedIn DEF SignedInStays
<1> QED
    BY <1>1, BrowsedInvariant, PTL DEF Spec
=============================================================================
