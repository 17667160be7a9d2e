---------------------------- MODULE ThreadProofs ----------------------------
(***************************************************************************)
(* Proofs about one conversation: the page, whatever its calls and reads   *)
(* do, in whatever order and however often they are lost; and the branches *)
(* behind it, for any number of messages, branches and edits.              *)
(*                                                                         *)
(* What the page is about to do depends on what is still on its way to it, *)
(* so the invariant IInv says of every call and every read what it may     *)
(* bring (Shown, CallsShaped), which key it holds (the part on keys), what *)
(* the page waits for it with (Locked), and which answer the snapshot may  *)
(* still lack (HeardShape).  Most steps change little of that: Steps sorts *)
(* them by what they do to the requests, the calls and the screen, and     *)
(* each part of IInv is shown to survive each kind.                        *)
(*                                                                         *)
(* Of the branches, the thread that the messages route returns, walking    *)
(* from the active branch to the first, is the one the page of that branch *)
(* should show, the context window and the exclusions of regenerate        *)
(* included.  They form a tree (Rooted, Grounded) in which messages have   *)
(* their place (Placed, Numbered, Topped, Attached) and the answers theirs *)
(* (Counted, Worked, Remembered), so that the cuts grow along a chain from *)
(* the first branch.  A chain is the least set closed under leaving a      *)
(* branch for its parent, which serves where the walk would be recursive.  *)
(***************************************************************************)
EXTENDS ThreadPage, FiniteSetTheorems, WellFoundedInduction, TLAPS

CONSTANTS Branch, RequestId, AnswerId, Primary, Handler, HistoryLimit   \* BranchHistory

VARIABLES branch, active, req, ans, task

His == INSTANCE BranchHistory

Types == NoneIsNothing /\ TypeOK

-----------------------------------------------------------------------------
(* What is read and shown *)

\* One list of requests was read before another.
Past(old, new) ==
    /\ NotOlder(old, new)
    /\ \A n \in DOMAIN old : new[n].intent = old[n].intent /\ new[n].question = old[n].question

\* A list shows an attempt of a request.
Covers(list, request, attempt) ==
    request \in DOMAIN list /\ attempt \in DOMAIN list[request].attempts

\* The reads on their way, the calls with a key, and those the page has not done with.
InFlight == {f \in Fetch : fetches[f] # None}
KeptCalls == {m \in Live : calls[m].kind \in Kept}
Ending(m) == calls[m].client # "done"

\* An intent some request came from.
Stored(i) == \E c \in Conversation : \E n \in DOMAIN asked[c] : asked[c][n].intent = i

\* The snapshot, and whatever a read or a call brings, is the conversation as it was at
\* some time.
Shown ==
    /\ page = None => thread = "none"
    /\ snap # None => snap \in Requests /\ page \in Conversation /\ Past(snap, asked[page])
    /\ thread = "success" => snap \in Requests /\ page \in Conversation /\ Past(snap, asked[page])
    /\ \A f \in InFlight : Past(fetches[f].data, asked[fetches[f].conv])
    /\ \A m \in Live : Past(calls[m].data, asked[calls[m].conv])

\* The latest read is no older than the snapshot.
Newest ==
    \A f \in InFlight :
        f = latest /\ fetches[f].conv = page /\ fetches[f].stage = "read" /\ ~fetches[f].crossed /\ snap # None
            => NotOlder(snap, fetches[f].data)

\* A slot of the conversation: its branch may be any.
SlotOf(slot, c, kind, n, q) ==
    slot \in Slot /\ slot[1] = c /\ slot[3] = kind /\ slot[4] = n /\ slot[5] = q

\* What a call is about, and what its answer stands for.
CallShape(call) ==
    /\ call.kind \in Kept => /\ call.question \in Question /\ call.intent \in Intent /\ call.key \in Key
                             /\ SlotOf(call.slot, call.conv, call.kind, call.target, call.question)
    /\ call.kind \notin Kept => call.key = None /\ call.slot = None
    /\ call.kind \in {"edit", "retry", "regenerate"} => call.target \in DOMAIN asked[call.conv]
    /\ call.kind \in {"retry", "regenerate"} /\ call.server = "onway" => call.request = call.target
    /\ call.server = "generating" => call.kind \in Asking /\ Covers(asked[call.conv], call.request, call.attempt)
    /\ call.server = "answered" => call.result \in {"ok", "failed", "refused"}
    /\ call.client = "waiting" => call.kind # "refresh" /\ call.told = None
    /\ call.kind \in Asking /\ call.server = "answered" /\ call.result \in {"ok", "failed"}
         => Covers(asked[call.conv], call.request, call.attempt)
    /\ call.kind \in Kept /\ (\/ call.server = "generating"
                               \/ (call.server = "answered" /\ call.result \in {"ok", "failed"}))
         => asked[call.conv][call.request].question = call.question
    /\ call.client = "refreshing" => /\ call.told \in {"ok", "failed", "refused", "lost"}
                                     /\ call.kind \in Asking \cup {"feedback", "refresh"}
                                     /\ call.kind \in {"feedback", "refresh"} => call.told = "ok"
    /\ call.client = "refreshing" /\ call.told = "failed" /\ call.kind \in Asking
         => /\ call.request \in DOMAIN asked[call.conv] /\ call.server = "done"
            /\ call.kind \in Kept => asked[call.conv][call.request].question = call.question

-----------------------------------------------------------------------------
(* Keys *)

\* The page keeps one key for what it may send again.
OneKeyPerSlot == \A k, l \in Key : keys[k] # None /\ keys[k] = keys[l] => k = l

\* The key of a call is kept for what the call asks, if for anything.
KeysOfCalls ==
    /\ \A m \in KeptCalls : keys[calls[m].key] \in {None, calls[m].slot}
    /\ \A m, w \in KeptCalls : calls[m].key = calls[w].key => calls[m].slot = calls[w].slot

\* A key that is claimed stands for a request with the question it is kept for.
ClaimsHold ==
    \A k \in Key : claims[k] # None =>
        /\ claims[k].request \in DOMAIN asked[claims[k].conv]
        /\ keys[k] # None => /\ keys[k][1] = claims[k].conv
                             /\ keys[k][5] = asked[claims[k].conv][claims[k].request].question
        /\ \A m \in KeptCalls : calls[m].key = k =>
              /\ calls[m].conv = claims[k].conv
              /\ calls[m].question = asked[claims[k].conv][claims[k].request].question

\* The calls for an intent have one key, which is claimed once the intent is stored, and
\* which the page keeps while one of them can still fail.
SameKey ==
    \A m, w \in KeptCalls :
        calls[m].intent = calls[w].intent /\ calls[m].intent \notin strayed => calls[m].key = calls[w].key

StoredClaimed ==
    \A m \in KeptCalls : Stored(calls[m].intent) /\ calls[m].intent \notin strayed => claims[calls[m].key] # None

KeyHeld ==
    \A m \in KeptCalls :
        Ending(m) /\ calls[m].told # "ok" /\ calls[m].intent \notin strayed => keys[calls[m].key] = calls[m].slot

\* Two calls that are not over ask for different things.
OneTry ==
    \A m, w \in KeptCalls :
        m # w /\ Ending(m) /\ Ending(w) /\ calls[m].slot = calls[w].slot => calls[m].intent \in strayed

\* The failed operation belongs to the conversation that is open.
ErrorShape ==
    op.status = "error" =>
        /\ page \in Conversation
        /\ op.kind \in Kept => /\ op.question \in Question /\ op.intent \in Intent
                               /\ SlotOf(op.slot, page, op.kind, op.target, op.question)
        /\ op.kind = "edit" => op.target \in DOMAIN asked[page]
        /\ op.request # None => op.request \in DOMAIN asked[page]

\* What was sent with an unknown outcome is tried again with the key it had.
Retryable ==
    op.status = "error" /\ op.kind \in Kept /\ op.request = None /\ op.unknown /\ op.intent \notin strayed =>
        /\ \E k \in Key :
              /\ keys[k] = op.slot
              /\ \A m \in KeptCalls : calls[m].intent = op.intent => calls[m].key = k
              /\ Stored(op.intent) => claims[k] # None
        /\ \A m \in KeptCalls : Ending(m) => calls[m].slot # op.slot

-----------------------------------------------------------------------------
(* One operation at a time *)

\* The page awaits only calls of conversations it has shown, and refreshes the open one.
Away ==
    /\ page = None => \A m \in Live : ~Ending(m)
    /\ \A m \in Live : /\ Ending(m) => calls[m].conv \in visited \cup {page}
                       /\ calls[m].client = "refreshing" => calls[m].conv = page

WaitingHere(m) == calls[m].client = "waiting" /\ calls[m].conv = page
BusyHere(m) == WaitingHere(m) \/ (calls[m].client = "refreshing" /\ calls[m].kind # "refresh")

\* One operation at a time has the controls, and they are locked for it.
Locked ==
    page \notin visited =>
        /\ \A m, w \in Live : BusyHere(m) /\ BusyHere(w) => m = w
        /\ \A m \in Live : WaitingHere(m) =>
              IF calls[m].kind \in Settings \cup {"feedback"} THEN calls[m].kind \in busy
              ELSE op.status = "pending"

\* The snapshot shows what the page heard last, or a refresh that will show it is owed.
HeardShape ==
    /\ heard # None => page \in Conversation /\ Covers(asked[page], heard.request, heard.attempt)
    /\ \A f \in InFlight : heard # None /\ f = latest /\ fetches[f].conv = page /\ fetches[f].stage = "read"
          => Covers(fetches[f].data, heard.request, heard.attempt)
    /\ page \notin visited /\ heard # None =>
          \/ snap \in Requests /\ Covers(snap, heard.request, heard.attempt)
          \/ required
          \/ \E m \in Waiting : calls[m].kind \in Asking
    /\ page \notin visited /\ heard # None =>
          \A m \in Live : /\ WaitingHere(m) /\ calls[m].kind = "branch"
                          /\ calls[m].server = "answered" /\ calls[m].result = "ok"
              => Covers(calls[m].data, heard.request, heard.attempt)

\* The input box is empty or holds what is being sent.
DraftShape ==
    page \notin visited =>
        /\ \A m \in Live : BusyHere(m) /\ calls[m].kind = "send" => draft \in {None, calls[m].question}
        /\ op.status = "error" /\ op.kind = "send" =>
              /\ draft \in {None, op.question}
              /\ op.request # None => draft = None

\* Every call has its shape.
CallsShaped == \A m \in Live : CallShape(calls[m])

-----------------------------------------------------------------------------
(* Requests *)

\* The requests of a conversation only grow.
Grows == \A c \in Conversation : Past(asked[c], asked'[c])

LEMMA AgeProp ==
    ASSUME NEW r \in Request
    PROVE  /\ Len(r.attempts) \in Nat \ {0} /\ Latest(r) \in Status
           /\ Age(r) \in Nat
           /\ Age(r) \in {2 * Len(r.attempts), 2 * Len(r.attempts) - 1}
BY DEF Request, Status, Age, Latest, Last

LEMMA PastRefl ==
    ASSUME NEW s \in Requests
    PROVE  Past(s, s)
BY AgeProp DEF Past, NotOlder, Requests

LEMMA NotOlderTrans ==
    ASSUME NEW s \in Requests, NEW t \in Requests, NEW u \in Requests, NotOlder(s, t), NotOlder(t, u)
    PROVE  NotOlder(s, u)
<1>1. DOMAIN s \subseteq DOMAIN t /\ DOMAIN t \subseteq DOMAIN u /\ Len(s) \in Nat /\ Len(t) \in Nat /\ Len(u) \in Nat
  BY DEF NotOlder, Requests
<1>2. ASSUME NEW n \in DOMAIN s
      PROVE  Age(s[n]) <= Age(u[n])
  <2>1. s[n] \in Request /\ t[n] \in Request /\ u[n] \in Request
    BY <1>1 DEF Requests
  <2> QED BY <1>1, <2>1, AgeProp DEF NotOlder
<1> QED BY <1>1, <1>2 DEF NotOlder

LEMMA PastTrans ==
    ASSUME NEW s \in Requests, NEW t \in Requests, NEW u \in Requests, Past(s, t), Past(t, u)
    PROVE  Past(s, u)
<1>1. DOMAIN s \subseteq DOMAIN t
  BY DEF Past, NotOlder, Requests
<1> QED BY <1>1, NotOlderTrans DEF Past

LEMMA PastEmpty ==
    ASSUME NEW s \in Requests
    PROVE  Past(<<>>, s) /\ <<>> \in Requests
BY DEF Past, NotOlder, Requests

LEMMA PastDomain ==
    ASSUME NEW s \in Requests, NEW t \in Requests, Past(s, t)
    PROVE  DOMAIN s \subseteq DOMAIN t
BY DEF Past, NotOlder, Requests

LEMMA CoversOn ==
    ASSUME NEW s \in Requests, NEW t \in Requests, NotOlder(s, t), NEW n, NEW k, Covers(s, n, k)
    PROVE  Covers(t, n, k)
<1>1. n \in DOMAIN t /\ s[n] \in Request /\ t[n] \in Request
  BY DEF NotOlder, Requests, Covers
<1>2. Age(s[n]) <= Age(t[n])
  BY DEF NotOlder, Covers
<1>3. Len(s[n].attempts) <= Len(t[n].attempts)
  BY <1>1, <1>2, AgeProp
<1> QED BY <1>1, <1>3 DEF Covers, Request

\* What the server does to the requests of a conversation.
LEMMA Appended ==
    ASSUME NEW s \in Requests, NEW r \in Request
    PROVE  /\ Append(s, r) \in Requests /\ Past(s, Append(s, r))
           /\ Len(Append(s, r)) = Len(s) + 1 /\ Append(s, r)[Len(s) + 1] = r
           /\ DOMAIN Append(s, r) = 1 .. (Len(s) + 1)
           /\ \A n \in DOMAIN s : n \in DOMAIN Append(s, r) /\ Append(s, r)[n] = s[n]
<1>1. /\ Append(s, r) \in Requests /\ Len(Append(s, r)) = Len(s) + 1 /\ Append(s, r)[Len(s) + 1] = r
      /\ DOMAIN Append(s, r) = 1 .. (Len(s) + 1) /\ Len(s) \in Nat
      /\ \A n \in DOMAIN s : n \in DOMAIN Append(s, r) /\ Append(s, r)[n] = s[n]
  BY DEF Requests
<1>2. \A n \in DOMAIN s : Age(s[n]) <= Age(s[n])
  BY AgeProp DEF Requests
<1> QED BY <1>1, <1>2 DEF Past, NotOlder

LEMMA Begins ==
    ASSUME NEW s \in Requests, NEW n \in DOMAIN s
    PROVE  LET t == [s EXCEPT ![n].attempts = Append(@, "PROCESSING")]
           IN  /\ t \in Requests /\ Past(s, t) /\ DOMAIN t = DOMAIN s
               /\ Covers(t, n, Len(s[n].attempts) + 1)
               /\ \A k \in DOMAIN s : t[k].intent = s[k].intent /\ t[k].question = s[k].question
<1> DEFINE r == [s[n] EXCEPT !.attempts = Append(@, "PROCESSING")]
           t == [s EXCEPT ![n].attempts = Append(@, "PROCESSING")]
<1>0. s[n] \in Request /\ n \in 1 .. Len(s) /\ Len(s) \in Nat
  BY DEF Requests
<1>1. t = [s EXCEPT ![n] = r]
  OBVIOUS
<1> HIDE DEF t
<1>2. /\ r.intent = s[n].intent /\ r.question = s[n].question /\ r.edited = s[n].edited
      /\ r.attempts = Append(s[n].attempts, "PROCESSING")
      /\ r = [question |-> s[n].question, intent |-> s[n].intent, edited |-> s[n].edited,
              attempts |-> r.attempts]
  <2> DEFINE q == Append(s[n].attempts, "PROCESSING")
  <2>1. r = [s[n] EXCEPT !.attempts = q]
    OBVIOUS
  <2> HIDE DEF q, r
  <2>2. /\ r.intent = s[n].intent /\ r.question = s[n].question /\ r.edited = s[n].edited /\ r.attempts = q
        /\ r = [question |-> s[n].question, intent |-> s[n].intent, edited |-> s[n].edited,
              attempts |-> r.attempts]
    BY <1>0, <2>1 DEF Request
  <2> QED BY <2>2 DEF q
<1>a. s[n].attempts \in Seq(Status) /\ "PROCESSING" \in Status /\ Len(s[n].attempts) \in Nat \ {0}
  BY <1>0, AgeProp DEF Request, Status
<1> HIDE DEF r
<1>3. /\ Len(r.attempts) = Len(s[n].attempts) + 1 /\ DOMAIN r.attempts = 1 .. (Len(s[n].attempts) + 1)
      /\ r.attempts \in Seq(Status) \ {<<>>}
  BY <1>a, <1>2
<1>b. r \in Request
  BY <1>0, <1>2, <1>3 DEF Request
<1>4. Age(s[n]) <= Age(r)
  BY <1>0, <1>a, <1>b, <1>3, AgeProp
<1>5. /\ t \in Requests /\ Len(t) = Len(s) /\ DOMAIN t = DOMAIN s
      /\ t[n] = r /\ \A k \in DOMAIN s : k # n => t[k] = s[k]
  BY <1>1, <1>b DEF Requests
<1>6. ASSUME NEW k \in DOMAIN s
      PROVE  Age(s[k]) <= Age(t[k])
  <2>1. Age(s[k]) \in Nat
    BY AgeProp DEF Requests
  <2> QED BY <2>1, <1>4, <1>5
<1>8. Len(s[n].attempts) + 1 \in DOMAIN r.attempts
  BY <1>0, <1>3, AgeProp
<1>7. Past(s, t) /\ Covers(t, n, Len(s[n].attempts) + 1)
  BY <1>0, <1>2, <1>5, <1>6, <1>8 DEF Past, NotOlder, Covers
<1>9. \A k \in DOMAIN s : t[k].intent = s[k].intent /\ t[k].question = s[k].question
  BY <1>2, <1>5
<1> QED BY <1>5, <1>7, <1>9 DEF t

\* An attempt ends.
Close(s, n, k, status) == [s EXCEPT ![n].attempts[k] = status]

LEMMA Ends ==
    ASSUME NEW s \in Requests, NEW n \in DOMAIN s, NEW k \in DOMAIN s[n].attempts,
           NEW status \in {"COMPLETED", "FAILED"}
    PROVE  LET t == Close(s, n, k, status)
           IN  /\ t \in Requests /\ Past(s, t) /\ DOMAIN t = DOMAIN s
               /\ \A j \in DOMAIN s : /\ t[j].intent = s[j].intent /\ t[j].question = s[j].question
                                     /\ DOMAIN t[j].attempts = DOMAIN s[j].attempts
<1> DEFINE r == [s[n] EXCEPT !.attempts[k] = status]
           t == [s EXCEPT ![n].attempts[k] = status]
<1>0. s[n] \in Request /\ n \in 1 .. Len(s) /\ Len(s) \in Nat
  BY DEF Requests
<1>1. t = [s EXCEPT ![n] = r]
  OBVIOUS
<1> HIDE DEF t
<1>2. /\ r.intent = s[n].intent /\ r.question = s[n].question /\ r.edited = s[n].edited
      /\ r.attempts = [s[n].attempts EXCEPT ![k] = status]
      /\ r = [question |-> s[n].question, intent |-> s[n].intent, edited |-> s[n].edited,
              attempts |-> r.attempts]
  BY <1>0 DEF Request
<1>3. /\ r.attempts \in Seq(Status) \ {<<>>} /\ Len(r.attempts) = Len(s[n].attempts)
      /\ DOMAIN r.attempts = DOMAIN s[n].attempts
  BY <1>0, <1>2 DEF Request, Status
<1>3a. r \in Request
  BY <1>0, <1>2, <1>3 DEF Request
<1>4. Age(s[n]) <= Age(r)
  <2>1. Latest(r) = "PROCESSING" => Latest(s[n]) = "PROCESSING"
    BY <1>0, <1>2, <1>3 DEF Latest, Last, Request, Status
  <2>2. Len(s[n].attempts) \in Nat /\ Len(r.attempts) = Len(s[n].attempts)
    BY <1>3, <1>0, AgeProp
  <2> QED BY <2>1, <2>2 DEF Age
<1> HIDE DEF r
<1>5. /\ t \in Requests /\ Len(t) = Len(s) /\ DOMAIN t = DOMAIN s
      /\ t[n] = r /\ \A j \in DOMAIN s : j # n => t[j] = s[j]
  BY <1>1, <1>3a DEF Requests
<1>6. ASSUME NEW j \in DOMAIN s
      PROVE  Age(s[j]) <= Age(t[j])
  <2>1. Age(s[j]) \in Nat
    BY AgeProp DEF Requests
  <2> QED BY <2>1, <1>4, <1>5
<1>7. Past(s, t)
  BY <1>0, <1>2, <1>5, <1>6 DEF Past, NotOlder
<1>9. \A j \in DOMAIN s : /\ t[j].intent = s[j].intent /\ t[j].question = s[j].question
                          /\ DOMAIN t[j].attempts = DOMAIN s[j].attempts
  BY <1>2, <1>3, <1>5
<1> QED BY <1>5, <1>7, <1>9 DEF t, Close

-----------------------------------------------------------------------------
(* Calls, rows and keys *)

LEMMA BranchProp ==
    ASSUME NEW s \in Requests
    PROVE  BranchOf(s) \in Nat
<1>1. IsFiniteSet(1 .. Len(s)) /\ DOMAIN s = 1 .. Len(s)
  BY FS_Interval DEF Requests
<1> QED BY <1>1, FS_Subset, FS_CardinalityType DEF BranchOf

LEMMA FirstProp ==
    ASSUME NEW hits \in SUBSET Nat
    PROVE  /\ First(hits) = None \/ First(hits) \in hits
           /\ hits # {} => First(hits) \in hits
<1>1. ASSUME hits # {}
      PROVE  \E n \in hits : \A k \in hits : n <= k
  <2>1. \E n \in hits : \A k \in hits : ~(<<k, n>> \in OpToRel(<, Nat))
    BY <1>1, WFMin, NatLessThanWellFounded
  <2>2. \A n, k \in hits : ~(<<k, n>> \in OpToRel(<, Nat)) => n <= k
    BY DEF OpToRel
  <2> QED BY <2>1, <2>2
<1> QED BY <1>1 DEF First

\* Every call keeps what it is about, and no call comes up.
Alike(new, old) ==
    /\ new.conv = old.conv /\ new.kind = old.kind /\ new.question = old.question
    /\ new.intent = old.intent /\ new.slot = old.slot /\ new.key = old.key /\ new.target = old.target

LEMMA ForgetRow ==
    ASSUME NEW m, NEW call \in CallRow
    PROVE  \/ Forget(m, call) = None
           \/ /\ Forget(m, call) \in CallRow /\ Forget(m, call).client = "done"
              /\ Forget(m, call) = [call EXCEPT !.client = "done"]
              /\ Alike(Forget(m, call), call) /\ call.server # "done"
BY DEF Forget, CallRow, Alike

LEMMA SlotType ==
    ASSUME NEW kind \in Kept, NEW q \in Question, NEW n \in Index, page \in Conversation, snap \in Requests
    PROVE  SlotOf(SlotFor(kind, q, n), page, kind, n, q)
BY BranchProp DEF SlotFor, SlotOf, Slot, Index

LEMMA TakeType ==
    ASSUME Types, NEW slot \in Slot, TakeKey(slot)
    PROVE  /\ keys' \in [Key -> Slot \cup {None}]
           /\ \E k \in Key : keys'[k] = slot
           /\ (CHOOSE k \in Key : keys'[k] = slot) \in Key
           /\ keys'[CHOOSE k \in Key : keys'[k] = slot] = slot
<1>1. keys' \in [Key -> Slot \cup {None}] /\ \E k \in Key : keys'[k] = slot
  BY DEF TakeKey, Types, TypeOK
<1> QED BY <1>1

LEMMA TypesStart ==
    ASSUME Types, NEW f \in Fetch, NEW c \in Conversation, NEW loading \in BOOLEAN, StartFetch(f, c, loading)
    PROVE  fetches' \in [Fetch -> FetchRow \cup {None}] /\ latest' \in Fetch \cup {None}
<1>1. <<>> \in Requests
  BY DEF Requests
<1> QED BY <1>1 DEF Types, TypeOK, StartFetch, FetchRow

LEMMA IssuedRow ==
    ASSUME Types, page \in Conversation, snap \in Requests, NEW m \in Call, NEW kind \in Kind \ {"refresh"},
           NEW q \in Question \cup {None}, NEW i \in Intent \cup {None}, NEW n \in Index,
           kind \in Kept => /\ q \in Question
                            /\ (CHOOSE k \in Key : keys'[k] = SlotFor(kind, q, n)) \in Key,
           Issue(m, kind, q, i, n)
    PROVE  /\ calls' = [calls EXCEPT ![m] = calls'[m]] /\ calls'[m] \in CallRow
           /\ calls'[m].conv = page /\ calls'[m].kind = kind /\ calls'[m].question = q
           /\ calls'[m].intent = i /\ calls'[m].target = n /\ calls'[m].request = n
           /\ calls'[m].slot = (IF kind \in Kept THEN SlotFor(kind, q, n) ELSE None)
           /\ calls'[m].key = (IF kind \in Kept THEN CHOOSE k \in Key : keys'[k] = SlotFor(kind, q, n) ELSE None)
           /\ calls'[m].server = "onway" /\ calls'[m].client = "waiting" /\ calls'[m].told = None
           /\ calls'[m].data = <<>>
           /\ calls[m] = None /\ latest' = None
           /\ op' = IF kind \in Settings \cup {"feedback"} THEN op ELSE Pending(kind)
           /\ busy' = IF kind \in Settings \cup {"feedback"} THEN {kind} ELSE busy
<1>1. <<>> \in Requests
  BY DEF Requests
<1>2. kind \in Kept => SlotFor(kind, q, n) \in Slot
  BY SlotType DEF SlotOf
<1> DEFINE slot == IF kind \in Kept THEN SlotFor(kind, q, n) ELSE None
           key == IF kind \in Kept THEN CHOOSE k \in Key : keys'[k] = SlotFor(kind, q, n) ELSE None
           r == [conv |-> page, kind |-> kind, question |-> q, intent |-> i, slot |-> slot, key |-> key,
                    target |-> n, request |-> n, attempt |-> None, server |-> "onway",
                    result |-> None, data |-> <<>>, client |-> "waiting", told |-> None]
<1>3. calls' = [calls EXCEPT ![m] = r]
  BY DEF Issue
<1>a. slot \in Slot \cup {None} /\ key \in Key \cup {None}
  BY <1>2
<1> HIDE DEF slot, key
<1>4. r \in CallRow
  <2> DEFINE e == <<>>
  <2>1. e \in Requests /\ None \in Index /\ kind \in Kind
    BY <1>1 DEF Index
  <2> HIDE DEF e
  <2>2. [conv |-> page, kind |-> kind, question |-> q, intent |-> i, slot |-> slot, key |-> key,
                    target |-> n, request |-> n, attempt |-> None, server |-> "onway",
                    result |-> None, data |-> e, client |-> "waiting", told |-> None] \in CallRow
    BY <2>1, <1>a DEF CallRow
  <2> QED BY <2>2 DEF e
<1>5. calls'[m] = r
  BY <1>3 DEF Types, TypeOK
<1>6. /\ calls[m] = None /\ latest' = None
      /\ op' = IF kind \in Settings \cup {"feedback"} THEN op ELSE Pending(kind)
      /\ busy' = IF kind \in Settings \cup {"feedback"} THEN {kind} ELSE busy
  BY DEF Issue
<1>7. /\ calls' = [calls EXCEPT ![m] = calls'[m]] /\ calls'[m] \in CallRow
      /\ calls'[m].conv = page /\ calls'[m].kind = kind /\ calls'[m].question = q
      /\ calls'[m].intent = i /\ calls'[m].target = n /\ calls'[m].request = n
      /\ calls'[m].server = "onway" /\ calls'[m].client = "waiting" /\ calls'[m].told = None
      /\ calls'[m].data = <<>> /\ calls'[m].slot = slot /\ calls'[m].key = key
  <2>1. calls' = [calls EXCEPT ![m] = calls'[m]]
    <3> HIDE DEF r
    <3> QED BY <1>3, <1>5
  <2>2. calls'[m] \in CallRow
    <3> HIDE DEF r
    <3> QED BY <1>4, <1>5
  <2> QED BY <1>5, <2>1, <2>2
<1> HIDE DEF r
<1> QED BY <1>6, <1>7, Zenon DEF slot, key

LEMMA AboutType ==
    ASSUME NEW call \in CallRow, NEW result, NEW list \in Requests \cup {None}
    PROVE  About(call, result, list) \in Index
<1> DEFINE hits == {n \in DOMAIN list : list[n].question = call.question /\ IsFailed(list[n])}
<1>1. call.request \in Index /\ call.target \in Index /\ None \in Index
  BY DEF CallRow, Index
<1>2. CASE list = None
  BY <1>1, <1>2 DEF About
<1>3. CASE list \in Requests
  <2>1. hits \in SUBSET Nat
    BY <1>3 DEF Requests
  <2>2. First(hits) \in Index
    BY <2>1, FirstProp DEF Index
  <2> QED BY <1>1, <2>2 DEF About
<1> QED BY <1>2, <1>3

LEMMA AfterType ==
    ASSUME NEW call \in CallRow, call.kind \in Asking, NEW applied \in BOOLEAN, NEW list \in Requests \cup {None}
    PROVE  After(call, applied, list) \in {Idle} \cup ErrorRow
<1>1. About(call, call.told, list) \in Index
  BY AboutType
<1>2. \A r \in Index, a \in BOOLEAN, u \in BOOLEAN : Failed(call, r, a, u) \in ErrorRow
  BY DEF Failed, ErrorRow, CallRow
<1>3. call.target \in Index /\ None \in Index
  BY DEF CallRow, Index
<1> HIDE DEF ErrorRow, Index
<1> QED BY <1>1, <1>2, <1>3, Zenon DEF After

-----------------------------------------------------------------------------
(* The kinds of steps. *)

\* The page shows conversation c: opened, or gone to from another.
Shows(c) ==
    /\ c \in Conversation /\ page # c
    /\ page' = c /\ thread' = "loading" /\ snap' = None
    /\ op' = Idle /\ draft' = None /\ busy' = {} /\ required' = FALSE /\ heard' = None
    /\ \E f \in Fetch : StartFetch(f, c, TRUE)
    /\ \/ page = None /\ visited' = {} /\ calls' = calls
       \/ /\ page # None /\ visited' = visited \cup {page}
          /\ calls' = [m \in Call |-> IF calls[m] # None /\ calls[m].client = "refreshing"
                                      THEN Forget(m, calls[m]) ELSE calls[m]]
    /\ UNCHANGED <<server, keys, strayed>>

\* The page is unmounted.
Gone ==
    /\ page # None
    /\ GoAway
    /\ \A m \in Call : calls[m] = None => calls'[m] = None
    /\ \A m \in Call : calls'[m] = None \/ calls'[m] = Forget(m, calls[m])
    /\ calls' \in [Call -> CallRow \cup {None}]
    /\ UNCHANGED <<server, strayed>>

\* A call that has a key, and one that has none.
KeyedIssue(m, kind, q, i, n) ==
    /\ Unlocked /\ kind \in Kept /\ q \in Question /\ i \in Intent /\ n \in Index
    /\ kind = "edit" => n \in DOMAIN asked[page]
    /\ \/ Fresh(i) /\ draft' = IF kind = "send" THEN q ELSE draft
       \/ /\ op.status = "error" /\ op.kind = kind /\ op.question = q /\ op.intent = i /\ op.target = n
          /\ op.request = None /\ op.unknown
          /\ draft' = draft
    /\ TakeKey(SlotFor(kind, q, n)) /\ Stray(i, SlotFor(kind, q, n))
    /\ Issue(m, kind, q, i, n)
    /\ UNCHANGED <<server, page, thread, snap, required, fetches, heard, visited>>

PlainIssue(m, kind, q, i, n) ==
    /\ Unlocked /\ kind \in Kind \ (Kept \cup {"refresh"}) /\ n \in Index
    /\ q \in Question \cup {None} /\ i \in Intent \cup {None}
    /\ kind \in {"retry", "regenerate"} => n \in DOMAIN asked[page]
    /\ Issue(m, kind, q, i, n)
    /\ UNCHANGED <<server, page, thread, snap, draft, required, keys, fetches, heard, visited, strayed>>

Refreshed(m, f) ==
    /\ page \in Conversation /\ calls[m] = None
    /\ calls' = [calls EXCEPT ![m] = calls'[m]] /\ calls'[m] \in CallRow
    /\ calls'[m].conv = page /\ calls'[m].kind = "refresh" /\ calls'[m].server = "done"
    /\ calls'[m].client = "refreshing" /\ calls'[m].told = "ok" /\ calls'[m].data = <<>>
    /\ calls'[m].key = None /\ calls'[m].slot = None
    /\ StartFetch(f, page, FALSE)
    /\ UNCHANGED <<server, page, thread, snap, op, draft, busy, required, keys, heard, visited, strayed>>

Polled(f) ==
    /\ page \in Conversation
    /\ StartFetch(f, page, FALSE)
    /\ UNCHANGED <<server, page, thread, snap, op, draft, busy, required, keys, calls, heard, visited, strayed>>

\* The server has gone on with call m, which itself stays what it is for the page.
Served(m) ==
    /\ m \in Call /\ calls[m] # None
    /\ calls' = [calls EXCEPT ![m] = calls'[m]]
    /\ calls'[m] \in CallRow /\ Alike(calls'[m], calls[m])
    /\ calls'[m].client = calls[m].client /\ calls'[m].told = calls[m].told
    /\ UNCHANGED <<shown, keys, fetches, strayed>>

\* It stored a new request ...
Asked(m) ==
    LET c == calls[m].conv IN
    /\ Served(m) /\ calls[m].server = "onway" /\ calls[m].kind \in Kept
    /\ claims[calls[m].key] = None
    /\ \E r \in Request : /\ asked' = [asked EXCEPT ![c] = Append(@, r)]
                      /\ r.question = calls[m].question /\ r.intent = calls[m].intent
    /\ claims' = [claims EXCEPT ![calls[m].key] = [conv |-> c, request |-> Len(asked[c]) + 1]]
    /\ calls'[m].server = "generating" /\ calls'[m].request = Len(asked[c]) + 1 /\ calls'[m].attempt = 1
    /\ calls'[m].data = calls[m].data

\* ... began another attempt ...
Begun(m) ==
    LET c == calls[m].conv
        n == calls[m].target
    IN  /\ Served(m) /\ calls[m].server = "onway" /\ calls[m].kind \in {"retry", "regenerate"}
        /\ asked' = [asked EXCEPT ![c][n].attempts = Append(@, "PROCESSING")]
        /\ calls'[m].server = "generating" /\ calls'[m].request = n
        /\ calls'[m].attempt = Len(asked[c][n].attempts) + 1
        /\ calls'[m].data = calls[m].data
        /\ claims' = claims

\* ... ended one ...
Over(m) ==
    LET call == calls[m] IN
    /\ Served(m) /\ call.server = "generating"
    /\ \E status \in {"COMPLETED", "FAILED"} :
         asked' = [asked EXCEPT ![call.conv][call.request].attempts[call.attempt] = status]
    /\ calls'[m].server = "answered" /\ calls'[m].result \in {"ok", "failed"}
    /\ calls'[m].request = call.request /\ calls'[m].attempt = call.attempt
    /\ calls'[m].data = calls[m].data
    /\ claims' = claims

\* ... or answered, from a claim or without one.
Recalled(m) ==
    LET claim == claims[calls[m].key] IN
    /\ Served(m) /\ calls[m].server = "onway" /\ calls[m].kind \in Kept /\ claim # None
    /\ calls'[m].server = "answered" /\ calls'[m].result \in {"ok", "failed"}
    /\ calls'[m].request = claim.request /\ calls'[m].attempt = 1
    /\ calls'[m].data = calls[m].data
    /\ UNCHANGED <<asked, claims>>

Answered(m) ==
    /\ Served(m) /\ calls[m].server = "onway"
    /\ calls'[m].server = "answered" /\ calls'[m].result \in {"ok", "refused"}
    /\ calls'[m].result = "ok" => calls[m].kind \notin Asking
    /\ calls'[m].data \in {calls[m].data, <<>>, asked[calls[m].conv]}
    /\ calls[m].kind = "branch" /\ calls'[m].result = "ok" => calls'[m].data = asked[calls[m].conv]
    /\ UNCHANGED <<asked, claims>>

Dropped(m) ==
    /\ m \in Call /\ calls[m] # None
    /\ calls[m].client = "done" /\ calls' = [calls EXCEPT ![m] = None]
    /\ UNCHANGED <<server, shown, keys, fetches, strayed>>

\* A read of the conversation as it is, and one that comes to nothing.
ReadDone(f) ==
    /\ f \in Fetch /\ fetches[f] # None /\ fetches[f].stage = "sent"
    /\ \/ fetches' = [fetches EXCEPT ![f].stage = "gone"]
       \/ fetches' = [fetches EXCEPT ![f].stage = "read", ![f].data = asked[fetches[f].conv]]
    /\ UNCHANGED <<server, shown, keys, calls, strayed>>

Unused(f) ==
    /\ f \in Fetch /\ fetches[f] # None
    /\ fetches' = [fetches EXCEPT ![f] = None]
    /\ UNCHANGED <<server, shown, keys, calls, strayed>>

\* The page hears of call m what the server says, or that nothing will come.
Then(m, result, stage) == [calls[m] EXCEPT !.told = result, !.server = stage]

Told(m, result, stage) ==
    /\ m \in Call /\ calls[m] # None /\ calls[m].client = "waiting"
    /\ \/ calls[m].server = "answered" /\ result = calls[m].result /\ stage = "done"
       \/ result = "lost" /\ stage \in {"done", calls[m].server} \ {"answered"}
    /\ UNCHANGED <<server, strayed>>

KeyGone(call) ==
    keys' = IF call.kind \in Kept
            THEN [k \in Key |-> IF keys[k] = call.slot THEN None ELSE keys[k]] ELSE keys

HeardAway(m, result, stage) ==
    /\ Told(m, result, stage) /\ calls[m].conv # page
    /\ calls' = [calls EXCEPT ![m] = Forget(m, Then(m, result, stage))]
    /\ IF result = "ok" THEN KeyGone(calls[m]) ELSE keys' = keys
    /\ UNCHANGED <<shown, fetches>>

HeardHere(m, f, result, stage) ==
    /\ Told(m, result, stage) /\ calls[m].conv = page
    /\ calls[m].kind \in Asking \/ (calls[m].kind = "feedback" /\ result = "ok")
    /\ heard' = IF calls[m].kind \in Asking /\ result \in {"ok", "failed"}
                THEN [request |-> calls[m].request, attempt |-> calls[m].attempt] ELSE heard
    /\ StartFetch(f, page, FALSE)
    /\ calls' = [calls EXCEPT ![m] = [Then(m, result, stage) EXCEPT !.client = "refreshing"]]
    /\ IF result = "ok" THEN KeyGone(calls[m]) ELSE keys' = keys
    /\ draft' = IF calls[m].kind = "send" /\ result = "ok" THEN None ELSE draft
    /\ UNCHANGED <<page, thread, snap, op, busy, required, visited>>

HeardLast(m, result, stage) ==
    /\ Told(m, result, stage) /\ calls[m].conv = page
    /\ calls[m].kind \in Settings \cup {"feedback", "branch"}
    /\ calls' = [calls EXCEPT ![m] = Forget(m, Then(m, result, stage))]
    /\ heard' = heard /\ busy' = busy \ {calls[m].kind}
    /\ IF calls[m].kind = "branch" /\ result = "ok"
       THEN /\ snap' = calls[m].data /\ thread' = "success"
            /\ fetches' = [g \in Fetch |-> IF fetches[g] = None THEN None
                              ELSE [fetches[g] EXCEPT !.crossed = TRUE]]
       ELSE UNCHANGED <<snap, thread, fetches>>
    /\ op' \in {op, Idle}
    /\ UNCHANGED <<page, draft, required, latest, visited, keys>>

\* The latest read comes back, well or badly, and what waited for it goes on.
Finished(f, applied, list) ==
    /\ f \in Fetch /\ fetches[f] # None /\ f = latest /\ fetches[f].conv = page
    /\ Finish(f, applied, list)
    /\ \/ /\ applied = TRUE /\ fetches[f].stage = "read" /\ list = fetches[f].data
          /\ snap' = list /\ thread' = "success"
       \/ applied = FALSE /\ list = snap /\ snap' = snap /\ thread' \in {thread, "unavailable", "error"}
    /\ UNCHANGED <<server, page, heard, visited, strayed>>

Steps ==
    \/ \E c \in Conversation : Shows(c)
    \/ Gone
    \/ \E m \in Call, kind \in Kept, q \in Question, i \in Intent, n \in Index : KeyedIssue(m, kind, q, i, n)
    \/ \E m \in Call, kind \in Kind, q \in Question \cup {None}, i \in Intent \cup {None}, n \in Index :
          PlainIssue(m, kind, q, i, n)
    \/ \E m \in Call, f \in Fetch : Refreshed(m, f)
    \/ \E f \in Fetch : Polled(f) \/ ReadDone(f) \/ Unused(f)
    \/ \E m \in Call : Asked(m) \/ Begun(m) \/ Over(m) \/ Recalled(m) \/ Answered(m) \/ Dropped(m)
    \/ \E m \in Call, result \in {"ok", "failed", "refused", "lost"}, stage \in {"onway", "generating", "done"} :
          \/ HeardAway(m, result, stage)
          \/ \E f \in Fetch : HeardHere(m, f, result, stage)
          \/ HeardLast(m, result, stage)
    \/ \E f \in Fetch, applied \in BOOLEAN, list \in Requests \cup {None} : Finished(f, applied, list)

Good == Types /\ Shown /\ CallsShaped /\ ErrorShape

LEMMA OpShape ==
    ASSUME Types
    PROVE  /\ op.status = "error" => op \in ErrorRow
           /\ op.status # "error" => op \in {Idle} \cup {Pending(kind) : kind \in Kind}
BY DEF Types, TypeOK, ErrorRow, Idle, Pending

LEMMA UnlockedShape ==
    ASSUME Types, Shown, Unlocked
    PROVE  page \in Conversation /\ snap \in Requests /\ Past(snap, asked[page])
BY DEF Shown, Unlocked

LEMMA NoneApart ==
    ASSUME Types
    PROVE  /\ \A c \in Conversation : c # None
           /\ \A q \in Question : q # None
           /\ \A k \in Key : k # None
           /\ \A f \in Fetch : f # None
           /\ \A n \in Nat : n # None
           /\ \A x \in Claim : x # None
           /\ \A x \in CallRow : x # None
BY DEF Types, TypeOK, NoneIsNothing, Claim

LEMMA OpensShow ==
    ASSUME Good, NEW c \in Conversation, Open(c) \/ Switch(c)
    PROVE  Shows(c)
<1>1. page # c
  BY NoneApart DEF Good, Open, Switch
<1>2. Show(c) /\ UNCHANGED <<server, keys, strayed>>
  BY DEF Open, Switch
<1>3. \/ page = None /\ visited' = {} /\ calls' = calls
      \/ /\ page # None /\ visited' = visited \cup {page}
         /\ calls' = [m \in Call |-> IF calls[m] # None /\ calls[m].client = "refreshing"
                                     THEN Forget(m, calls[m]) ELSE calls[m]]
  BY DEF Open, Switch
<1> QED BY <1>1, <1>2, <1>3 DEF Show, Shows

LEMMA GoneRows ==
    ASSUME Good, NEW m \in Call, calls[m] # None
    PROVE  Forget(m, calls[m]) \in CallRow \cup {None}
BY ForgetRow DEF Good, Types, TypeOK

LEMMA LeaveGone ==
    ASSUME Good, Leave
    PROVE  Gone
<1>1. calls' \in [Call -> CallRow \cup {None}]
  BY GoneRows DEF Leave
<1>2. \A m \in Call : calls'[m] = IF calls[m] = None THEN None ELSE Forget(m, calls[m])
  BY DEF Leave
<1> QED BY <1>1, <1>2 DEF Gone, Leave

LEMMA DeletedGone ==
    ASSUME Good, NEW d \in Call, HearDeleted(d)
    PROVE  Gone
<1>1. calls' \in [Call -> CallRow \cup {None}]
  BY GoneRows DEF HearDeleted
<1>2. \A m \in Call : calls'[m] = IF m = d \/ calls[m] = None THEN None ELSE Forget(m, calls[m])
  BY DEF HearDeleted
<1>3. page # None
  <2>1. calls[d] \in CallRow
    BY DEF HearDeleted, Good, Types, TypeOK
  <2>2. calls[d].conv \in Conversation /\ calls[d].conv = page
    BY <2>1 DEF HearDeleted, CallRow
  <2> QED BY <2>2, NoneApart DEF Good
<1> QED BY <1>1, <1>2, <1>3 DEF Gone, HearDeleted

LEMMA SendIssues ==
    ASSUME Good, NEW m \in Call, NEW q \in Question, NEW i \in Intent, Send(m, q, i)
    PROVE  KeyedIssue(m, "send", q, i, None)
BY DEF Send, KeyedIssue, Kept, Index

LEMMA EditIssues ==
    ASSUME Good, NEW m \in Call, NEW q \in Question, NEW i \in Intent, NEW n \in 1 .. MaxAttempts, Edit(m, q, i, n)
    PROVE  KeyedIssue(m, "edit", q, i, n)
<1>1. n \in Nat
  OBVIOUS
<1>2. n \in DOMAIN asked[page]
  BY UnlockedShape, PastDomain DEF Edit, Good, Types, TypeOK
<1> QED BY <1>1, <1>2 DEF Edit, KeyedIssue, Kept, Index

LEMMA TryAgainIssues ==
    ASSUME Good, NEW m \in Call, TryAgain(m)
    PROVE  \/ \E kind \in Kept, q \in Question, i \in Intent, n \in Index : KeyedIssue(m, kind, q, i, n)
           \/ \E q \in Question \cup {None}, i \in Intent \cup {None}, n \in Index :
                 PlainIssue(m, "retry", q, i, n)
<1>1. op \in ErrorRow /\ op.status = "error" /\ Unlocked
  BY OpShape DEF TryAgain, Good
<1>2. page \in Conversation /\ snap \in Requests /\ Past(snap, asked[page]) /\ asked[page] \in Requests
  BY <1>1, UnlockedShape DEF Good, Types, TypeOK
<1>3. op.target \in Index /\ op.request \in Index
  BY <1>1 DEF ErrorRow
<1>4. CASE op.request = None
  <2>1. op.kind \in Kept /\ op.question \in Question /\ op.intent \in Intent
    BY <1>1, <1>4 DEF TryAgain, Good, ErrorShape
  <2>2. KeyedIssue(m, op.kind, op.question, op.intent, op.target)
    <3>1. /\ TakeKey(SlotFor(op.kind, op.question, op.target))
          /\ Stray(op.intent, SlotFor(op.kind, op.question, op.target))
          /\ Issue(m, op.kind, op.question, op.intent, op.target)
          /\ op.unknown
          /\ UNCHANGED <<server, page, thread, snap, required, fetches, heard, visited>> /\ draft' = draft
      BY <1>4 DEF TryAgain
    <3>2. op.kind = "edit" => op.target \in DOMAIN asked[page]
      BY <1>1 DEF Good, ErrorShape
    <3> QED BY <1>1, <1>3, <1>4, <2>1, <3>1, <3>2 DEF KeyedIssue
  <2> QED BY <2>1, <2>2, <1>3
<1>5. CASE op.request # None
  <2>1. op.question \in Question \cup {None} /\ op.intent \in Intent \cup {None}
    BY <1>1 DEF ErrorRow
  <2>2. op.request \in DOMAIN asked[page]
    BY <1>1, <1>5 DEF Good, ErrorShape
  <2>3. PlainIssue(m, "retry", op.question, op.intent, op.request)
    BY <1>1, <1>3, <1>5, <2>1, <2>2 DEF TryAgain, PlainIssue, Kept, Kind, Asking
  <2> QED BY <2>1, <2>3, <1>3
<1> QED BY <1>4, <1>5

LEMMA RequestIssues ==
    ASSUME Good, NEW m \in Call, NEW n \in 1 .. MaxAttempts, NEW kind \in {"retry", "regenerate", "feedback"},
           OnRequest(m, kind, n)
    PROVE  PlainIssue(m, kind, None, None, n)
<1>1. n \in Index /\ kind \in Kind \ (Kept \cup {"refresh"})
  BY DEF Index, Kind, Kept, Asking
<1>2. n \in DOMAIN asked[page]
  BY UnlockedShape, PastDomain DEF OnRequest, Good, Types, TypeOK
<1> QED BY <1>1, <1>2 DEF OnRequest, PlainIssue

LEMMA ConversationIssues ==
    ASSUME Good, NEW m \in Call, NEW kind \in {"branch", "rename", "delete"}, OnConversation(m, kind)
    PROVE  PlainIssue(m, kind, None, None, None)
BY DEF OnConversation, PlainIssue, Index, Kind, Kept, Settings

LEMMA RefreshIs ==
    ASSUME Good, NEW m \in Call, NEW f \in Fetch, Refresh(m, f), page # None
    PROVE  Refreshed(m, f)
<1>1. <<>> \in Requests /\ page \in Conversation
  BY DEF Requests, Good, Types, TypeOK
<1> DEFINE r == [conv |-> page, kind |-> "refresh", question |-> None, intent |-> None,
                    slot |-> None, key |-> None, target |-> None, request |-> None, attempt |-> None,
                    server |-> "done",
                    result |-> "ok", data |-> <<>>, client |-> "refreshing", told |-> "ok"]
<1>2. calls' = [calls EXCEPT ![m] = r] /\ calls[m] = None
  BY DEF Refresh
<1>3. r \in CallRow
  <2> DEFINE e == <<>>
  <2>1. e \in Requests /\ None \in Index /\ "refresh" \in Kind
    BY <1>1 DEF Index, Kind
  <2> HIDE DEF e
  <2>2. [conv |-> page, kind |-> "refresh", question |-> None, intent |-> None,
                    slot |-> None, key |-> None, target |-> None, request |-> None, attempt |-> None,
                    server |-> "done",
                    result |-> "ok", data |-> e, client |-> "refreshing", told |-> "ok"] \in CallRow
    BY <2>1, <1>1 DEF CallRow
  <2> QED BY <2>2 DEF e
<1>4. calls'[m] = r
  BY <1>2 DEF Good, Types, TypeOK
<1>5. calls' = [calls EXCEPT ![m] = calls'[m]] /\ calls'[m] \in CallRow
  <2> HIDE DEF r
  <2> QED BY <1>2, <1>3, <1>4
<1>6. /\ calls'[m].conv = page /\ calls'[m].kind = "refresh" /\ calls'[m].server = "done"
      /\ calls'[m].client = "refreshing" /\ calls'[m].told = "ok" /\ calls'[m].data = <<>>
      /\ calls'[m].key = None /\ calls'[m].slot = None
  BY <1>4
<1> HIDE DEF r
<1>7. StartFetch(f, page, FALSE)
      /\ UNCHANGED <<server, page, thread, snap, op, draft, busy, required, keys, heard, visited, strayed>>
  BY DEF Refresh
<1> QED BY <1>1, <1>2, <1>5, <1>6, <1>7 DEF Refreshed

LEMMA PollIs ==
    ASSUME Good, NEW f \in Fetch, Poll(f)
    PROVE  Polled(f)
<1>1. page \in Conversation
  BY DEF Poll, Good, Shown
<1> QED BY <1>1 DEF Poll, Polled

\* The server's part of a call.
LEMMA ServedAnswer ==
    ASSUME Types, NEW m \in Live, NEW result \in {"ok", "failed", "refused"},
           NEW request \in Index, NEW attempt \in Index
    PROVE  LET a == Answer(m, result, request, attempt)
           IN  /\ a \in CallRow /\ Alike(a, calls[m]) /\ a.client = calls[m].client /\ a.told = calls[m].told
               /\ a.server = "answered" /\ a.result = result /\ a.request = request /\ a.attempt = attempt
               /\ a.data = calls[m].data
<1>1. calls[m] \in CallRow
  BY DEF Types, TypeOK, Live
<1> QED BY <1>1 DEF Answer, CallRow, Alike

LEMMA ServedUpdate ==
    ASSUME Types, NEW m \in Live, NEW r \in CallRow, calls' = [calls EXCEPT ![m] = r]
    PROVE  calls'[m] = r /\ calls' = [calls EXCEPT ![m] = calls'[m]]
BY DEF Types, TypeOK, Live

LEMMA RefuseAnswers ==
    ASSUME Good, NEW m \in Live, calls[m].server = "onway", Refuse(m), UNCHANGED <<shown, keys, fetches, strayed>>
    PROVE  Answered(m)
<1>1. calls[m].request \in Index /\ None \in Index
  BY DEF Good, Types, TypeOK, Live, CallRow, Index
<1> DEFINE a == Answer(m, "refused", calls[m].request, None)
<1>2. /\ a \in CallRow /\ Alike(a, calls[m]) /\ a.client = calls[m].client /\ a.told = calls[m].told
      /\ a.server = "answered" /\ a.result = "refused" /\ a.data = calls[m].data
  BY <1>1, ServedAnswer DEF Good
<1>3. calls' = [calls EXCEPT ![m] = a] /\ UNCHANGED <<asked, claims>>
  BY DEF Refuse, server
<1> HIDE DEF a
<1>4. calls'[m] = a /\ calls' = [calls EXCEPT ![m] = calls'[m]]
  BY <1>2, <1>3, ServedUpdate DEF Good
<1> QED BY <1>2, <1>3, <1>4 DEF Answered, Served, Live

LEMMA StoreIs ==
    ASSUME Good, NEW m \in Live, calls[m].server = "onway", calls[m].kind \in Kept, Store(m),
           UNCHANGED <<shown, keys, fetches, strayed>>
    PROVE  Asked(m) \/ Recalled(m) \/ Answered(m)
<1> DEFINE call == calls[m]
           c == call.conv
           claim == claims[call.key]
<1>0. /\ call \in CallRow /\ CallShape(call) /\ c \in Conversation /\ call.key \in Key
      /\ call.question \in Question /\ call.intent \in Intent /\ asked[c] \in Requests /\ Len(asked[c]) \in Nat
  <2>1. call \in CallRow /\ CallShape(call) /\ call.kind \in Kept
    BY DEF Good, Types, TypeOK, Live, CallsShaped
  <2>2. c \in Conversation
    BY <2>1 DEF CallRow
  <2>3. asked[c] \in Requests
    BY <2>2 DEF Good, Types, TypeOK
  <2> HIDE DEF call, c
  <2>4. Len(asked[c]) \in Nat
    BY <2>3 DEF Requests
  <2> QED BY <2>1, <2>2, <2>3, <2>4 DEF CallShape
<1>1. CASE claim # None
  <2> DEFINE status == Original(asked[claim.conv][claim.request])
             result == IF status = "FAILED" THEN "failed" ELSE "ok"
             a == Answer(m, result, claim.request, 1)
  <2>1. claim \in Claim
    BY <1>0, <1>1 DEF Good, Types, TypeOK
  <2>2. claim.request \in Index /\ 1 \in Index /\ result \in {"ok", "failed"}
    BY <2>1 DEF Claim, Index
  <2>3. calls' = [calls EXCEPT ![m] = a] /\ UNCHANGED <<asked, claims>>
    BY <1>1 DEF Store, server
  <2> HIDE DEF result
  <2>4. /\ a \in CallRow /\ Alike(a, calls[m]) /\ a.client = calls[m].client /\ a.told = calls[m].told
        /\ a.server = "answered" /\ a.result = result /\ a.data = calls[m].data
        /\ a.request = claim.request /\ a.attempt = 1
    BY <2>2, ServedAnswer DEF Good
  <2> HIDE DEF a
  <2>5. calls'[m] = a /\ calls' = [calls EXCEPT ![m] = calls'[m]]
    BY <2>3, <2>4, ServedUpdate DEF Good
  <2> QED BY <1>1, <2>2, <2>3, <2>4, <2>5 DEF Recalled, Served, Live
<1>2. CASE claim = None /\ Processing(asked[c])
  BY <1>2, RefuseAnswers DEF Store
<1>3. CASE claim = None /\ ~Processing(asked[c])
  <2> DEFINE r == [question |-> call.question, intent |-> call.intent, edited |-> call.kind = "edit",
                   attempts |-> <<"PROCESSING">>]
             a == [calls[m] EXCEPT !.server = "generating", !.request = Len(asked[c]) + 1, !.attempt = 1]
  <2>1. /\ asked' = [asked EXCEPT ![c] = Append(@, r)]
        /\ claims' = [claims EXCEPT ![call.key] = [conv |-> c, request |-> Len(asked[c]) + 1]]
    BY <1>3 DEF Store
  <2>2. calls' = [calls EXCEPT ![m] = a]
    BY <1>3 DEF Store
  <2>3. r \in Request
    <3> DEFINE p == <<"PROCESSING">>
    <3>1. p \in Seq(Status) \ {<<>>}
      BY DEF Status
    <3> HIDE DEF p
    <3>2. [question |-> call.question, intent |-> call.intent, edited |-> call.kind = "edit",
                   attempts |-> p] \in Request
      BY <3>1, <1>0 DEF Request
    <3> QED BY <3>2 DEF p
  <2>4. /\ a \in CallRow /\ Alike(a, calls[m]) /\ a.client = calls[m].client /\ a.told = calls[m].told
        /\ a.server = "generating" /\ a.data = calls[m].data
        /\ a.request = Len(asked[c]) + 1 /\ a.attempt = 1
    <3> DEFINE n == Len(asked[c]) + 1
    <3>1. n \in Nat
      BY <1>0
    <3> HIDE DEF n
    <3>2. LET b == [calls[m] EXCEPT !.server = "generating", !.request = n, !.attempt = 1]
          IN  /\ b \in CallRow /\ Alike(b, calls[m]) /\ b.client = calls[m].client /\ b.told = calls[m].told
              /\ b.server = "generating" /\ b.data = calls[m].data
              /\ b.request = n /\ b.attempt = 1
      BY <3>1, <1>0 DEF CallRow, Alike, Index
    <3> QED BY <3>2 DEF n
  <2>5. r.question = call.question /\ r.intent = call.intent
    OBVIOUS
  <2> HIDE DEF a, r
  <2>6. calls'[m] = a /\ calls' = [calls EXCEPT ![m] = calls'[m]]
    BY <2>2, <2>4, ServedUpdate DEF Good
  <2> QED BY <1>3, <2>1, <2>3, <2>4, <2>5, <2>6 DEF Asked, Served, Live
<1> QED BY <1>1, <1>2, <1>3

LEMMA BeginIs ==
    ASSUME Good, NEW m \in Live, calls[m].server = "onway", calls[m].kind \in {"retry", "regenerate"},
           Begin(m, calls[m].conv, calls[m].request), UNCHANGED <<shown, keys, fetches, strayed>>
    PROVE  Begun(m)
<1> DEFINE call == calls[m]
           c == call.conv
           n == call.target
           k == Len(asked[c][n].attempts) + 1
           a == [calls[m] EXCEPT !.server = "generating", !.request = n, !.attempt = k]
<1>0. call \in CallRow /\ c \in Conversation /\ n \in DOMAIN asked[c] /\ n = call.request /\ asked[c] \in Requests
  <2>1. call \in CallRow /\ CallShape(call)
    BY DEF Good, Types, TypeOK, Live, CallsShaped
  <2>2. c \in Conversation
    BY <2>1 DEF CallRow
  <2> QED BY <2>1, <2>2 DEF CallShape, Good, Types, TypeOK
<1>1. asked' = [asked EXCEPT ![c][n].attempts = Append(@, "PROCESSING")]
  BY <1>0 DEF Begin
<1>2. calls' = [calls EXCEPT ![m] = a]
  BY <1>0 DEF Begin
<1>3. k \in Nat /\ n \in Nat
  <2> HIDE DEF c, n
  <2>1. n \in Nat /\ asked[c][n] \in Request
    BY <1>0 DEF Requests
  <2>2. Len(asked[c][n].attempts) \in Nat
    BY <2>1, AgeProp
  <2> QED BY <2>1, <2>2
<1> HIDE DEF k
<1>4. /\ a \in CallRow /\ Alike(a, calls[m]) /\ a.client = calls[m].client /\ a.told = calls[m].told
      /\ a.server = "generating" /\ a.data = calls[m].data /\ a.request = n /\ a.attempt = k
  BY <1>3, <1>0 DEF CallRow, Alike, Index
<1> HIDE DEF a
<1>5. calls'[m] = a /\ calls' = [calls EXCEPT ![m] = calls'[m]]
  BY <1>2, <1>4, ServedUpdate DEF Good
<1>6. claims' = claims
  BY DEF Begin
<1> QED BY <1>1, <1>4, <1>5, <1>6 DEF Begun, Served, Live, k

LEMMA ArriveIs ==
    ASSUME Good, NEW m \in Call, Arrive(m)
    PROVE  Asked(m) \/ Begun(m) \/ Recalled(m) \/ Answered(m)
<1> DEFINE call == calls[m]
           c == call.conv
           n == call.request
<1>0. /\ call # None /\ call.server = "onway" /\ m \in Live /\ UNCHANGED <<shown, keys, fetches, strayed>>
  BY DEF Arrive, Live
<1>1. call \in CallRow /\ call.kind \in Kind /\ n \in Index /\ c \in Conversation /\ None \in Index
  BY <1>0 DEF Good, Types, TypeOK, CallRow, Index
<1>2. asked[c] \in Requests /\ <<>> \in Requests
  BY <1>1 DEF Good, Types, TypeOK, Requests
<1>3. CASE c \in deleted
  BY <1>0, <1>3, RefuseAnswers DEF Arrive
<1>4. CASE c \notin deleted /\ call.kind \in Kept
  BY <1>0, <1>4, StoreIs DEF Arrive, Kept
<1>5. CASE c \notin deleted /\ call.kind = "retry"
  BY <1>0, <1>5, RefuseAnswers, BeginIs DEF Arrive, Kept
<1>6. CASE c \notin deleted /\ call.kind = "regenerate"
  BY <1>0, <1>6, RefuseAnswers, BeginIs DEF Arrive, Kept
<1> DEFINE a == Answer(m, "ok", n, None)
<1>7. /\ a \in CallRow /\ Alike(a, calls[m]) /\ a.client = calls[m].client /\ a.told = calls[m].told
      /\ a.server = "answered" /\ a.result = "ok" /\ a.data = calls[m].data
  BY <1>0, <1>1, ServedAnswer DEF Good
<1>8. CASE c \notin deleted /\ call.kind = "delete"
  <2>1. calls' = [calls EXCEPT ![m] = a] /\ UNCHANGED <<asked, claims>>
    BY <1>0, <1>8 DEF Arrive, Kept
  <2> HIDE DEF a
  <2>2. calls'[m] = a /\ calls' = [calls EXCEPT ![m] = calls'[m]]
    BY <1>0, <1>7, <2>1, ServedUpdate DEF Good
  <2> QED BY <1>0, <1>7, <1>8, <2>1, <2>2 DEF Answered, Served, Live, Asking, Kept
<1>9. CASE c \notin deleted /\ call.kind \notin Kept \cup {"retry", "regenerate", "delete"}
  <2> DEFINE d == IF call.kind = "branch" THEN asked[c] ELSE <<>>
             b == [a EXCEPT !.data = d]
  <2>1. calls' = [calls EXCEPT ![m] = b] /\ UNCHANGED <<asked, claims>>
    BY <1>0, <1>9 DEF Arrive, server
  <2>2. d \in Requests /\ d \in {<<>>, asked[c]} /\ (call.kind = "branch" => d = asked[c])
    BY <1>2
  <2> HIDE DEF a, d
  <2>3. /\ b \in CallRow /\ Alike(b, calls[m]) /\ b.client = calls[m].client /\ b.told = calls[m].told
        /\ b.server = "answered" /\ b.result = "ok" /\ b.data = d
    BY <1>7, <2>2 DEF CallRow, Alike
  <2> HIDE DEF b
  <2>4. calls'[m] = b /\ calls' = [calls EXCEPT ![m] = calls'[m]]
    BY <1>0, <2>3, <2>1, ServedUpdate DEF Good
  <2>5. calls[m].kind \notin Asking
    BY <1>9 DEF Asking
  <2>6. Served(m)
    BY <1>0, <2>3, <2>4 DEF Served, Live
  <2> QED BY <1>0, <2>1, <2>2, <2>3, <2>4, <2>5, <2>6 DEF Answered
<1> QED BY <1>3, <1>4, <1>5, <1>6, <1>8, <1>9

LEMMA EndIs ==
    ASSUME Good, NEW m \in Call, End(m)
    PROVE  Over(m)
<1>1. m \in Live /\ calls[m].server = "generating" /\ UNCHANGED <<deleted, claims, shown, keys, fetches, strayed>>
  BY DEF End, Live
<1>2. calls[m].request \in Index /\ calls[m].attempt \in Index
  BY <1>1 DEF Good, Types, TypeOK, Live, CallRow
<1>3. PICK status \in {"COMPLETED", "FAILED"} :
        /\ asked' = [asked EXCEPT ![calls[m].conv][calls[m].request].attempts[calls[m].attempt] = status]
        /\ calls' = [calls EXCEPT ![m] = Answer(m, IF status = "FAILED" THEN "failed" ELSE "ok",
                                                 calls[m].request, calls[m].attempt)]
  BY DEF End
<1> DEFINE result == IF status = "FAILED" THEN "failed" ELSE "ok"
           a == Answer(m, result, calls[m].request, calls[m].attempt)
<1>4. calls' = [calls EXCEPT ![m] = a] /\ result \in {"ok", "failed"}
  BY <1>3
<1> HIDE DEF result
<1>5. /\ a \in CallRow /\ Alike(a, calls[m]) /\ a.client = calls[m].client /\ a.told = calls[m].told
      /\ a.server = "answered" /\ a.result = result /\ a.data = calls[m].data
      /\ a.request = calls[m].request /\ a.attempt = calls[m].attempt
  BY <1>1, <1>2, <1>4, ServedAnswer DEF Good
<1> HIDE DEF a
<1>6. calls'[m] = a /\ calls' = [calls EXCEPT ![m] = calls'[m]]
  BY <1>1, <1>4, <1>5, ServedUpdate DEF Good
<1> QED BY <1>1, <1>3, <1>4, <1>5, <1>6 DEF Over, Served, Live

LEMMA HearIs ==
    ASSUME Good, NEW m \in Call, NEW f \in Fetch, NEW result, NEW stage, Told(m, result, stage),
           Hear(m, f, result, stage)
    PROVE  HeardAway(m, result, stage) \/ HeardHere(m, f, result, stage) \/ HeardLast(m, result, stage)
<1>1. calls[m].kind \in Kind \ {"refresh"}
  BY DEF Told, Good, Types, TypeOK, CallsShaped, CallShape, Live, CallRow
<1>2. (result = "ok" => (keys' = Keys(calls[m], result, None) => KeyGone(calls[m])))
  BY DEF Keys, KeyGone
<1>3. CASE calls[m].conv # page
  BY <1>2, <1>3 DEF Hear, HeardAway, Then
<1>4. CASE calls[m].conv = page /\ (calls[m].kind \in Asking \/ (calls[m].kind = "feedback" /\ result = "ok"))
  BY <1>2, <1>4 DEF Hear, HeardHere, Then
<1>5. CASE calls[m].conv = page /\ ~(calls[m].kind \in Asking \/ (calls[m].kind = "feedback" /\ result = "ok"))
  <2>1. ~(calls[m].kind = "delete" /\ result = "ok")
    BY <1>5 DEF Hear
  <2>2. calls[m].kind \in Settings \cup {"feedback", "branch"}
    BY <1>1, <1>5 DEF Kind, Settings
  <2>3. op' \in {op, Idle} /\ heard' = heard
    BY <1>5, <2>1 DEF Hear
  <2> QED BY <1>5, <2>1, <2>2, <2>3 DEF Hear, HeardLast, Then
<1> QED BY <1>3, <1>4, <1>5

LEMMA RepliesTell ==
    ASSUME Good, NEW m \in Call, NEW f \in Fetch, Reply(m, f) \/ Lose(m, f) \/ LoseRequest(m, f)
    PROVE  \E result \in {"ok", "failed", "refused", "lost"}, stage \in {"onway", "generating", "done"} :
              HeardAway(m, result, stage) \/ HeardHere(m, f, result, stage) \/ HeardLast(m, result, stage)
<1>0. m \in Live /\ calls[m] \in CallRow /\ CallShape(calls[m])
  BY DEF Reply, Lose, LoseRequest, Good, Types, TypeOK, Live, CallsShaped
<1>a. calls[m].server \in {"onway", "generating", "answered", "done"}
  BY <1>0 DEF CallRow
<1>1. CASE Reply(m, f)
  <2>1. calls[m].result \in {"ok", "failed", "refused"}
    BY <1>0, <1>1 DEF Reply, CallShape
  <2>2. Told(m, calls[m].result, "done") /\ Hear(m, f, calls[m].result, "done")
    BY <1>1 DEF Reply, Told
  <2> QED BY <2>1, <2>2, HearIs
<1>2. CASE Lose(m, f)
  <2> DEFINE stage == IF calls[m].server = "answered" THEN "done" ELSE calls[m].server
  <2>1. Told(m, "lost", stage) /\ Hear(m, f, "lost", stage) /\ stage \in {"onway", "generating", "done"}
    BY <1>2, <1>a DEF Lose, Told
  <2> HIDE DEF stage
  <2> QED BY <2>1, HearIs
<1>3. CASE LoseRequest(m, f)
  <2>1. Told(m, "lost", "done") /\ Hear(m, f, "lost", "done")
    BY <1>3 DEF LoseRequest, Told
  <2> QED BY <2>1, HearIs
<1> QED BY <1>1, <1>2, <1>3

LEMMA ReadsFinish ==
    ASSUME Good, NEW f \in Fetch, Deliver(f) \/ LoseRead(f)
    PROVE  Unused(f) \/ \E applied \in BOOLEAN, list \in Requests \cup {None} : Finished(f, applied, list)
<1>1. fetches[f] \in FetchRow /\ fetches[f].data \in Requests /\ snap \in Requests \cup {None}
  BY DEF Deliver, LoseRead, Good, Types, TypeOK, FetchRow
<1>2. fetches[f].stage \in {"sent", "read", "gone"}
  BY <1>1 DEF FetchRow
<1>3. CASE ~Usable(f)
  BY <1>3 DEF Deliver, LoseRead, Unused
<1>4. CASE Usable(f) /\ Deliver(f) /\ fetches[f].stage = "gone"
  <2>1. Finished(f, FALSE, snap)
    BY <1>4 DEF Deliver, Finished, Usable
  <2> QED BY <1>1, <2>1
<1>5. CASE Usable(f) /\ Deliver(f) /\ fetches[f].stage # "gone"
  <2>1. fetches[f].stage = "read"
    BY <1>2, <1>5 DEF Deliver
  <2>2. Finished(f, TRUE, fetches[f].data)
    BY <1>5, <2>1 DEF Deliver, Finished, Usable
  <2> QED BY <1>1, <2>2
<1>6. CASE Usable(f) /\ LoseRead(f)
  <2>1. Finished(f, FALSE, snap)
    BY <1>6 DEF LoseRead, Finished, Usable
  <2> QED BY <1>1, <2>1
<1> QED BY <1>3, <1>4, <1>5, <1>6

LEMMA NextSteps ==
    ASSUME Good, Next
    PROVE  Steps
<1>1. CASE Student
  <2>1. PICK m \in Call :
          \/ \E q \in Question, i \in Intent :
               \/ Send(m, q, i)
               \/ \E n \in 1 .. MaxAttempts : Edit(m, q, i, n)
          \/ TryAgain(m)
          \/ \E n \in 1 .. MaxAttempts, kind \in {"retry", "regenerate", "feedback"} : OnRequest(m, kind, n)
          \/ \E kind \in {"branch", "rename", "delete"} : OnConversation(m, kind)
          \/ \E f \in Fetch : Refresh(m, f)
    BY <1>1 DEF Student
  <2>2. ASSUME NEW q \in Question, NEW i \in Intent, Send(m, q, i)
        PROVE  Steps
    BY <2>2, SendIssues DEF Steps, Kept, Index
  <2>3. ASSUME NEW q \in Question, NEW i \in Intent, NEW n \in 1 .. MaxAttempts, Edit(m, q, i, n)
        PROVE  Steps
    <3>1. n \in Index
      BY DEF Index
    <3> QED BY <2>3, <3>1, EditIssues DEF Steps, Kept
  <2>4. ASSUME TryAgain(m)
        PROVE  Steps
    BY <2>4, TryAgainIssues DEF Steps, Kind, Asking
  <2>5. ASSUME NEW n \in 1 .. MaxAttempts, NEW kind \in {"retry", "regenerate", "feedback"}, OnRequest(m, kind, n)
        PROVE  Steps
    <3>1. n \in Index /\ kind \in Kind
      BY DEF Index, Kind, Asking
    <3> QED BY <2>5, <3>1, RequestIssues DEF Steps
  <2>6. ASSUME NEW kind \in {"branch", "rename", "delete"}, OnConversation(m, kind)
        PROVE  Steps
    <3>1. None \in Index /\ kind \in Kind
      BY DEF Index, Kind, Settings
    <3> QED BY <2>6, <3>1, ConversationIssues DEF Steps
  <2>7. ASSUME NEW f \in Fetch, Refresh(m, f)
        PROVE  Steps
    <3>1. page # None
      BY <2>7 DEF Refresh, Good, Shown
    <3> QED BY <2>7, <3>1, RefreshIs DEF Steps
  <2> QED BY <2>1, <2>2, <2>3, <2>4, <2>5, <2>6, <2>7
<1>2. CASE Moves
  BY <1>2, OpensShow, LeaveGone DEF Moves, Steps
<1>3. CASE Progress
  <2>1. ASSUME NEW m \in Call, Arrive(m) \/ End(m) \/ Unheard(m) \/ HearDeleted(m)
        PROVE  Steps
    <3>1. Unheard(m) => Dropped(m)
      BY DEF Unheard, Dropped
    <3> QED BY <2>1, <3>1, ArriveIs, EndIs, DeletedGone DEF Steps
  <2>2. ASSUME NEW m \in Call, NEW f \in Fetch, Reply(m, f)
        PROVE  Steps
    BY <2>2, RepliesTell DEF Steps
  <2>3. ASSUME NEW f \in Fetch, Read(f) \/ Deliver(f) \/ Poll(f)
        PROVE  Steps
    <3>1. Read(f) => ReadDone(f)
      BY DEF Read, ReadDone
    <3> QED BY <2>3, <3>1, ReadsFinish, PollIs DEF Steps
  <2> QED BY <1>3, <2>1, <2>2, <2>3 DEF Progress
<1>4. CASE Faults
  BY <1>4, RepliesTell, ReadsFinish DEF Faults, Steps
<1> QED BY <1>1, <1>2, <1>3, <1>4 DEF Next

-----------------------------------------------------------------------------
(* Types *)

LEMMA NoneStays == NoneIsNothing => NoneIsNothing'
BY DEF NoneIsNothing, Slot

LEMMA DroppedRow ==
    ASSUME Types, NEW m \in Call, NEW r \in CallRow, calls' = [calls EXCEPT ![m] = Forget(m, r)]
    PROVE  calls' \in [Call -> CallRow \cup {None}]
<1>1. Forget(m, r) \in CallRow \cup {None}
  BY ForgetRow
<1> HIDE DEF CallRow
<1> QED BY <1>1 DEF Types, TypeOK

LEMMA ToldRow ==
    ASSUME Good, NEW m \in Call, NEW result \in {"ok", "failed", "refused", "lost"},
           NEW stage \in {"onway", "generating", "done"}, Told(m, result, stage)
    PROVE  /\ Then(m, result, stage) \in CallRow
           /\ [Then(m, result, stage) EXCEPT !.client = "refreshing"] \in CallRow
<1>1. calls[m] \in CallRow /\ calls[m].client = "waiting"
  BY DEF Told, Good, Types, TypeOK
<1> QED BY <1>1 DEF Then, CallRow, Alike

LEMMA ToldSays ==
    ASSUME Good, NEW m \in Call, NEW result \in {"ok", "failed", "refused", "lost"},
           NEW stage \in {"onway", "generating", "done"}, Told(m, result, stage)
    PROVE  /\ Alike(Then(m, result, stage), calls[m])
           /\ Then(m, result, stage).told = result /\ Then(m, result, stage).server = stage
           /\ Then(m, result, stage).client = "waiting"
<1>1. calls[m] \in CallRow /\ calls[m].client = "waiting"
  BY DEF Told, Good, Types, TypeOK
<1> QED BY <1>1 DEF Then, CallRow, Alike

LEMMA ToldKeeps ==
    ASSUME Good, NEW m \in Call, NEW result \in {"ok", "failed", "refused", "lost"},
           NEW stage \in {"onway", "generating", "done"}, Told(m, result, stage)
    PROVE  /\ Then(m, result, stage).request = calls[m].request
           /\ Then(m, result, stage).attempt = calls[m].attempt
           /\ Then(m, result, stage).result = calls[m].result
           /\ Then(m, result, stage).data = calls[m].data
<1>1. calls[m] \in CallRow /\ calls[m].client = "waiting"
  BY DEF Told, Good, Types, TypeOK
<1> QED BY <1>1 DEF Then, CallRow, Alike

LEMMA KeyGoneType ==
    ASSUME Types, NEW call \in CallRow, KeyGone(call)
    PROVE  keys' \in [Key -> Slot \cup {None}]
BY DEF Types, TypeOK, KeyGone

LEMMA ShowsTypes ==
    ASSUME Good, NEW c \in Conversation, Shows(c)
    PROVE  Types'
<1>1. fetches' \in [Fetch -> FetchRow \cup {None}] /\ latest' \in Fetch \cup {None}
  BY TypesStart DEF Shows, Good
<1>2. calls' \in [Call -> CallRow \cup {None}]
  <2>1. \A m \in Call : calls[m] # None => Forget(m, calls[m]) \in CallRow \cup {None}
    BY GoneRows
  <2>2. calls \in [Call -> CallRow \cup {None}]
    BY DEF Good, Types, TypeOK
  <2> HIDE DEF CallRow
  <2> QED BY <2>1, <2>2 DEF Shows
<1> QED BY <1>1, <1>2, NoneStays DEF Shows, Good, Types, TypeOK, server

LEMMA GoneTypes ==
    ASSUME Good, Gone
    PROVE  Types'
BY NoneStays DEF Good, Types, TypeOK, Gone, GoAway, NoKeys, server

LEMMA KeyedTypes ==
    ASSUME Good, NEW m \in Call, NEW kind, NEW q, NEW i, NEW n, KeyedIssue(m, kind, q, i, n)
    PROVE  /\ Types' /\ SlotFor(kind, q, n) \in Slot /\ SlotOf(SlotFor(kind, q, n), page, kind, n, q)
           /\ page \in Conversation /\ snap \in Requests
           /\ calls' = [calls EXCEPT ![m] = calls'[m]] /\ calls'[m] \in CallRow
           /\ calls'[m].conv = page /\ calls'[m].kind = kind /\ calls'[m].question = q
           /\ calls'[m].intent = i /\ calls'[m].target = n /\ calls'[m].request = n
           /\ calls'[m].slot = SlotFor(kind, q, n)
           /\ calls'[m].key = (CHOOSE k \in Key : keys'[k] = SlotFor(kind, q, n))
           /\ calls'[m].key \in Key /\ keys'[calls'[m].key] = SlotFor(kind, q, n)
           /\ calls'[m].server = "onway" /\ calls'[m].client = "waiting" /\ calls'[m].told = None
           /\ calls'[m].data = <<>>
           /\ calls[m] = None /\ latest' = None /\ op' = Pending(kind) /\ busy' = busy
<1>1. page \in Conversation /\ snap \in Requests /\ kind \in Kept /\ q \in Question /\ i \in Intent /\ n \in Index
  BY UnlockedShape DEF KeyedIssue, Good
<1>2. SlotOf(SlotFor(kind, q, n), page, kind, n, q) /\ SlotFor(kind, q, n) \in Slot
  BY <1>1, SlotType DEF SlotOf
<1>3. /\ keys' \in [Key -> Slot \cup {None}]
      /\ (CHOOSE k \in Key : keys'[k] = SlotFor(kind, q, n)) \in Key
      /\ keys'[CHOOSE k \in Key : keys'[k] = SlotFor(kind, q, n)] = SlotFor(kind, q, n)
  BY <1>2, TakeType DEF KeyedIssue, Good
<1>a. kind \in Kind \ {"refresh"} /\ kind \notin Settings \cup {"feedback"}
  BY <1>1 DEF Kept, Kind, Asking, Settings
<1>4. /\ calls' = [calls EXCEPT ![m] = calls'[m]] /\ calls'[m] \in CallRow
      /\ calls'[m].conv = page /\ calls'[m].kind = kind /\ calls'[m].question = q
      /\ calls'[m].intent = i /\ calls'[m].target = n /\ calls'[m].request = n
      /\ calls'[m].slot = (IF kind \in Kept THEN SlotFor(kind, q, n) ELSE None)
      /\ calls'[m].key = (IF kind \in Kept THEN CHOOSE k \in Key : keys'[k] = SlotFor(kind, q, n) ELSE None)
      /\ calls'[m].server = "onway" /\ calls'[m].client = "waiting" /\ calls'[m].told = None
      /\ calls'[m].data = <<>>
      /\ calls[m] = None /\ latest' = None
      /\ op' = (IF kind \in Settings \cup {"feedback"} THEN op ELSE Pending(kind))
      /\ busy' = (IF kind \in Settings \cup {"feedback"} THEN {kind} ELSE busy)
  BY <1>1, <1>3, <1>a, IssuedRow DEF KeyedIssue, Good
<1>5. calls' \in [Call -> CallRow \cup {None}]
  <2>1. calls \in [Call -> CallRow \cup {None}]
    BY DEF Good, Types, TypeOK
  <2> HIDE DEF CallRow
  <2> QED BY <1>4, <2>1
<1>6. draft' \in Question \cup {None}
  BY <1>1 DEF KeyedIssue, Good, Types, TypeOK
<1>7. Types'
  <2>1. UNCHANGED <<asked, claims, page, thread, snap, required, fetches, heard>>
    BY DEF KeyedIssue, server
  <2>2. op' = Pending(kind) /\ busy' = busy /\ kind \in Kind
    BY <1>4, <1>a
  <2> QED BY <1>3, <1>4, <1>5, <1>6, <2>1, <2>2, NoneStays DEF Good, Types, TypeOK
<1>8. /\ calls'[m].slot = SlotFor(kind, q, n)
      /\ calls'[m].key = (CHOOSE k \in Key : keys'[k] = SlotFor(kind, q, n))
      /\ op' = Pending(kind) /\ busy' = busy
  BY <1>1, <1>4, <1>a
<1> QED BY <1>1, <1>2, <1>3, <1>4, <1>7, <1>8

LEMMA PlainTypes ==
    ASSUME Good, NEW m \in Call, NEW kind, NEW q, NEW i, NEW n, PlainIssue(m, kind, q, i, n)
    PROVE  /\ Types' /\ page \in Conversation /\ kind \notin Kept
           /\ calls' = [calls EXCEPT ![m] = calls'[m]] /\ calls'[m] \in CallRow
           /\ calls'[m].conv = page /\ calls'[m].kind = kind
           /\ calls'[m].target = n /\ calls'[m].request = n
           /\ calls'[m].slot = None /\ calls'[m].key = None
           /\ calls'[m].server = "onway" /\ calls'[m].client = "waiting" /\ calls'[m].told = None
           /\ calls'[m].data = <<>>
           /\ calls[m] = None /\ latest' = None
           /\ op' = (IF kind \in Settings \cup {"feedback"} THEN op ELSE Pending(kind))
           /\ busy' = (IF kind \in Settings \cup {"feedback"} THEN {kind} ELSE busy)
<1>1. /\ page \in Conversation /\ snap \in Requests /\ kind \in Kind \ {"refresh"} /\ kind \notin Kept
      /\ q \in Question \cup {None} /\ i \in Intent \cup {None} /\ n \in Index
  BY UnlockedShape DEF PlainIssue, Good
<1>4. /\ calls' = [calls EXCEPT ![m] = calls'[m]] /\ calls'[m] \in CallRow
      /\ calls'[m].conv = page /\ calls'[m].kind = kind /\ calls'[m].question = q
      /\ calls'[m].intent = i /\ calls'[m].target = n /\ calls'[m].request = n
      /\ calls'[m].slot = (IF kind \in Kept THEN SlotFor(kind, q, n) ELSE None)
      /\ calls'[m].key = (IF kind \in Kept THEN CHOOSE k \in Key : keys'[k] = SlotFor(kind, q, n) ELSE None)
      /\ calls'[m].server = "onway" /\ calls'[m].client = "waiting" /\ calls'[m].told = None
      /\ calls'[m].data = <<>>
      /\ calls[m] = None /\ latest' = None
      /\ op' = (IF kind \in Settings \cup {"feedback"} THEN op ELSE Pending(kind))
      /\ busy' = (IF kind \in Settings \cup {"feedback"} THEN {kind} ELSE busy)
  BY <1>1, IssuedRow DEF PlainIssue, Good
<1>5. calls' \in [Call -> CallRow \cup {None}]
  <2>1. calls \in [Call -> CallRow \cup {None}]
    BY DEF Good, Types, TypeOK
  <2> HIDE DEF CallRow
  <2> QED BY <1>4, <2>1
<1>7. Types'
  <2>1. UNCHANGED <<asked, claims, page, thread, snap, required, fetches, heard, draft, keys>>
    BY DEF PlainIssue, server
  <2>2. /\ op' \in {op} \cup {Pending(k) : k \in Kind} /\ busy' \subseteq busy \cup {kind} /\ kind \in Kind
        /\ latest' = None
    BY <1>4, <1>1
  <2> HIDE DEF Kind
  <2> QED BY <1>5, <2>1, <2>2, NoneStays DEF Good, Types, TypeOK
<1> QED BY <1>1, <1>4, <1>7

LEMMA RefreshedTypes ==
    ASSUME Good, NEW m \in Call, NEW f \in Fetch, Refreshed(m, f)
    PROVE  Types'
<1>1. fetches' \in [Fetch -> FetchRow \cup {None}] /\ latest' \in Fetch \cup {None}
  BY TypesStart DEF Refreshed, Good
<1>2. calls' \in [Call -> CallRow \cup {None}]
  <2>1. calls \in [Call -> CallRow \cup {None}]
    BY DEF Good, Types, TypeOK
  <2> HIDE DEF CallRow
  <2> QED BY <2>1 DEF Refreshed
<1> QED BY <1>1, <1>2, NoneStays DEF Refreshed, Good, Types, TypeOK, server

LEMMA PolledTypes ==
    ASSUME Good, NEW f \in Fetch, Polled(f)
    PROVE  Types'
<1>1. fetches' \in [Fetch -> FetchRow \cup {None}] /\ latest' \in Fetch \cup {None}
  BY TypesStart DEF Polled, Good
<1> QED BY <1>1, NoneStays DEF Polled, Good, Types, TypeOK, server

LEMMA ReadTypes ==
    ASSUME Good, NEW f \in Fetch, ReadDone(f) \/ Unused(f)
    PROVE  Types'
<1>1. fetches[f] \in FetchRow /\ fetches[f].conv \in Conversation /\ asked[fetches[f].conv] \in Requests
  BY DEF ReadDone, Unused, Good, Types, TypeOK, FetchRow
<1>2. fetches' \in [Fetch -> FetchRow \cup {None}]
  <2>1. /\ [fetches[f] EXCEPT !.stage = "gone"] \in FetchRow
        /\ [fetches[f] EXCEPT !.stage = "read", !.data = asked[fetches[f].conv]] \in FetchRow
    BY <1>1 DEF FetchRow
  <2>2. fetches \in [Fetch -> FetchRow \cup {None}]
    BY DEF Good, Types, TypeOK
  <2>3. \/ fetches' = [fetches EXCEPT ![f] = [fetches[f] EXCEPT !.stage = "gone"]]
        \/ fetches' = [fetches EXCEPT ![f] = [fetches[f] EXCEPT !.stage = "read", !.data = asked[fetches[f].conv]]]
        \/ fetches' = [fetches EXCEPT ![f] = None]
    BY DEF ReadDone, Unused
  <2> HIDE DEF FetchRow
  <2> QED BY <2>1, <2>2, <2>3
<1> QED BY <1>2, NoneStays DEF ReadDone, Unused, Good, Types, TypeOK, server, shown

LEMMA ServedTypes ==
    ASSUME Good, NEW m, Served(m), asked' \in [Conversation -> Requests], claims' \in [Key -> Claim \cup {None}]
    PROVE  Types'
<1>1. calls' \in [Call -> CallRow \cup {None}]
  <2>1. calls \in [Call -> CallRow \cup {None}]
    BY DEF Good, Types, TypeOK
  <2> HIDE DEF CallRow
  <2> QED BY <2>1 DEF Served
<1> QED BY <1>1, NoneStays DEF Served, Good, Types, TypeOK, shown

LEMMA DroppedTypes ==
    ASSUME Good, NEW m, Dropped(m)
    PROVE  Types'
BY NoneStays DEF Dropped, Good, Types, TypeOK, shown, server

LEMMA AwayTypes ==
    ASSUME Good, NEW m \in Call, NEW result \in {"ok", "failed", "refused", "lost"},
           NEW stage \in {"onway", "generating", "done"}, HeardAway(m, result, stage)
    PROVE  Types'
<1>1. Then(m, result, stage) \in CallRow
  <2>1. Told(m, result, stage)
    BY DEF HeardAway
  <2> QED BY <2>1, ToldRow
<1>2. calls' \in [Call -> CallRow \cup {None}]
  BY <1>1, DroppedRow DEF HeardAway, Good
<1>3. keys' \in [Key -> Slot \cup {None}]
  BY KeyGoneType DEF HeardAway, Told, Good, Types, TypeOK
<1> QED BY <1>2, <1>3, NoneStays DEF HeardAway, Told, Good, Types, TypeOK, shown, server

LEMMA HereTypes ==
    ASSUME Good, NEW m \in Call, NEW f \in Fetch, NEW result \in {"ok", "failed", "refused", "lost"},
           NEW stage \in {"onway", "generating", "done"}, HeardHere(m, f, result, stage)
    PROVE  Types'
<1>0. calls[m] \in CallRow /\ calls[m].request \in Index /\ calls[m].attempt \in Index /\ page \in Conversation
  <2>1. calls[m] \in CallRow
    BY DEF HeardHere, Told, Good, Types, TypeOK
  <2> QED BY <2>1 DEF CallRow, HeardHere
<1>1. [Then(m, result, stage) EXCEPT !.client = "refreshing"] \in CallRow
  <2>1. Told(m, result, stage)
    BY DEF HeardHere
  <2> QED BY <2>1, ToldRow
<1>2. calls' \in [Call -> CallRow \cup {None}]
  <2>1. calls \in [Call -> CallRow \cup {None}]
    BY DEF Good, Types, TypeOK
  <2> HIDE DEF CallRow
  <2> QED BY <1>1, <2>1 DEF HeardHere
<1>3. keys' \in [Key -> Slot \cup {None}]
  BY <1>0, KeyGoneType DEF HeardHere, Good, Types, TypeOK
<1>4. fetches' \in [Fetch -> FetchRow \cup {None}] /\ latest' \in Fetch \cup {None}
  BY <1>0, TypesStart DEF HeardHere, Good
<1>5. heard' \in [request : Index, attempt : Index] \cup {None}
  BY <1>0 DEF HeardHere, Good, Types, TypeOK
<1>6. draft' \in Question \cup {None}
  BY DEF HeardHere, Good, Types, TypeOK
<1> QED BY <1>2, <1>3, <1>4, <1>5, <1>6, NoneStays DEF HeardHere, Told, Good, Types, TypeOK, server

LEMMA LastTypes ==
    ASSUME Good, NEW m \in Call, NEW result \in {"ok", "failed", "refused", "lost"},
           NEW stage \in {"onway", "generating", "done"}, HeardLast(m, result, stage)
    PROVE  Types'
<1>0. calls[m] \in CallRow /\ calls[m].data \in Requests
  <2>1. calls[m] \in CallRow
    BY DEF HeardLast, Told, Good, Types, TypeOK
  <2> QED BY <2>1 DEF CallRow
<1>1. Then(m, result, stage) \in CallRow
  <2>1. Told(m, result, stage)
    BY DEF HeardLast
  <2> QED BY <2>1, ToldRow
<1>2. calls' \in [Call -> CallRow \cup {None}]
  BY <1>1, DroppedRow DEF HeardLast, Good
<1>3. fetches' \in [Fetch -> FetchRow \cup {None}]
  <2>1. \A g \in Fetch : fetches[g] # None => [fetches[g] EXCEPT !.crossed = TRUE] \in FetchRow
    BY DEF Good, Types, TypeOK, FetchRow
  <2>2. fetches \in [Fetch -> FetchRow \cup {None}]
    BY DEF Good, Types, TypeOK
  <2> HIDE DEF FetchRow
  <2> QED BY <2>1, <2>2 DEF HeardLast
<1>4. snap' \in Requests \cup {None} /\ busy' \subseteq Kind
  BY <1>0 DEF HeardLast, Good, Types, TypeOK
<1>5. op' \in {Idle} \cup {Pending(kind) : kind \in Kind} \cup ErrorRow
  BY DEF HeardLast, Good, Types, TypeOK
<1> QED BY <1>2, <1>3, <1>4, <1>5, NoneStays DEF HeardLast, Told, Good, Types, TypeOK, server

LEMMA FinishedTypes ==
    ASSUME Good, NEW f, NEW applied, NEW list, list \in Requests \cup {None}, applied \in BOOLEAN,
           Finished(f, applied, list)
    PROVE  Types'
<1>1. Finish(f, applied, list)
  BY DEF Finished
<1>2. \A m \in Waiting : calls[m] \in CallRow /\ m \in Call /\ calls[m] # None
  BY DEF Waiting, Live, Good, Types, TypeOK
<1>3. calls' \in [Call -> CallRow \cup {None}]
  <2>1. \A m \in Waiting : Forget(m, calls[m]) \in CallRow \cup {None}
    BY <1>2, GoneRows
  <2>2. calls' = [m \in Call |-> IF m \in Waiting THEN Forget(m, calls[m]) ELSE calls[m]]
    BY <1>1 DEF Finish
  <2>3. calls \in [Call -> CallRow \cup {None}]
    BY DEF Good, Types, TypeOK
  <2> HIDE DEF CallRow
  <2> QED BY <2>1, <2>2, <2>3
<1>4. op' \in {Idle} \cup {Pending(kind) : kind \in Kind} \cup ErrorRow
  <2>1. PICK o \in IF \E m \in Waiting : calls[m].kind \in Asking
                THEN {After(calls[m], applied, list) : m \in {w \in Waiting : calls[w].kind \in Asking}}
                ELSE {op} :
          op' = Settle(o, list, required')
    BY <1>1 DEF Finish
  <2>2. o \in {Idle} \cup {Pending(kind) : kind \in Kind} \cup ErrorRow
    <3>1. CASE o = op
      BY <3>1 DEF Good, Types, TypeOK
    <3>2. ASSUME NEW m \in Waiting, calls[m].kind \in Asking, o = After(calls[m], applied, list)
          PROVE  o \in {Idle} \cup ErrorRow
      BY <1>2, <3>2, AfterType
    <3> QED BY <2>1, <3>1, <3>2
  <2>3. op' \in {o, Idle}
    BY <2>1 DEF Settle
  <2> QED BY <2>2, <2>3
<1>5. draft' \in {None, draft}
  BY <1>1 DEF Finish
<1>6. keys' \in [Key -> Slot \cup {None}]
  <2> DEFINE ended == {calls[m] : m \in {w \in Waiting : calls[w].kind \in Kept /\ calls[w].told # "ok"}}
  <2>1. keys' = [k \in Key |-> IF \E call \in ended : Keys(call, call.told, list)[k] = None
                                  THEN None ELSE keys[k]]
    BY <1>1 DEF Finish
  <2>2. keys \in [Key -> Slot \cup {None}]
    BY DEF Good, Types, TypeOK
  <2> HIDE DEF ended
  <2> QED BY <2>1, <2>2
<1>7. /\ fetches' = [fetches EXCEPT ![f] = None]
      /\ latest' = IF f = latest THEN None ELSE latest
      /\ required' = IF Waiting = {} THEN required ELSE ~applied
      /\ busy' = IF \E m \in Waiting : calls[m].kind = "feedback" THEN busy \ {"feedback"} ELSE busy
  BY <1>1 DEF Finish
<1>a. /\ snap' \in Requests \cup {None}
      /\ thread' \in {"none", "loading", "error", "unavailable", "success"}
  BY DEF Finished, Good, Types, TypeOK
<1>8. UNCHANGED <<asked, claims, page, heard>>
  BY DEF Finished, server
<1>9. /\ fetches' \in [Fetch -> FetchRow \cup {None}] /\ latest' \in Fetch \cup {None}
      /\ required' \in BOOLEAN /\ busy' \subseteq Kind /\ draft' \in Question \cup {None}
  BY <1>5, <1>7 DEF Good, Types, TypeOK
<1> QED BY <1>3, <1>4, <1>6, <1>8, <1>9, <1>a, NoneStays DEF Good, Types, TypeOK

LEMMA AskedDoes ==
    ASSUME Good, NEW m, Asked(m)
    PROVE  LET c == calls[m].conv
               n == Len(asked[c]) + 1
           IN  /\ asked' \in [Conversation -> Requests] /\ claims' \in [Key -> Claim \cup {None}] /\ Grows
               /\ c \in Conversation /\ n \in Nat /\ n \in DOMAIN asked'[c] /\ n \notin DOMAIN asked[c]
               /\ asked'[c][n].intent = calls[m].intent /\ asked'[c][n].question = calls[m].question
               /\ Covers(asked'[c], n, 1)
               /\ \A d \in Conversation : \A k \in DOMAIN asked[d] : k \in DOMAIN asked'[d] /\ asked'[d][k] = asked[d][k]
               /\ \A d \in Conversation : \A k \in DOMAIN asked'[d] : k \in DOMAIN asked[d] \/ (d = c /\ k = n)
               /\ claims' = [claims EXCEPT ![calls[m].key] = [conv |-> c, request |-> n]]
               /\ [conv |-> c, request |-> n] \in Claim
<1> DEFINE c == calls[m].conv
           n == Len(asked[c]) + 1
<1>1. PICK r \in Request : /\ asked' = [asked EXCEPT ![c] = Append(@, r)]
                       /\ r.question = calls[m].question /\ r.intent = calls[m].intent
  BY DEF Asked
<1>2. /\ claims' = [claims EXCEPT ![calls[m].key] = [conv |-> c, request |-> n]]
  BY DEF Asked
<1>3. calls[m] \in CallRow /\ c \in Conversation
  <2>1. calls[m] \in CallRow
    BY DEF Asked, Served, Good, Types, TypeOK
  <2> QED BY <2>1 DEF CallRow
<1>4. asked \in [Conversation -> Requests] /\ asked[c] \in Requests /\ claims \in [Key -> Claim \cup {None}]
  BY <1>3 DEF Good, Types, TypeOK
<1> HIDE DEF c
<1>5. /\ Append(asked[c], r) \in Requests /\ Past(asked[c], Append(asked[c], r))
      /\ Append(asked[c], r)[n] = r /\ DOMAIN Append(asked[c], r) = 1 .. n
      /\ \A k \in DOMAIN asked[c] : k \in DOMAIN Append(asked[c], r) /\ Append(asked[c], r)[k] = asked[c][k]
  BY <1>4, Appended
<1>6. Len(asked[c]) \in Nat /\ DOMAIN asked[c] = 1 .. Len(asked[c])
  BY <1>4 DEF Requests
<1> DEFINE t == Append(asked[c], r)
<1>7. asked' = [asked EXCEPT ![c] = t]
  BY <1>1
<1> HIDE DEF t, n
<1>8. /\ asked' \in [Conversation -> Requests] /\ asked'[c] = t
      /\ \A d \in Conversation : d # c => asked'[d] = asked[d]
  BY <1>3, <1>4, <1>5, <1>7 DEF t
<1>9. Grows
  BY <1>4, <1>5, <1>8, PastRefl DEF Grows, t
<1>10. /\ n \in Nat /\ n \in DOMAIN t /\ n \notin DOMAIN asked[c] /\ t[n] = r /\ DOMAIN t = 1 .. n
       /\ DOMAIN asked[c] = 1 .. (n - 1)
  BY <1>5, <1>6 DEF t, n
<1>11. Covers(asked'[c], n, 1)
  BY <1>8, <1>10, AgeProp DEF Covers, Request
<1>12. \A d \in Conversation : \A k \in DOMAIN asked[d] : k \in DOMAIN asked'[d] /\ asked'[d][k] = asked[d][k]
  BY <1>5, <1>8 DEF t
<1>13. \A d \in Conversation : \A k \in DOMAIN asked'[d] : k \in DOMAIN asked[d] \/ (d = c /\ k = n)
  BY <1>8, <1>10
<1>14. [conv |-> c, request |-> n] \in Claim
  BY <1>3, <1>10 DEF Claim, c
<1>15. claims' \in [Key -> Claim \cup {None}]
  BY <1>2, <1>4, <1>14 DEF n
<1> QED BY <1>1, <1>2, <1>3, <1>8, <1>9, <1>10, <1>11, <1>12, <1>13, <1>14, <1>15 DEF c, n

LEMMA BegunDoes ==
    ASSUME Good, NEW m, Begun(m)
    PROVE  LET c == calls[m].conv
               n == calls[m].target
           IN  /\ asked' \in [Conversation -> Requests] /\ claims' = claims /\ Grows
               /\ c \in Conversation /\ n \in DOMAIN asked[c]
               /\ Covers(asked'[c], n, Len(asked[c][n].attempts) + 1)
               /\ \A d \in Conversation : /\ DOMAIN asked'[d] = DOMAIN asked[d]
                                          /\ \A k \in DOMAIN asked[d] : asked'[d][k].intent = asked[d][k].intent
<1> DEFINE c == calls[m].conv
           n == calls[m].target
<1>1. asked' = [asked EXCEPT ![c][n].attempts = Append(@, "PROCESSING")] /\ claims' = claims
  BY DEF Begun
<1>3. calls[m] \in CallRow /\ c \in Conversation /\ n \in DOMAIN asked[c]
  <2>1. calls[m] \in CallRow /\ m \in Live
    BY DEF Begun, Served, Good, Types, TypeOK, Live
  <2> QED BY <2>1 DEF CallRow, Begun, Good, CallsShaped, CallShape
<1>4. asked \in [Conversation -> Requests] /\ asked[c] \in Requests
  BY <1>3 DEF Good, Types, TypeOK
<1> HIDE DEF c, n
<1> DEFINE t == [asked[c] EXCEPT ![n].attempts = Append(@, "PROCESSING")]
<1>5. /\ t \in Requests /\ Past(asked[c], t) /\ DOMAIN t = DOMAIN asked[c]
      /\ Covers(t, n, Len(asked[c][n].attempts) + 1)
      /\ \A k \in DOMAIN asked[c] : t[k].intent = asked[c][k].intent /\ t[k].question = asked[c][k].question
  BY <1>3, <1>4, Begins
<1>7. asked' = [asked EXCEPT ![c] = t]
  BY <1>1
<1> HIDE DEF t
<1>8. /\ asked' \in [Conversation -> Requests] /\ asked'[c] = t
      /\ \A d \in Conversation : d # c => asked'[d] = asked[d]
  BY <1>3, <1>4, <1>5, <1>7
<1>9. Grows
  BY <1>4, <1>5, <1>8, PastRefl DEF Grows
<1>10. \A d \in Conversation : /\ DOMAIN asked'[d] = DOMAIN asked[d]
                               /\ \A k \in DOMAIN asked[d] : asked'[d][k].intent = asked[d][k].intent
  BY <1>5, <1>8
<1> QED BY <1>1, <1>3, <1>5, <1>8, <1>9, <1>10 DEF c, n

LEMMA OverDoes ==
    ASSUME Good, NEW m, Over(m)
    PROVE  LET c == calls[m].conv
           IN  /\ asked' \in [Conversation -> Requests] /\ claims' = claims /\ Grows
               /\ c \in Conversation /\ Covers(asked'[c], calls[m].request, calls[m].attempt)
               /\ \A d \in Conversation : /\ DOMAIN asked'[d] = DOMAIN asked[d]
                                          /\ \A k \in DOMAIN asked[d] : asked'[d][k].intent = asked[d][k].intent
<1> DEFINE c == calls[m].conv
           n == calls[m].request
           j == calls[m].attempt
<1>1. PICK status \in {"COMPLETED", "FAILED"} : asked' = [asked EXCEPT ![c][n].attempts[j] = status]
  BY DEF Over
<1>2. claims' = claims
  BY DEF Over
<1>3. calls[m] \in CallRow /\ c \in Conversation /\ Covers(asked[c], n, j)
  <2>1. calls[m] \in CallRow /\ m \in Live
    BY DEF Over, Served, Good, Types, TypeOK, Live
  <2> QED BY <2>1 DEF CallRow, Over, Good, CallsShaped, CallShape
<1>4. asked \in [Conversation -> Requests] /\ asked[c] \in Requests
  BY <1>3 DEF Good, Types, TypeOK
<1> HIDE DEF c, n, j
<1> DEFINE t == Close(asked[c], n, j, status)
<1>5. /\ t \in Requests /\ Past(asked[c], t) /\ DOMAIN t = DOMAIN asked[c]
      /\ \A k \in DOMAIN asked[c] : /\ t[k].intent = asked[c][k].intent /\ t[k].question = asked[c][k].question
                                    /\ DOMAIN t[k].attempts = DOMAIN asked[c][k].attempts
  <2>1. n \in DOMAIN asked[c] /\ j \in DOMAIN asked[c][n].attempts
    BY <1>3 DEF Covers
  <2> QED BY <1>4, <2>1, Ends
<1>7. asked' = [asked EXCEPT ![c] = t]
  BY <1>1 DEF Close
<1> HIDE DEF t
<1>8. /\ asked' \in [Conversation -> Requests] /\ asked'[c] = t
      /\ \A d \in Conversation : d # c => asked'[d] = asked[d]
  BY <1>3, <1>4, <1>5, <1>7
<1>9. Grows
  BY <1>4, <1>5, <1>8, PastRefl DEF Grows
<1>10. \A d \in Conversation : /\ DOMAIN asked'[d] = DOMAIN asked[d]
                               /\ \A k \in DOMAIN asked[d] : asked'[d][k].intent = asked[d][k].intent
  BY <1>5, <1>8
<1>11. Covers(asked'[c], n, j)
  BY <1>3, <1>5, <1>8 DEF Covers
<1> QED BY <1>2, <1>3, <1>8, <1>9, <1>10, <1>11 DEF c, n, j

\* Whatever happens, the requests only grow.
LEMMA TypesNext ==
    ASSUME Good, Steps
    PROVE  Types' /\ Grows
<1>0. asked' = asked => Grows
  BY PastRefl DEF Grows, Good, Types, TypeOK
<1>1. ASSUME NEW c \in Conversation, Shows(c)
      PROVE  Types' /\ Grows
  BY <1>0, <1>1, ShowsTypes DEF Shows, server
<1>2. CASE Gone
  BY <1>0, <1>2, GoneTypes DEF Gone, server
<1>3. ASSUME NEW m \in Call, NEW kind, NEW q, NEW i, NEW n, KeyedIssue(m, kind, q, i, n)
      PROVE  Types' /\ Grows
  <2>1. asked' = asked
    BY <1>3 DEF KeyedIssue, server
  <2>2. Types'
    BY <1>3, KeyedTypes
  <2> QED BY <1>0, <2>1, <2>2
<1>4. ASSUME NEW m \in Call, NEW kind, NEW q, NEW i, NEW n, PlainIssue(m, kind, q, i, n)
      PROVE  Types' /\ Grows
  <2>1. asked' = asked
    BY <1>4 DEF PlainIssue, server
  <2>2. Types'
    BY <1>4, PlainTypes
  <2> QED BY <1>0, <2>1, <2>2
<1>5. ASSUME NEW m \in Call, NEW f \in Fetch, Refreshed(m, f)
      PROVE  Types' /\ Grows
  BY <1>0, <1>5, RefreshedTypes DEF Refreshed, server
<1>6. ASSUME NEW f \in Fetch, Polled(f) \/ ReadDone(f) \/ Unused(f)
      PROVE  Types' /\ Grows
  BY <1>0, <1>6, PolledTypes, ReadTypes DEF Polled, ReadDone, Unused, server
<1>7. ASSUME NEW m \in Call, Asked(m) \/ Begun(m) \/ Over(m) \/ Recalled(m) \/ Answered(m) \/ Dropped(m)
      PROVE  Types' /\ Grows
  <2>1. CASE Asked(m)
    <3>1. asked' \in [Conversation -> Requests] /\ claims' \in [Key -> Claim \cup {None}] /\ Grows
      BY <2>1, AskedDoes
    <3> QED BY <2>1, <3>1, ServedTypes DEF Asked
  <2>2. CASE Begun(m)
    <3>1. asked' \in [Conversation -> Requests] /\ claims' = claims /\ Grows
      BY <2>2, BegunDoes
    <3>2. claims' \in [Key -> Claim \cup {None}]
      BY <3>1 DEF Good, Types, TypeOK
    <3> QED BY <2>2, <3>1, <3>2, ServedTypes DEF Begun
  <2>3. CASE Over(m)
    <3>1. asked' \in [Conversation -> Requests] /\ claims' = claims /\ Grows
      BY <2>3, OverDoes
    <3>2. claims' \in [Key -> Claim \cup {None}]
      BY <3>1 DEF Good, Types, TypeOK
    <3> QED BY <2>3, <3>1, <3>2, ServedTypes DEF Over
  <2>4. CASE Recalled(m) \/ Answered(m)
    <3>1. asked' \in [Conversation -> Requests] /\ claims' \in [Key -> Claim \cup {None}] /\ asked' = asked
      BY <2>4 DEF Good, Types, TypeOK, Recalled, Answered
    <3> QED BY <1>0, <2>4, <3>1, ServedTypes DEF Recalled, Answered
  <2>5. CASE Dropped(m)
    BY <1>0, <2>5, DroppedTypes DEF Dropped, server
  <2> QED BY <1>7, <2>1, <2>2, <2>3, <2>4, <2>5
<1>8. ASSUME NEW m \in Call, NEW result \in {"ok", "failed", "refused", "lost"},
             NEW stage \in {"onway", "generating", "done"},
             \/ HeardAway(m, result, stage)
             \/ \E f \in Fetch : HeardHere(m, f, result, stage)
             \/ HeardLast(m, result, stage)
      PROVE  Types' /\ Grows
  BY <1>0, <1>8, AwayTypes, HereTypes, LastTypes DEF HeardAway, HeardHere, HeardLast, Told, server
<1>9. ASSUME NEW f \in Fetch, NEW applied \in BOOLEAN, NEW list \in Requests \cup {None}, Finished(f, applied, list)
      PROVE  Types' /\ Grows
  <2>1. asked' = asked
    BY <1>9 DEF Finished, server
  <2> QED BY <1>0, <1>9, <2>1, FinishedTypes
<1> QED BY <1>1, <1>2, <1>3, <1>4, <1>5, <1>6, <1>7, <1>8, <1>9 DEF Steps

-----------------------------------------------------------------------------
(* The calls *)

\* What the page forgets of a call, and what it keeps.
Later(new, old) ==
    /\ Alike(new, old)
    /\ new.server = old.server /\ new.request = old.request /\ new.attempt = old.attempt
    /\ new.result = old.result /\ new.data = old.data /\ new.told = old.told
    /\ new.client \in {old.client, "done"}

Still(w) == calls'[w] = None \/ (calls[w] # None /\ Later(calls'[w], calls[w]))

LEMMA LaterSame ==
    ASSUME NEW call
    PROVE  Later(call, call)
BY DEF Later, Alike

LEMMA ForgetLater ==
    ASSUME NEW m, NEW call \in CallRow
    PROVE  Forget(m, call) = None \/ (Later(Forget(m, call), call) /\ Forget(m, call).client = "done")
BY DEF Forget, CallRow, Alike, Later

LEMMA ShowsCalls ==
    ASSUME Good, NEW c, Shows(c), NEW w \in Call
    PROVE  /\ Still(w)
           /\ page = None => calls'[w] = calls[w]
           /\ page # None /\ calls'[w] # None => calls'[w].client # "refreshing"
<1>1. CASE calls'[w] = calls[w]
  <2>1. Still(w)
    BY <1>1, LaterSame DEF Still
  <2>2. page # None /\ calls'[w] # None => calls'[w].client # "refreshing"
    BY <1>1 DEF Shows, Forget, Good, Types, TypeOK, CallRow
  <2> QED BY <1>1, <2>1, <2>2
<1>2. CASE calls'[w] # calls[w]
  <2>1. page # None /\ calls[w] # None /\ calls'[w] = Forget(w, calls[w])
    BY <1>2 DEF Shows
  <2>2. calls[w] \in CallRow
    BY <2>1 DEF Good, Types, TypeOK
  <2> QED BY <2>1, <2>2, ForgetLater DEF Still
<1> QED BY <1>1, <1>2

LEMMA GoneCalls ==
    ASSUME Good, Gone, NEW w \in Call
    PROVE  /\ Still(w)
           /\ calls'[w] # None => calls'[w].client = "done"
<1>1. CASE calls'[w] = None
  BY <1>1 DEF Still
<1>2. CASE calls'[w] # None
  <2>1. calls'[w] = Forget(w, calls[w]) /\ calls[w] # None
    BY <1>2 DEF Gone
  <2>2. calls[w] \in CallRow
    BY <2>1 DEF Good, Types, TypeOK
  <2> QED BY <2>1, <2>2, ForgetLater DEF Still
<1> QED BY <1>1, <1>2

LEMMA OthersSame ==
    ASSUME Good, NEW m, calls' = [calls EXCEPT ![m] = calls'[m]], NEW w \in Call, w # m
    PROVE  calls'[w] = calls[w] /\ Still(w)
<1>1. calls'[w] = calls[w]
  BY DEF Good, Types, TypeOK
<1> QED BY <1>1, LaterSame DEF Still

LEMMA DroppedCalls ==
    ASSUME Good, NEW m, Dropped(m), NEW w \in Call
    PROVE  Still(w) /\ (calls'[w] # None => calls'[w] = calls[w])
<1>1. calls'[w] # None => calls'[w] = calls[w]
  BY DEF Dropped, Good, Types, TypeOK
<1> QED BY <1>1, LaterSame DEF Still

\* The call the page hears of: over for the page, or waiting for the refresh.
HeardOf(m, result, stage) ==
    /\ Alike(calls'[m], calls[m]) /\ calls'[m].told = result /\ calls'[m].server = stage
    /\ calls'[m].request = calls[m].request /\ calls'[m].attempt = calls[m].attempt
    /\ calls'[m].result = calls[m].result /\ calls'[m].data = calls[m].data

LEMMA LastCalls ==
    ASSUME Good, NEW m \in Call, NEW result \in {"ok", "failed", "refused", "lost"},
           NEW stage \in {"onway", "generating", "done"},
           HeardAway(m, result, stage) \/ HeardLast(m, result, stage)
    PROVE  /\ \A w \in Call : w # m => calls'[w] = calls[w] /\ Still(w)
           /\ calls'[m] = None \/ (calls'[m].client = "done" /\ HeardOf(m, result, stage))
<1>1. Told(m, result, stage) /\ calls' = [calls EXCEPT ![m] = Forget(m, Then(m, result, stage))]
  BY DEF HeardAway, HeardLast
<1>2. calls'[m] = Forget(m, Then(m, result, stage)) /\ \A w \in Call : w # m => calls'[w] = calls[w]
  BY <1>1 DEF Good, Types, TypeOK
<1>3. Then(m, result, stage) \in CallRow
  BY <1>1, ToldRow
<1>4. /\ Alike(Then(m, result, stage), calls[m])
      /\ Then(m, result, stage).told = result /\ Then(m, result, stage).server = stage
  BY <1>1, ToldSays
<1>5. /\ Then(m, result, stage).request = calls[m].request
      /\ Then(m, result, stage).attempt = calls[m].attempt
      /\ Then(m, result, stage).result = calls[m].result
      /\ Then(m, result, stage).data = calls[m].data
  BY <1>1, ToldKeeps
<1>6. \/ calls'[m] = None
      \/ Later(calls'[m], Then(m, result, stage)) /\ calls'[m].client = "done"
  BY <1>2, <1>3, ForgetLater
<1>7. calls'[m] = None \/ (calls'[m].client = "done" /\ HeardOf(m, result, stage))
  BY <1>4, <1>5, <1>6 DEF Later, HeardOf, Alike
<1> QED BY <1>2, <1>7, LaterSame DEF Still

LEMMA HereCalls ==
    ASSUME Good, NEW m \in Call, NEW f, NEW result \in {"ok", "failed", "refused", "lost"},
           NEW stage \in {"onway", "generating", "done"}, HeardHere(m, f, result, stage)
    PROVE  /\ \A w \in Call : w # m => calls'[w] = calls[w] /\ Still(w)
           /\ calls'[m].client = "refreshing" /\ HeardOf(m, result, stage)
<1>1. Told(m, result, stage) /\ calls' = [calls EXCEPT ![m] = [Then(m, result, stage) EXCEPT !.client = "refreshing"]]
  BY DEF HeardHere
<1>2. /\ calls'[m] = [Then(m, result, stage) EXCEPT !.client = "refreshing"]
      /\ \A w \in Call : w # m => calls'[w] = calls[w]
  BY <1>1 DEF Good, Types, TypeOK
<1>3. Then(m, result, stage) \in CallRow
  BY <1>1, ToldRow
<1>4. /\ Alike(Then(m, result, stage), calls[m])
      /\ Then(m, result, stage).told = result /\ Then(m, result, stage).server = stage
  BY <1>1, ToldSays
<1>5. /\ Then(m, result, stage).request = calls[m].request
      /\ Then(m, result, stage).attempt = calls[m].attempt
      /\ Then(m, result, stage).result = calls[m].result
      /\ Then(m, result, stage).data = calls[m].data
  BY <1>1, ToldKeeps
<1>7. calls'[m].client = "refreshing" /\ HeardOf(m, result, stage)
  BY <1>2, <1>3, <1>4, <1>5 DEF HeardOf, Alike, CallRow
<1> QED BY <1>2, <1>7, LaterSame DEF Still

LEMMA FinishedCalls ==
    ASSUME Good, NEW f, NEW applied, NEW list, Finished(f, applied, list), NEW w \in Call
    PROVE  /\ Still(w)
           /\ w \notin Waiting => calls'[w] = calls[w]
           /\ w \in Waiting /\ calls'[w] # None => calls'[w].client = "done"
<1>1. calls' = [m \in Call |-> IF m \in Waiting THEN Forget(m, calls[m]) ELSE calls[m]]
  BY DEF Finished, Finish
<1>2. CASE w \notin Waiting
  <2>1. calls'[w] = calls[w]
    BY <1>1, <1>2
  <2> QED BY <1>2, <2>1, LaterSame DEF Still
<1>3. CASE w \in Waiting
  <2>1. calls[w] # None /\ calls'[w] = Forget(w, calls[w])
    BY <1>1, <1>3 DEF Waiting, Live
  <2>2. calls[w] \in CallRow
    BY <2>1 DEF Good, Types, TypeOK
  <2> QED BY <1>3, <2>1, <2>2, ForgetLater DEF Still
<1> QED BY <1>2, <1>3

LEMMA ShapeLater ==
    ASSUME Good, Types', Grows, NEW w \in Call, calls'[w] # None, Still(w)
    PROVE  CallShape(calls[w])'
<1>1. /\ calls[w] \in CallRow /\ calls'[w] \in CallRow /\ Later(calls'[w], calls[w]) /\ CallShape(calls[w])
      /\ calls[w].conv \in Conversation
  BY DEF Still, Good, Types, TypeOK, CallsShaped, Live, CallRow
<1> DEFINE old == calls[w]
           new == calls'[w]
           c == calls[w].conv
<1>2. Past(asked[c], asked'[c]) /\ asked[c] \in Requests /\ asked'[c] \in Requests
  BY <1>1 DEF Grows, Good, Types, TypeOK
<1>3. /\ DOMAIN asked[c] \subseteq DOMAIN asked'[c]
      /\ \A n, k : Covers(asked[c], n, k) => Covers(asked'[c], n, k)
      /\ \A n \in DOMAIN asked[c] : asked'[c][n].question = asked[c][n].question
  BY <1>2, PastDomain, CoversOn DEF Past
<1>4. /\ new.conv = c /\ new.kind = old.kind /\ new.question = old.question /\ new.intent = old.intent
      /\ new.slot = old.slot /\ new.key = old.key /\ new.target = old.target /\ new.server = old.server
      /\ new.request = old.request /\ new.attempt = old.attempt /\ new.result = old.result /\ new.told = old.told
      /\ new.client \in {old.client, "done"}
  BY <1>1 DEF Later, Alike
<1>5. CallShape(old)
  BY <1>1
<1> HIDE DEF old, new, c
<1>6. /\ new.kind \in Kept => /\ new.question \in Question /\ new.intent \in Intent /\ new.key \in Key
                             /\ SlotOf(new.slot, new.conv, new.kind, new.target, new.question)
      /\ new.kind \notin Kept => new.key = None /\ new.slot = None
  BY <1>4, <1>5 DEF CallShape, c, old
<1>7. /\ new.kind \in {"edit", "retry", "regenerate"} => new.target \in DOMAIN asked'[new.conv]
      /\ new.kind \in {"retry", "regenerate"} /\ new.server = "onway" => new.request = new.target
      /\ new.server = "answered" => new.result \in {"ok", "failed", "refused"}
      /\ new.client = "waiting" => new.kind # "refresh" /\ new.told = None
  BY <1>3, <1>4, <1>5 DEF CallShape, c, old
<1>8. /\ new.server = "generating" => new.kind \in Asking /\ Covers(asked'[new.conv], new.request, new.attempt)
      /\ new.kind \in Asking /\ new.server = "answered" /\ new.result \in {"ok", "failed"}
         => Covers(asked'[new.conv], new.request, new.attempt)
  BY <1>3, <1>4, <1>5 DEF CallShape, c, old
<1>9. new.kind \in Kept /\ (\/ new.server = "generating"
                            \/ (new.server = "answered" /\ new.result \in {"ok", "failed"}))
         => asked'[new.conv][new.request].question = new.question
  <2>1. Kept \subseteq Asking
    BY DEF Asking
  <2>2. new.kind \in Kept /\ (\/ new.server = "generating"
                            \/ (new.server = "answered" /\ new.result \in {"ok", "failed"}))
         => Covers(asked[c], new.request, new.attempt) /\ asked[c][new.request].question = new.question
    BY <1>4, <1>5, <2>1 DEF CallShape, c, old
  <2> QED BY <1>3, <1>4, <2>2 DEF Covers
<1>10. new.client = "refreshing" => /\ new.told \in {"ok", "failed", "refused", "lost"}
                                    /\ new.kind \in Asking \cup {"feedback", "refresh"}
                                    /\ new.kind \in {"feedback", "refresh"} => new.told = "ok"
  BY <1>4, <1>5 DEF CallShape
<1>11. new.client = "refreshing" /\ new.told = "failed" /\ new.kind \in Asking
         => /\ new.request \in DOMAIN asked'[new.conv] /\ new.server = "done"
            /\ new.kind \in Kept => asked'[new.conv][new.request].question = new.question
  <2>1. new.client = "refreshing" /\ new.told = "failed" /\ new.kind \in Asking
         => /\ new.request \in DOMAIN asked[c] /\ new.server = "done"
            /\ new.kind \in Kept => asked[c][new.request].question = new.question
    BY <1>4, <1>5 DEF CallShape, c, old
  <2> QED BY <1>3, <1>4, <2>1
<1> QED BY <1>6, <1>7, <1>8, <1>9, <1>10, <1>11 DEF CallShape, new

\* The inductive invariant.
IInv ==
    /\ Good
    /\ Newest
    /\ OneKeyPerSlot /\ KeysOfCalls /\ ClaimsHold /\ SameKey /\ StoredClaimed /\ KeyHeld /\ OneTry /\ Retryable
    /\ Away /\ Locked /\ HeardShape /\ DraftShape
    /\ AskedOnce

LEMMA IssuedShape ==
    ASSUME Types', NEW m \in Call, calls'[m] # None, NEW n,
           calls'[m].kind \in Kept =>
              /\ calls'[m].question \in Question /\ calls'[m].intent \in Intent /\ calls'[m].key \in Key
              /\ SlotOf(calls'[m].slot, calls'[m].conv, calls'[m].kind, n, calls'[m].question),
           calls'[m].kind \notin Kept => calls'[m].key = None /\ calls'[m].slot = None,
           calls'[m].kind \in {"edit", "retry", "regenerate"} => n \in DOMAIN asked'[calls'[m].conv],
           calls'[m].target = n, calls'[m].request = n, calls'[m].server = "onway", calls'[m].client = "waiting",
           calls'[m].told = None, calls'[m].kind # "refresh"
    PROVE  CallShape(calls[m])'
BY DEF CallShape

LEMMA ServedShape ==
    ASSUME Good, Types', Grows, NEW m, Served(m), calls[m].server \in {"onway", "generating"},
           calls'[m].server \in {"generating", "answered"},
           calls'[m].server = "answered" => calls'[m].result \in {"ok", "failed", "refused"},
           calls'[m].server = "generating" => calls[m].kind \in Asking,
           calls[m].kind \in Asking /\ (calls'[m].server = "generating" \/ calls'[m].result \in {"ok", "failed"})
             => Covers(asked'[calls[m].conv], calls'[m].request, calls'[m].attempt),
           calls[m].kind \in Kept /\ (calls'[m].server = "generating" \/ calls'[m].result \in {"ok", "failed"})
             => asked'[calls[m].conv][calls'[m].request].question = calls[m].question
    PROVE  CallShape(calls[m])'
<1>1. calls[m] \in CallRow /\ CallShape(calls[m]) /\ calls[m].conv \in Conversation /\ Alike(calls'[m], calls[m])
      /\ calls'[m].client = calls[m].client /\ calls'[m].told = calls[m].told
  BY DEF Served, Good, Types, TypeOK, CallsShaped, Live, CallRow
<1> DEFINE old == calls[m]
           new == calls'[m]
           c == calls[m].conv
<1>2. DOMAIN asked[c] \subseteq DOMAIN asked'[c]
  BY <1>1, PastDomain DEF Grows, Good, Types, TypeOK
<1>4. /\ new.conv = c /\ new.kind = old.kind /\ new.question = old.question /\ new.intent = old.intent
      /\ new.slot = old.slot /\ new.key = old.key /\ new.target = old.target /\ new.told = old.told
      /\ new.client = old.client
  BY <1>1 DEF Alike
<1>5. CallShape(old)
  BY <1>1
<1>6. /\ old.server \in {"onway", "generating"}
      /\ new.server \in {"generating", "answered"}
      /\ new.server = "answered" => new.result \in {"ok", "failed", "refused"}
      /\ new.server = "generating" => old.kind \in Asking
      /\ old.kind \in Asking /\ (new.server = "generating" \/ new.result \in {"ok", "failed"})
             => Covers(asked'[c], new.request, new.attempt)
      /\ old.kind \in Kept /\ (new.server = "generating" \/ new.result \in {"ok", "failed"})
             => asked'[c][new.request].question = old.question
  OBVIOUS
<1> HIDE DEF old, new, c
<1>7. /\ new.kind \in Kept => /\ new.question \in Question /\ new.intent \in Intent /\ new.key \in Key
                             /\ SlotOf(new.slot, new.conv, new.kind, new.target, new.question)
      /\ new.kind \notin Kept => new.key = None /\ new.slot = None
  BY <1>4, <1>5 DEF CallShape, c, old
<1>8. new.kind \in {"edit", "retry", "regenerate"} => new.target \in DOMAIN asked'[new.conv]
  BY <1>2, <1>4, <1>5 DEF CallShape, c, old
<1>9. /\ new.client = "waiting" => new.kind # "refresh" /\ new.told = None
      /\ new.client = "refreshing" => /\ new.told \in {"ok", "failed", "refused", "lost"}
                                      /\ new.kind \in Asking \cup {"feedback", "refresh"}
                                      /\ new.kind \in {"feedback", "refresh"} => new.told = "ok"
      /\ ~(new.client = "refreshing" /\ new.told = "failed" /\ new.kind \in Asking)
  BY <1>4, <1>5, <1>6 DEF CallShape
<1> QED BY <1>4, <1>6, <1>7, <1>8, <1>9 DEF CallShape, new

LEMMA HeardOfShape ==
    ASSUME Good, Types', asked' = asked, NEW m \in Call, NEW result \in {"ok", "failed", "refused", "lost"},
           NEW stage \in {"onway", "generating", "done"}, Told(m, result, stage), HeardOf(m, result, stage),
           \/ calls'[m].client = "done"
           \/ /\ calls'[m].client = "refreshing"
              /\ calls[m].kind \in Asking \/ (calls[m].kind = "feedback" /\ result = "ok")
    PROVE  CallShape(calls[m])'
<1>1. calls[m] \in CallRow /\ CallShape(calls[m])
  BY DEF Told, Good, Types, TypeOK, CallsShaped, Live
<1> DEFINE old == calls[m]
           new == calls'[m]
<1>2. /\ new.conv = old.conv /\ new.kind = old.kind /\ new.question = old.question /\ new.intent = old.intent
      /\ new.slot = old.slot /\ new.key = old.key /\ new.target = old.target /\ new.told = result
      /\ new.server = stage /\ new.request = old.request /\ new.attempt = old.attempt /\ new.result = old.result
      /\ \/ new.client = "done"
         \/ new.client = "refreshing" /\ (old.kind \in Asking \/ (old.kind = "feedback" /\ result = "ok"))
  BY DEF HeardOf, Alike
<1>3. \/ old.server = "answered" /\ result = old.result /\ stage = "done"
      \/ result = "lost" /\ (stage = "done" \/ stage = old.server)
  BY DEF Told
<1>4. CallShape(old)
  BY <1>1
<1> HIDE DEF old, new
<1>5. /\ new.kind \in Kept => /\ new.question \in Question /\ new.intent \in Intent /\ new.key \in Key
                             /\ SlotOf(new.slot, new.conv, new.kind, new.target, new.question)
      /\ new.kind \notin Kept => new.key = None /\ new.slot = None
      /\ new.kind \in {"edit", "retry", "regenerate"} => new.target \in DOMAIN asked[new.conv]
  BY <1>2, <1>4 DEF CallShape
<1>6. /\ new.kind \in {"retry", "regenerate"} /\ new.server = "onway" => new.request = new.target
      /\ new.server = "generating" => new.kind \in Asking /\ Covers(asked[new.conv], new.request, new.attempt)
      /\ new.server # "answered" /\ new.client # "waiting"
      /\ new.kind \in Kept /\ new.server = "generating" => asked[new.conv][new.request].question = new.question
  BY <1>2, <1>3, <1>4 DEF CallShape
<1>7. new.client = "refreshing" => /\ new.told \in {"ok", "failed", "refused", "lost"}
                                   /\ new.kind \in Asking \cup {"feedback", "refresh"}
                                   /\ new.kind \in {"feedback", "refresh"} => new.told = "ok"
  BY <1>2 DEF Asking, Kept
<1>8. new.client = "refreshing" /\ new.told = "failed" /\ new.kind \in Asking
         => /\ new.request \in DOMAIN asked[new.conv] /\ new.server = "done"
            /\ new.kind \in Kept => asked[new.conv][new.request].question = new.question
  BY <1>2, <1>3, <1>4 DEF CallShape, Covers
<1>9. asked' = asked
  OBVIOUS
<1> QED BY <1>5, <1>6, <1>7, <1>8, <1>9 DEF CallShape, new

LEMMA AskedShape ==
    ASSUME IInv, Types', Grows, NEW m \in Call,
           Asked(m) \/ Begun(m) \/ Over(m) \/ Recalled(m) \/ Answered(m)
    PROVE  CallShape(calls[m])'
<1>0. /\ Served(m) /\ calls[m] \in CallRow /\ CallShape(calls[m]) /\ m \in Live
      /\ Good /\ calls[m].conv \in Conversation /\ Kept \subseteq Asking
  <2>1. Served(m)
    BY DEF Asked, Begun, Over, Recalled, Answered
  <2> QED BY <2>1 DEF Served, IInv, Good, Types, TypeOK, CallsShaped, Live, CallRow, Asking
<1> DEFINE c == calls[m].conv
<1>1. CASE Asked(m)
  <2>1. /\ asked'[c][Len(asked[c]) + 1].question = calls[m].question
        /\ Covers(asked'[c], Len(asked[c]) + 1, 1)
    BY <1>0, <1>1, AskedDoes
  <2>2. /\ calls[m].server = "onway" /\ calls'[m].server = "generating"
        /\ calls'[m].request = Len(asked[c]) + 1 /\ calls'[m].attempt = 1 /\ calls[m].kind \in Asking
    BY <1>0, <1>1 DEF Asked
  <2> HIDE DEF c
  <2> QED BY <1>0, <2>1, <2>2, ServedShape DEF c
<1>2. CASE Begun(m)
  <2>1. Covers(asked'[c], calls[m].target, Len(asked[c][calls[m].target].attempts) + 1)
    BY <1>0, <1>2, BegunDoes
  <2>2. /\ calls[m].server = "onway" /\ calls'[m].server = "generating"
        /\ calls'[m].request = calls[m].target /\ calls'[m].attempt = Len(asked[c][calls[m].target].attempts) + 1
        /\ calls[m].kind \in {"retry", "regenerate"}
    BY <1>2 DEF Begun
  <2>3. calls[m].kind \in Asking /\ calls[m].kind \notin Kept
    BY <2>2 DEF Asking, Kept
  <2> HIDE DEF c
  <2> QED BY <1>0, <2>1, <2>2, <2>3, ServedShape DEF c
<1>3. CASE Over(m)
  <2>1. Covers(asked'[c], calls[m].request, calls[m].attempt)
    BY <1>0, <1>3, OverDoes
  <2>2. /\ calls[m].server = "generating" /\ calls'[m].server = "answered" /\ calls'[m].result \in {"ok", "failed"}
        /\ calls'[m].request = calls[m].request /\ calls'[m].attempt = calls[m].attempt
    BY <1>3 DEF Over
  <2>3. calls[m].kind \in Asking /\ Covers(asked[c], calls[m].request, calls[m].attempt)
        /\ (calls[m].kind \in Kept => asked[c][calls[m].request].question = calls[m].question)
    BY <1>0, <2>2 DEF CallShape
  <2>4. calls[m].kind \in Kept => asked'[c][calls[m].request].question = calls[m].question
    BY <1>0, <2>3 DEF Grows, Past, Covers
  <2> HIDE DEF c
  <2> QED BY <1>0, <2>1, <2>2, <2>3, <2>4, ServedShape DEF c
<1>4. CASE Recalled(m)
  <2> DEFINE k == calls[m].key
  <2>1. /\ calls[m].server = "onway" /\ calls'[m].server = "answered" /\ calls'[m].result \in {"ok", "failed"}
        /\ calls[m].kind \in Kept /\ claims[k] # None
        /\ calls'[m].request = claims[k].request /\ calls'[m].attempt = 1 /\ asked' = asked
    BY <1>4 DEF Recalled
  <2>2. k \in Key /\ m \in KeptCalls
    BY <1>0, <2>1 DEF CallShape, KeptCalls
  <2>3. /\ claims[k].request \in DOMAIN asked[claims[k].conv]
        /\ calls[m].conv = claims[k].conv
        /\ calls[m].question = asked[claims[k].conv][claims[k].request].question
    BY <2>1, <2>2 DEF IInv, ClaimsHold
  <2>4. asked[c][claims[k].request] \in Request
    BY <1>0, <2>3 DEF Good, Types, TypeOK, Requests
  <2>5. Covers(asked[c], claims[k].request, 1)
    <3>1. Len(asked[c][claims[k].request].attempts) \in Nat \ {0}
      BY <2>4, AgeProp
    <3>2. DOMAIN asked[c][claims[k].request].attempts = 1 .. Len(asked[c][claims[k].request].attempts)
      BY <2>4 DEF Request
    <3> QED BY <2>3, <3>1, <3>2 DEF Covers
  <2> HIDE DEF c, k
  <2> QED BY <1>0, <2>1, <2>3, <2>5, ServedShape DEF c
<1>5. CASE Answered(m)
  <2>1. /\ calls[m].server = "onway" /\ calls'[m].server = "answered" /\ calls'[m].result \in {"ok", "refused"}
        /\ calls'[m].result = "ok" => calls[m].kind \notin Asking
    BY <1>5 DEF Answered
  <2> QED BY <1>0, <2>1, ServedShape
<1> QED BY <1>1, <1>2, <1>3, <1>4, <1>5

LEMMA ShapesNext ==
    ASSUME IInv, Steps
    PROVE  CallsShaped'
<1>0. Good /\ Types' /\ Grows
  BY TypesNext DEF IInv
<1> SUFFICES ASSUME NEW w \in Call, calls'[w] # None
             PROVE  CallShape(calls[w])'
  BY DEF CallsShaped, Live
<1>s. Still(w) => CallShape(calls[w])'
  BY <1>0, ShapeLater
<1>i. asked' = asked /\ calls'[w] = calls[w] => CallShape(calls[w])'
  BY <1>s, LaterSame DEF Still
<1>1. ASSUME NEW c \in Conversation, Shows(c)
      PROVE  CallShape(calls[w])'
  BY <1>0, <1>1, <1>s, ShowsCalls
<1>2. CASE Gone
  BY <1>0, <1>2, <1>s, GoneCalls
<1>3. ASSUME NEW m \in Call, NEW kind, NEW q, NEW i, NEW n, KeyedIssue(m, kind, q, i, n)
      PROVE  CallShape(calls[w])'
  <2>1. calls' = [calls EXCEPT ![m] = calls'[m]] /\ asked' = asked /\ page' = page
    BY <1>0, <1>3, KeyedTypes DEF KeyedIssue, server
  <2>2. CASE w # m
    BY <1>0, <1>s, <2>1, <2>2, OthersSame
  <2>3. CASE w = m
    <3>1. /\ calls'[m] \in CallRow
          /\ calls'[m].conv = page /\ calls'[m].kind = kind /\ calls'[m].question = q
          /\ calls'[m].intent = i /\ calls'[m].target = n /\ calls'[m].request = n
          /\ calls'[m].slot = SlotFor(kind, q, n) /\ calls'[m].key \in Key
          /\ calls'[m].server = "onway" /\ calls'[m].client = "waiting" /\ calls'[m].told = None
          /\ SlotOf(SlotFor(kind, q, n), page, kind, n, q)
      BY <1>0, <1>3, KeyedTypes
    <3>2. kind \in Kept /\ q \in Question /\ i \in Intent /\ (kind = "edit" => n \in DOMAIN asked[page])
      BY <1>3 DEF KeyedIssue
    <3>3. kind \notin {"retry", "regenerate", "refresh"}
      BY <3>2 DEF Kept
    <3> QED BY <1>0, <2>1, <2>3, <3>1, <3>2, <3>3, IssuedShape
  <2> QED BY <2>2, <2>3
<1>4. ASSUME NEW m \in Call, NEW kind, NEW q, NEW i, NEW n, PlainIssue(m, kind, q, i, n)
      PROVE  CallShape(calls[w])'
  <2>1. calls' = [calls EXCEPT ![m] = calls'[m]] /\ asked' = asked /\ page' = page
    BY <1>0, <1>4, PlainTypes DEF PlainIssue, server
  <2>2. CASE w # m
    BY <1>0, <1>s, <2>1, <2>2, OthersSame
  <2>3. CASE w = m
    <3>1. /\ calls'[m] \in CallRow
          /\ calls'[m].conv = page /\ calls'[m].kind = kind /\ kind \notin Kept
          /\ calls'[m].target = n /\ calls'[m].request = n
          /\ calls'[m].slot = None /\ calls'[m].key = None
          /\ calls'[m].server = "onway" /\ calls'[m].client = "waiting" /\ calls'[m].told = None
      BY <1>0, <1>4, PlainTypes
    <3>2. kind # "refresh" /\ (kind \in {"retry", "regenerate"} => n \in DOMAIN asked[page]) /\ kind # "edit"
      BY <1>4, <3>1 DEF PlainIssue, Kept
    <3> QED BY <1>0, <2>1, <2>3, <3>1, <3>2, IssuedShape
  <2> QED BY <2>2, <2>3
<1>5. ASSUME NEW m \in Call, NEW f \in Fetch, Refreshed(m, f)
      PROVE  CallShape(calls[w])'
  <2>1. calls' = [calls EXCEPT ![m] = calls'[m]]
    BY <1>5 DEF Refreshed
  <2>2. CASE w # m
    BY <1>0, <1>s, <2>1, <2>2, OthersSame
  <2>3. CASE w = m
    <3>1. "refresh" \notin Asking
      BY DEF Asking, Kept
    <3> QED BY <1>5, <2>3, <3>1 DEF Refreshed, CallShape, Kept
  <2> QED BY <2>2, <2>3
<1>6. ASSUME NEW f \in Fetch, Polled(f) \/ ReadDone(f) \/ Unused(f)
      PROVE  CallShape(calls[w])'
  BY <1>6, <1>i DEF Polled, ReadDone, Unused, server
<1>7. ASSUME NEW m \in Call, Asked(m) \/ Begun(m) \/ Over(m) \/ Recalled(m) \/ Answered(m)
      PROVE  CallShape(calls[w])'
  <2>1. Served(m)
    BY <1>7 DEF Asked, Begun, Over, Recalled, Answered
  <2>2. CASE w # m
    BY <1>0, <1>s, <2>1, <2>2, OthersSame DEF Served
  <2> QED BY <1>0, <1>7, <2>2, AskedShape
<1>8. ASSUME NEW m \in Call, Dropped(m)
      PROVE  CallShape(calls[w])'
  BY <1>0, <1>8, <1>s, DroppedCalls
<1>9. ASSUME NEW m \in Call, NEW result \in {"ok", "failed", "refused", "lost"},
             NEW stage \in {"onway", "generating", "done"},
             \/ HeardAway(m, result, stage)
             \/ \E f \in Fetch : HeardHere(m, f, result, stage)
             \/ HeardLast(m, result, stage)
      PROVE  CallShape(calls[w])'
  <2>1. Told(m, result, stage) /\ asked' = asked
    BY <1>9 DEF HeardAway, HeardHere, HeardLast, Told, server
  <2>2. CASE w # m
    BY <1>0, <1>9, <1>s, <2>2, LastCalls, HereCalls
  <2>3. CASE w = m /\ (HeardAway(m, result, stage) \/ HeardLast(m, result, stage))
    <3>1. calls'[m].client = "done" /\ HeardOf(m, result, stage)
      BY <1>0, <2>3, LastCalls
    <3> QED BY <1>0, <2>1, <2>3, <3>1, HeardOfShape
  <2>4. ASSUME w = m, NEW f \in Fetch, HeardHere(m, f, result, stage)
        PROVE  CallShape(calls[w])'
    <3>1. calls'[m].client = "refreshing" /\ HeardOf(m, result, stage)
      BY <1>0, <2>4, HereCalls
    <3>2. calls[m].kind \in Asking \/ (calls[m].kind = "feedback" /\ result = "ok")
      BY <2>4 DEF HeardHere
    <3> QED BY <1>0, <2>1, <2>4, <3>1, <3>2, HeardOfShape
  <2> QED BY <1>9, <2>2, <2>3, <2>4
<1>10. ASSUME NEW f \in Fetch, NEW applied \in BOOLEAN, NEW list \in Requests \cup {None}, Finished(f, applied, list)
       PROVE  CallShape(calls[w])'
  BY <1>0, <1>10, <1>s, FinishedCalls
<1> QED BY <1>1, <1>2, <1>3, <1>4, <1>5, <1>6, <1>7, <1>8, <1>9, <1>10 DEF Steps

-----------------------------------------------------------------------------
(* What is read and shown *)

LEMMA StartedFetch ==
    ASSUME Types, NEW g \in Fetch, NEW c, NEW loading, StartFetch(g, c, loading), NEW f \in Fetch
    PROVE  /\ f = g => fetches'[f].stage = "sent" /\ fetches'[f].data = <<>> /\ fetches'[f].conv = c
           /\ f # g => fetches'[f] = fetches[f] /\ f # latest'
           /\ latest' = g
BY DEF Types, TypeOK, StartFetch

FetchKept(f) ==
    /\ fetches[f] # None
    /\ fetches'[f].conv = fetches[f].conv /\ fetches'[f].data = fetches[f].data
    /\ fetches'[f].stage = fetches[f].stage /\ (~fetches'[f].crossed => ~fetches[f].crossed)
    /\ f = latest' => f = latest

FetchRead(f) ==
    /\ fetches[f] # None /\ fetches'[f].conv = fetches[f].conv
    /\ fetches'[f].stage = "read" /\ fetches'[f].data = asked[fetches[f].conv]
    /\ f = latest' => f = latest
    /\ UNCHANGED <<asked, page, snap, heard, visited>>

FetchSent(f) == fetches'[f].stage = "sent" /\ fetches'[f].data = <<>>

FetchGone(f) ==
    /\ fetches[f] # None /\ fetches'[f].conv = fetches[f].conv
    /\ fetches'[f].stage = "gone" /\ fetches'[f].data = fetches[f].data

FetchMoves(f) == FetchKept(f) \/ FetchRead(f) \/ FetchSent(f) \/ FetchGone(f)

LEMMA FetchSteps ==
    ASSUME Good, Steps, NEW f \in Fetch, fetches'[f] # None
    PROVE  FetchMoves(f)
<1>0. f # None
  BY NoneApart DEF Good
<1>i. fetches'[f] = fetches[f] /\ (f = latest' => f = latest) => FetchMoves(f)
  BY DEF FetchKept, FetchMoves
<1>g. ASSUME NEW g \in Fetch, NEW c, NEW loading, StartFetch(g, c, loading)
      PROVE  FetchMoves(f)
  <2>1. CASE f = g
    BY <1>g, <2>1, StartedFetch DEF Good, FetchSent, FetchMoves
  <2>2. CASE f # g
    BY <1>g, <1>i, <2>2, StartedFetch DEF Good
  <2> QED BY <2>1, <2>2
<1>u. fetches' = fetches /\ latest' \in {latest, None} => FetchMoves(f)
  BY <1>0, <1>i
<1>1. ASSUME NEW c \in Conversation, Shows(c)
      PROVE  FetchMoves(f)
  BY <1>1, <1>g DEF Shows
<1>2. CASE Gone
  BY <1>2 DEF Gone, GoAway
<1>3. ASSUME NEW m \in Call, NEW kind, NEW q, NEW i, NEW n, KeyedIssue(m, kind, q, i, n)
      PROVE  FetchMoves(f)
  BY <1>3, <1>u, KeyedTypes DEF KeyedIssue
<1>4. ASSUME NEW m \in Call, NEW kind, NEW q, NEW i, NEW n, PlainIssue(m, kind, q, i, n)
      PROVE  FetchMoves(f)
  BY <1>4, <1>u, PlainTypes DEF PlainIssue
<1>5. ASSUME NEW g \in Fetch, Polled(g) \/ \E m \in Call : Refreshed(m, g)
      PROVE  FetchMoves(f)
  BY <1>5, <1>g DEF Refreshed, Polled
<1>6. ASSUME NEW g \in Fetch, ReadDone(g) \/ Unused(g)
      PROVE  FetchMoves(f)
  <2>1. latest' = latest /\ asked' = asked /\ UNCHANGED <<page, snap, heard, visited>>
    BY <1>6 DEF ReadDone, Unused, shown, server
  <2>2. CASE f # g
    <3>1. fetches'[f] = fetches[f]
      BY <1>6, <2>2 DEF ReadDone, Unused, Good, Types, TypeOK
    <3> QED BY <1>i, <2>1, <3>1
  <2>3. CASE f = g /\ ReadDone(g)
    <3>1. fetches[f] \in FetchRow
      BY <2>3 DEF ReadDone, Good, Types, TypeOK
    <3>2. CASE fetches' = [fetches EXCEPT ![f].stage = "gone"]
      <4>1. fetches'[f] = [fetches[f] EXCEPT !.stage = "gone"]
        BY <3>2 DEF Good, Types, TypeOK
      <4>2. fetches'[f].stage = "gone" /\ f \in Fetch
        BY <3>1, <4>1 DEF FetchRow
      <4> QED BY <2>1, <2>3, <3>1, <4>1, <4>2 DEF ReadDone, FetchGone, FetchRow, FetchMoves
    <3>3. CASE fetches' = [fetches EXCEPT ![f].stage = "read", ![f].data = asked[fetches[f].conv]]
      <4>1. fetches'[f] = [fetches[f] EXCEPT !.stage = "read", !.data = asked[fetches[f].conv]]
        BY <3>3 DEF Good, Types, TypeOK
      <4> QED BY <2>1, <2>3, <3>1, <4>1 DEF ReadDone, FetchRead, FetchRow, FetchMoves
    <3> QED BY <2>3, <3>2, <3>3 DEF ReadDone
  <2>4. CASE f = g /\ Unused(g)
    BY <2>4 DEF Unused, Good, Types, TypeOK
  <2> QED BY <1>6, <2>2, <2>3, <2>4
<1>7. ASSUME NEW m \in Call, Asked(m) \/ Begun(m) \/ Over(m) \/ Recalled(m) \/ Answered(m) \/ Dropped(m)
      PROVE  FetchMoves(f)
  BY <1>7, <1>u DEF Asked, Begun, Over, Recalled, Answered, Dropped, Served, shown
<1>8. ASSUME NEW m \in Call, NEW result \in {"ok", "failed", "refused", "lost"},
             NEW stage \in {"onway", "generating", "done"},
             \/ HeardAway(m, result, stage)
             \/ \E g \in Fetch : HeardHere(m, g, result, stage)
             \/ HeardLast(m, result, stage)
      PROVE  FetchMoves(f)
  <2>1. CASE HeardAway(m, result, stage)
    BY <1>u, <2>1 DEF HeardAway, shown
  <2>2. CASE \E g \in Fetch : HeardHere(m, g, result, stage)
    BY <1>g, <2>2 DEF HeardHere
  <2>3. CASE HeardLast(m, result, stage)
    <3>1. CASE fetches' = fetches
      BY <1>u, <2>3, <3>1 DEF HeardLast
    <3>2. CASE fetches' = [g \in Fetch |-> IF fetches[g] = None THEN None
                              ELSE [fetches[g] EXCEPT !.crossed = TRUE]]
      <4>1. fetches[f] # None /\ fetches'[f] = [fetches[f] EXCEPT !.crossed = TRUE] /\ fetches[f] \in FetchRow
        BY <3>2 DEF Good, Types, TypeOK
      <4>2. latest' = latest
        BY <2>3 DEF HeardLast
      <4> QED BY <4>1, <4>2 DEF FetchKept, FetchRow, FetchMoves
    <3> QED BY <2>3, <3>1, <3>2 DEF HeardLast
  <2> QED BY <1>8, <2>1, <2>2, <2>3
<1>9. ASSUME NEW g \in Fetch, NEW applied \in BOOLEAN, NEW list \in Requests \cup {None}, Finished(g, applied, list)
      PROVE  FetchMoves(f)
  <2>1. fetches' = [fetches EXCEPT ![g] = None] /\ latest' = (IF g = latest THEN None ELSE latest)
    BY <1>9 DEF Finished, Finish
  <2>2. fetches'[f] = fetches[f]
    BY <2>1 DEF Good, Types, TypeOK
  <2> QED BY <1>0, <1>i, <2>1, <2>2
<1> QED BY <1>1, <1>2, <1>3, <1>4, <1>5, <1>6, <1>7, <1>8, <1>9 DEF Steps

LEMMA PastGrows ==
    ASSUME Good, Types', Grows, NEW c \in Conversation, NEW list \in Requests, Past(list, asked[c])
    PROVE  Past(list, asked'[c])
<1>1. Past(asked[c], asked'[c]) /\ asked[c] \in Requests /\ asked'[c] \in Requests
  BY DEF Grows, Good, Types, TypeOK
<1> QED BY <1>1, PastTrans

\* The answer a call brings is what it was, nothing, or the conversation as it is.
DataMoves(w) ==
    \/ calls'[w].data = <<>>
    \/ calls[w] # None /\ calls'[w].conv = calls[w].conv /\ calls'[w].data = calls[w].data
    \/ /\ calls[w] # None /\ calls'[w].conv = calls[w].conv /\ calls'[w].data = asked[calls[w].conv]
       /\ asked' = asked

LEMMA DataSteps ==
    ASSUME Good, Steps, NEW w \in Call, calls'[w] # None
    PROVE  DataMoves(w)
<1>0. Types' /\ Grows
  BY TypesNext
<1>s. Still(w) => DataMoves(w)
  BY DEF Still, Later, Alike, DataMoves
<1>i. calls'[w] = calls[w] => DataMoves(w)
  BY DEF DataMoves
<1>1. ASSUME NEW c \in Conversation, Shows(c)
      PROVE  DataMoves(w)
  BY <1>1, <1>s, ShowsCalls
<1>2. CASE Gone
  BY <1>2, <1>s, GoneCalls
<1>3. ASSUME NEW m \in Call, NEW kind, NEW q, NEW i, NEW n, KeyedIssue(m, kind, q, i, n)
      PROVE  DataMoves(w)
  <2>1. calls' = [calls EXCEPT ![m] = calls'[m]] /\ calls'[m].data = <<>>
    BY <1>3, KeyedTypes
  <2> QED BY <1>s, <2>1, OthersSame DEF DataMoves
<1>4. ASSUME NEW m \in Call, NEW kind, NEW q, NEW i, NEW n, PlainIssue(m, kind, q, i, n)
      PROVE  DataMoves(w)
  <2>1. calls' = [calls EXCEPT ![m] = calls'[m]] /\ calls'[m].data = <<>>
    BY <1>4, PlainTypes
  <2> QED BY <1>s, <2>1, OthersSame DEF DataMoves
<1>5. ASSUME NEW m \in Call, NEW f \in Fetch, Refreshed(m, f)
      PROVE  DataMoves(w)
  <2>1. calls' = [calls EXCEPT ![m] = calls'[m]] /\ calls'[m].data = <<>>
    BY <1>5 DEF Refreshed
  <2> QED BY <1>s, <2>1, OthersSame DEF DataMoves
<1>6. ASSUME NEW f \in Fetch, Polled(f) \/ ReadDone(f) \/ Unused(f)
      PROVE  DataMoves(w)
  BY <1>6, <1>i DEF Polled, ReadDone, Unused
<1>7. ASSUME NEW m \in Call, Asked(m) \/ Begun(m) \/ Over(m) \/ Recalled(m) \/ Answered(m)
      PROVE  DataMoves(w)
  <2>1. Served(m) /\ calls[m] # None
    BY <1>7 DEF Asked, Begun, Over, Recalled, Answered, Served
  <2>2. CASE w # m
    BY <1>s, <2>1, <2>2, OthersSame DEF Served
  <2>3. CASE w = m
    <3>1. calls'[m].conv = calls[m].conv
      BY <2>1 DEF Served, Alike
    <3>2. \/ calls'[m].data = calls[m].data
          \/ calls'[m].data = <<>>
          \/ calls'[m].data = asked[calls[m].conv] /\ asked' = asked
      BY <1>7 DEF Asked, Begun, Over, Recalled, Answered
    <3> QED BY <2>1, <2>3, <3>1, <3>2 DEF DataMoves
  <2> QED BY <2>2, <2>3
<1>8. ASSUME NEW m \in Call, Dropped(m)
      PROVE  DataMoves(w)
  BY <1>8, <1>s, DroppedCalls
<1>9. ASSUME NEW m \in Call, NEW result \in {"ok", "failed", "refused", "lost"},
             NEW stage \in {"onway", "generating", "done"},
             \/ HeardAway(m, result, stage)
             \/ \E f \in Fetch : HeardHere(m, f, result, stage)
             \/ HeardLast(m, result, stage)
      PROVE  DataMoves(w)
  <2>1. w # m => Still(w)
    BY <1>9, LastCalls, HereCalls
  <2>2. w = m => HeardOf(m, result, stage)
    BY <1>9, LastCalls, HereCalls
  <2>3. calls[m] # None
    BY <1>9 DEF HeardAway, HeardHere, HeardLast, Told
  <2> QED BY <1>s, <2>1, <2>2, <2>3 DEF HeardOf, Alike, DataMoves
<1>10. ASSUME NEW f \in Fetch, NEW applied \in BOOLEAN, NEW list \in Requests \cup {None}, Finished(f, applied, list)
       PROVE  DataMoves(w)
  BY <1>10, <1>s, FinishedCalls
<1> QED BY <1>1, <1>2, <1>3, <1>4, <1>5, <1>6, <1>7, <1>8, <1>9, <1>10 DEF Steps

\* The screen: blank, as before, or as the conversation is known to have been.
SnapMoves ==
    \/ snap' = None /\ thread' = "loading" /\ page' # None
    \/ snap' = None /\ thread' = "none"
    \/ page' = page /\ snap' = snap /\ thread' = thread
    \/ page' = page /\ page \in Conversation /\ snap' = snap /\ thread' \in {thread, "unavailable", "error"}
    \/ /\ page' = page /\ page \in Conversation /\ thread' = "success" /\ snap' \in Requests
       /\ Past(snap', asked[page])

LEMMA SnapSteps ==
    ASSUME Good, Steps
    PROVE  SnapMoves
<1>i. UNCHANGED <<page, snap, thread>> => SnapMoves
  BY DEF SnapMoves
<1>1. ASSUME NEW c \in Conversation, Shows(c)
      PROVE  SnapMoves
  BY <1>1, NoneApart DEF Shows, SnapMoves, Good
<1>2. CASE Gone
  BY <1>2 DEF Gone, GoAway, SnapMoves
<1>3. ASSUME NEW m \in Call, NEW kind, NEW q, NEW i, NEW n,
             KeyedIssue(m, kind, q, i, n) \/ PlainIssue(m, kind, q, i, n)
      PROVE  SnapMoves
  BY <1>3, <1>i DEF KeyedIssue, PlainIssue
<1>5. ASSUME NEW f \in Fetch, Polled(f) \/ ReadDone(f) \/ Unused(f) \/ \E m \in Call : Refreshed(m, f)
      PROVE  SnapMoves
  BY <1>5, <1>i DEF Refreshed, Polled, ReadDone, Unused, shown
<1>7. ASSUME NEW m \in Call, Asked(m) \/ Begun(m) \/ Over(m) \/ Recalled(m) \/ Answered(m) \/ Dropped(m)
      PROVE  SnapMoves
  BY <1>7, <1>i DEF Asked, Begun, Over, Recalled, Answered, Dropped, Served, shown
<1>9. ASSUME NEW m \in Call, NEW result \in {"ok", "failed", "refused", "lost"},
             NEW stage \in {"onway", "generating", "done"},
             \/ HeardAway(m, result, stage)
             \/ \E f \in Fetch : HeardHere(m, f, result, stage)
             \/ HeardLast(m, result, stage)
      PROVE  SnapMoves
  <2>1. CASE HeardAway(m, result, stage) \/ \E f \in Fetch : HeardHere(m, f, result, stage)
    BY <1>i, <2>1 DEF HeardAway, HeardHere, shown
  <2>2. CASE HeardLast(m, result, stage)
    <3>1. calls[m] \in CallRow /\ calls[m].conv = page /\ m \in Live
      BY <2>2 DEF HeardLast, Told, Good, Types, TypeOK, Live
    <3>2. page \in Conversation /\ calls[m].data \in Requests
      BY <3>1 DEF CallRow
    <3>3. Past(calls[m].data, asked[page])
      BY <3>1 DEF Good, Shown
    <3> QED BY <1>i, <2>2, <3>2, <3>3 DEF HeardLast, SnapMoves
  <2> QED BY <1>9, <2>1, <2>2
<1>10. ASSUME NEW f \in Fetch, NEW applied \in BOOLEAN, NEW list \in Requests \cup {None}, Finished(f, applied, list)
       PROVE  SnapMoves
  <2>1. fetches[f] \in FetchRow /\ fetches[f].conv = page /\ f \in InFlight
    BY <1>10 DEF Finished, Good, Types, TypeOK, InFlight
  <2>2. page \in Conversation /\ fetches[f].data \in Requests
    BY <2>1 DEF FetchRow
  <2>3. Past(fetches[f].data, asked[page])
    BY <2>1 DEF Good, Shown
  <2> QED BY <1>10, <2>2, <2>3 DEF Finished, SnapMoves
<1> QED BY <1>1, <1>2, <1>3, <1>5, <1>7, <1>9, <1>10 DEF Steps

LEMMA ShownNext ==
    ASSUME Good, Steps
    PROVE  Shown'
<1>0. Types' /\ Grows
  BY TypesNext
<1>1. /\ page' = None => thread' = "none"
      /\ snap' # None => snap' \in Requests /\ page' \in Conversation /\ Past(snap', asked'[page'])
      /\ thread' = "success" => snap' \in Requests /\ page' \in Conversation /\ Past(snap', asked'[page'])
  <2>0. /\ page = None => thread = "none"
        /\ snap # None => snap \in Requests /\ page \in Conversation /\ Past(snap, asked[page])
        /\ thread = "success" => snap \in Requests /\ page \in Conversation /\ Past(snap, asked[page])
    BY DEF Good, Shown
  <2>1. /\ snap # None => Past(snap, asked'[page])
        /\ thread = "success" => Past(snap, asked'[page])
    BY <1>0, <2>0, PastGrows
  <2>2. snap' \in Requests /\ page \in Conversation /\ Past(snap', asked[page]) => Past(snap', asked'[page])
    BY <1>0, PastGrows
  <2>3. page \in Conversation => page # None
    BY NoneApart DEF Good
  <2> QED BY <2>0, <2>1, <2>2, <2>3, SnapSteps DEF SnapMoves
<1>2. ASSUME NEW f \in Fetch, fetches'[f] # None
      PROVE  Past(fetches'[f].data, asked'[fetches'[f].conv])
  <2>0. fetches'[f] \in FetchRow /\ (fetches[f] # None => fetches[f] \in FetchRow)
    BY <1>0, <1>2 DEF Good, Types, TypeOK
  <2>1. /\ fetches'[f].conv \in Conversation /\ asked'[fetches'[f].conv] \in Requests
        /\ fetches[f] # None => fetches[f].conv \in Conversation /\ fetches[f].data \in Requests
    BY <1>0, <2>0 DEF FetchRow, Types, TypeOK
  <2>2. fetches[f] # None => Past(fetches[f].data, asked[fetches[f].conv])
    BY DEF Good, Shown, InFlight
  <2>3. fetches[f] # None => Past(fetches[f].data, asked'[fetches[f].conv])
    BY <1>0, <2>1, <2>2, PastGrows
  <2>4. CASE FetchKept(f) \/ FetchGone(f)
    BY <2>3, <2>4 DEF FetchKept, FetchGone
  <2>5. CASE FetchRead(f)
    BY <1>0, <2>1, <2>5, PastRefl DEF FetchRead
  <2>6. CASE FetchSent(f)
    BY <2>1, <2>6, PastEmpty DEF FetchSent
  <2> QED BY <1>2, <2>4, <2>5, <2>6, FetchSteps DEF FetchMoves
<1>3. ASSUME NEW w \in Call, calls'[w] # None
      PROVE  Past(calls'[w].data, asked'[calls'[w].conv])
  <2>0. calls'[w] \in CallRow /\ (calls[w] # None => calls[w] \in CallRow)
    BY <1>0, <1>3 DEF Good, Types, TypeOK
  <2>1. /\ calls'[w].conv \in Conversation /\ asked'[calls'[w].conv] \in Requests
        /\ calls[w] # None => calls[w].conv \in Conversation /\ calls[w].data \in Requests
    BY <1>0, <2>0 DEF CallRow, Types, TypeOK
  <2>2. calls[w] # None => Past(calls[w].data, asked[calls[w].conv])
    BY DEF Good, Shown, Live
  <2>3. calls[w] # None => Past(calls[w].data, asked'[calls[w].conv])
    BY <1>0, <2>1, <2>2, PastGrows
  <2>4. DataMoves(w)
    BY <1>3, DataSteps
  <2> QED BY <1>0, <2>1, <2>3, <2>4, PastRefl, PastEmpty DEF DataMoves
<1> QED BY <1>1, <1>2, <1>3 DEF Shown, InFlight, Live

LEMMA SnapStays ==
    ASSUME Good, Steps
    PROVE  \/ UNCHANGED <<page, snap, visited>>
           \/ \E c \in Conversation : Shows(c)
           \/ Gone
           \/ \E m \in Call, result \in {"ok", "failed", "refused", "lost"}, stage \in {"onway", "generating", "done"} :
                 HeardLast(m, result, stage)
           \/ \E f \in Fetch, applied \in BOOLEAN, list \in Requests \cup {None} : Finished(f, applied, list)
<1>3. ASSUME NEW m \in Call, NEW kind, NEW q, NEW i, NEW n,
             KeyedIssue(m, kind, q, i, n) \/ PlainIssue(m, kind, q, i, n)
      PROVE  UNCHANGED <<page, snap, visited>>
  BY <1>3 DEF KeyedIssue, PlainIssue
<1>5. ASSUME NEW f \in Fetch, Polled(f) \/ ReadDone(f) \/ Unused(f) \/ \E m \in Call : Refreshed(m, f)
      PROVE  UNCHANGED <<page, snap, visited>>
  BY <1>5 DEF Refreshed, Polled, ReadDone, Unused, shown
<1>7. ASSUME NEW m \in Call, Asked(m) \/ Begun(m) \/ Over(m) \/ Recalled(m) \/ Answered(m) \/ Dropped(m)
      PROVE  UNCHANGED <<page, snap, visited>>
  BY <1>7 DEF Asked, Begun, Over, Recalled, Answered, Dropped, Served, shown
<1>9. ASSUME NEW m \in Call, NEW result \in {"ok", "failed", "refused", "lost"},
             NEW stage \in {"onway", "generating", "done"},
             HeardAway(m, result, stage) \/ \E f \in Fetch : HeardHere(m, f, result, stage)
      PROVE  UNCHANGED <<page, snap, visited>>
  BY <1>9 DEF HeardAway, HeardHere, shown
<1> QED BY <1>3, <1>5, <1>7, <1>9 DEF Steps

LEMMA NewestNext ==
    ASSUME Good, Newest, Steps
    PROVE  Newest'
<1>0. Types' /\ Grows
  BY TypesNext
<1> SUFFICES ASSUME NEW f \in Fetch, fetches'[f] # None, f = latest', fetches'[f].conv = page',
                    fetches'[f].stage = "read", ~fetches'[f].crossed, snap' # None
             PROVE  NotOlder(snap', fetches'[f].data)
  BY DEF Newest, InFlight
<1>a. f # None
  BY NoneApart DEF Good
<1>1. CASE UNCHANGED <<page, snap, visited>>
  <2>1. CASE FetchKept(f)
    BY <1>1, <2>1 DEF FetchKept, Newest, InFlight
  <2>2. CASE FetchRead(f)
    BY <1>1, <2>2 DEF FetchRead, Good, Shown, Past
  <2>3. ~FetchSent(f) /\ ~FetchGone(f)
    BY DEF FetchSent, FetchGone
  <2> QED BY <2>1, <2>2, <2>3, FetchSteps DEF FetchMoves
<1>2. ASSUME NEW c \in Conversation, Shows(c)
      PROVE  FALSE
  <2>1. PICK g \in Fetch : StartFetch(g, c, TRUE)
    BY <1>2 DEF Shows
  <2> QED BY <2>1, StartedFetch DEF Good
<1>3. CASE Gone
  BY <1>3 DEF Gone, GoAway
<1>4. ASSUME NEW m \in Call, NEW result \in {"ok", "failed", "refused", "lost"},
             NEW stage \in {"onway", "generating", "done"}, HeardLast(m, result, stage)
      PROVE  NotOlder(snap', fetches'[f].data)
  <2>1. CASE calls[m].kind = "branch" /\ result = "ok"
    <3>1. fetches[f] \in FetchRow /\ fetches'[f] = [fetches[f] EXCEPT !.crossed = TRUE]
      BY <1>4, <2>1 DEF HeardLast, Good, Types, TypeOK
    <3>2. fetches'[f].crossed
      BY <3>1 DEF FetchRow
    <3> QED BY <3>2
  <2>2. CASE ~(calls[m].kind = "branch" /\ result = "ok")
    BY <1>1, <1>4, <2>2 DEF HeardLast
  <2> QED BY <2>1, <2>2
<1>5. ASSUME NEW g \in Fetch, NEW applied \in BOOLEAN, NEW list \in Requests \cup {None}, Finished(g, applied, list)
      PROVE  FALSE
  BY <1>5, <1>a DEF Finished, Finish
<1> QED BY <1>1, <1>2, <1>3, <1>4, <1>5, SnapStays

\* The error the page shows after a refresh.
LEMMA AboutShape ==
    ASSUME Good, NEW m \in Waiting, calls[m].kind \in Asking, calls[m].conv = page,
           NEW list \in Requests \cup {None}, list # None => Past(list, asked[page])
    PROVE  LET n == About(calls[m], calls[m].told, list)
           IN  n # None => /\ n \in DOMAIN asked[page]
                           /\ calls[m].kind \in Kept => asked[page][n].question = calls[m].question
<1> DEFINE call == calls[m]
           hits == {n \in DOMAIN list : list[n].question = call.question /\ IsFailed(list[n])}
<1>1. call \in CallRow /\ CallShape(call) /\ call.client = "refreshing" /\ page \in Conversation
  <2>1. call \in CallRow /\ CallShape(call) /\ call.client = "refreshing"
    BY DEF Good, Types, TypeOK, CallsShaped, Waiting, Live
  <2> QED BY <2>1 DEF CallRow
<1>2. CASE call.told = "failed"
  <2>1. /\ call.request \in DOMAIN asked[page]
        /\ call.kind \in Kept => asked[page][call.request].question = call.question
    BY <1>1, <1>2 DEF CallShape
  <2> QED BY <1>2, <2>1 DEF About
<1>3. CASE call.told # "failed" /\ call.kind \in {"retry", "regenerate"}
  <2>1. call.target \in DOMAIN asked[page] /\ call.kind \notin Kept
    BY <1>1, <1>3 DEF CallShape, Kept
  <2> QED BY <1>3, <2>1 DEF About
<1>4. CASE call.told # "failed" /\ call.kind \notin {"retry", "regenerate"} /\ list # None
  <2>1. list \in Requests /\ asked[page] \in Requests /\ Past(list, asked[page])
    BY <1>1, <1>4 DEF Good, Types, TypeOK
  <2>2. hits \in SUBSET Nat
    BY <2>1 DEF Requests
  <2>3. First(hits) = None \/ First(hits) \in hits
    BY <2>2, FirstProp
  <2>4. \A n \in hits : n \in DOMAIN asked[page] /\ asked[page][n].question = call.question
    BY <2>1, PastDomain DEF Past
  <2> QED BY <1>4, <2>3, <2>4 DEF About
<1>5. CASE call.told # "failed" /\ call.kind \notin {"retry", "regenerate"} /\ list = None
  BY <1>5 DEF About
<1> QED BY <1>2, <1>3, <1>4, <1>5

LEMMA AfterShape ==
    ASSUME Good, NEW m \in Waiting, calls[m].kind \in Asking, calls[m].conv = page, NEW applied \in BOOLEAN,
           NEW list \in Requests \cup {None}, list # None => Past(list, asked[page]),
           NEW o, o = After(calls[m], applied, list), o.status = "error"
    PROVE  /\ o.kind = calls[m].kind /\ o.question = calls[m].question /\ o.intent = calls[m].intent
           /\ o.target = calls[m].target /\ o.slot = calls[m].slot
           /\ o.request # None => o.request \in DOMAIN asked[page]
           /\ o.kind = "send" /\ o.request # None => asked[page][o.request].question = o.question
           /\ o.unknown => calls[m].told = "lost" /\ About(calls[m], calls[m].told, list) = None
<1> DEFINE call == calls[m]
           n == About(call, call.told, list)
<1>1. call \in CallRow /\ CallShape(call)
  BY DEF Good, Types, TypeOK, CallsShaped, Waiting, Live
<1>2. n # None => /\ n \in DOMAIN asked[page]
                  /\ call.kind \in Kept => asked[page][n].question = call.question
  BY AboutShape
<1>3. call.kind = "edit" \/ call.kind = "retry" => call.target \in DOMAIN asked[page]
  BY <1>1 DEF CallShape
<1>4. Idle.status # "error"
  BY DEF Idle
<1> HIDE DEF call, n
<1>5. \/ o = Failed(call, IF call.kind \in {"retry", "edit"} THEN call.target ELSE None,
                    call.kind = "retry", FALSE)
      \/ \E a \in BOOLEAN : o = Failed(call, n, a, call.told = "lost" /\ n = None)
  BY <1>4, Zenon DEF After, n, call
<1>6. CASE o = Failed(call, IF call.kind \in {"retry", "edit"} THEN call.target ELSE None,
                    call.kind = "retry", FALSE)
  BY <1>3, <1>6 DEF Failed, call
<1>7. ASSUME NEW a \in BOOLEAN, o = Failed(call, n, a, call.told = "lost" /\ n = None)
      PROVE  /\ o.kind = calls[m].kind /\ o.question = calls[m].question /\ o.intent = calls[m].intent
             /\ o.target = calls[m].target /\ o.slot = calls[m].slot
             /\ o.request # None => o.request \in DOMAIN asked[page]
             /\ o.kind = "send" /\ o.request # None => asked[page][o.request].question = o.question
             /\ o.unknown => calls[m].told = "lost" /\ n = None
  <2> DEFINE u == call.told = "lost" /\ n = None
  <2>1. o = Failed(call, n, a, u)
    BY <1>7
  <2> HIDE DEF u
  <2>2. /\ o.kind = call.kind /\ o.question = call.question /\ o.intent = call.intent
        /\ o.target = call.target /\ o.slot = call.slot /\ o.request = n /\ o.unknown = u
    BY <2>1 DEF Failed
  <2>3. o.unknown => call.told = "lost" /\ n = None
    BY <2>2, Zenon DEF u
  <2> QED BY <1>2, <2>2, <2>3 DEF call, Kept
<1> QED BY <1>5, <1>6, <1>7 DEF n, call

LEMMA FinishedList ==
    ASSUME Good, NEW f \in Fetch, NEW applied, NEW list \in Requests \cup {None}, Finished(f, applied, list)
    PROVE  page \in Conversation /\ (list # None => Past(list, asked[page])) /\ applied \in BOOLEAN
<1>1. fetches[f] \in FetchRow /\ fetches[f].conv = page /\ f \in InFlight
  BY DEF Finished, Good, Types, TypeOK, InFlight
<1>2. page \in Conversation
  BY <1>1 DEF FetchRow
<1>3. Past(fetches[f].data, asked[page]) /\ (snap # None => Past(snap, asked[page]))
  BY <1>1 DEF Good, Shown
<1> QED BY <1>2, <1>3 DEF Finished

\* The operation a finished refresh leaves, of a call that waited for it or the one before.
FinishOp(o, applied, list) ==
    /\ \/ o = op /\ \A m \in Waiting : calls[m].kind \notin Asking
       \/ \E m \in Waiting : calls[m].kind \in Asking /\ o = After(calls[m], applied, list)
    /\ op' = Settle(o, list, required')
    /\ draft' = IF /\ o.status = "error" /\ o.kind = "send"
                   /\ (o.request # None \/ op' = Idle)
                THEN None ELSE draft

LEMMA FinishedOp ==
    ASSUME NEW f, NEW applied, NEW list, Finished(f, applied, list)
    PROVE  \E o : FinishOp(o, applied, list)
<1>1. PICK o \in IF \E m \in Waiting : calls[m].kind \in Asking
                THEN {After(calls[m], applied, list) : m \in {w \in Waiting : calls[w].kind \in Asking}}
                ELSE {op} :
        /\ op' = Settle(o, list, required')
        /\ draft' = IF /\ o.status = "error" /\ o.kind = "send"
                       /\ (o.request # None \/ op' = Idle)
                    THEN None ELSE draft
  BY DEF Finished, Finish
<1>2. \/ o = op /\ \A m \in Waiting : calls[m].kind \notin Asking
      \/ \E m \in Waiting : calls[m].kind \in Asking /\ o = After(calls[m], applied, list)
  BY <1>1
<1> QED BY <1>1, <1>2 DEF FinishOp

LEMMA SettleShape ==
    ASSUME NEW o, NEW list \in Requests \cup {None}, NEW lock
    PROVE  /\ Settle(o, list, lock) \in {o, Idle}
           /\ lock = TRUE => Settle(o, list, lock) = o
           /\ o.status # "error" => Settle(o, list, lock) = o
           /\ o.status = "error" /\ o.kind = "send" /\ o.request = None /\ Settle(o, list, lock) = Idle
                => list # None /\ \E k \in DOMAIN list : list[k].question = o.question
<1>1. Settle(o, list, lock) \in {o, Idle}
  BY DEF Settle
<1>2. lock = TRUE => Settle(o, list, lock) = o
  BY DEF Settle
<1>3. o.status # "error" => Settle(o, list, lock) = o
  BY DEF Settle
<1>4. ASSUME o.status = "error", o.kind = "send", o.request = None, Settle(o, list, lock) = Idle
      PROVE  list # None /\ \E k \in DOMAIN list : list[k].question = o.question
  <2> DEFINE hits == {k \in DOMAIN list : list[k].question = o.question}
  <2>1. o # Idle
    BY <1>4 DEF Idle
  <2>2. list # None /\ First(hits) # None
    BY <1>4, <2>1 DEF Settle
  <2>3. hits \in SUBSET Nat
    BY <2>2 DEF Requests
  <2>4. First(hits) \in hits
    BY <2>2, <2>3, FirstProp
  <2> QED BY <2>2, <2>4
<1> QED BY <1>1, <1>2, <1>3, <1>4

LEMMA OpSteps ==
    ASSUME Good, Steps
    PROVE  \/ op'.status # "error"
           \/ op' = op /\ page' = page
           \/ \E f \in Fetch, applied \in BOOLEAN, list \in Requests \cup {None} : Finished(f, applied, list)
<1>0. Idle.status # "error" /\ \A kind : Pending(kind).status # "error"
  BY DEF Idle, Pending
<1>1. ASSUME NEW c \in Conversation, Shows(c)
      PROVE  op'.status # "error"
  BY <1>0, <1>1 DEF Shows
<1>2. CASE Gone
  BY <1>0, <1>2 DEF Gone, GoAway
<1>3. ASSUME NEW m \in Call, NEW kind, NEW q, NEW i, NEW n, KeyedIssue(m, kind, q, i, n)
      PROVE  op'.status # "error"
  <2>1. op' = Pending(kind)
    BY <1>3, KeyedTypes
  <2> QED BY <1>0, <2>1
<1>4. ASSUME NEW m \in Call, NEW kind, NEW q, NEW i, NEW n, PlainIssue(m, kind, q, i, n)
      PROVE  op'.status # "error" \/ (op' = op /\ page' = page)
  <2>1. op' = (IF kind \in Settings \cup {"feedback"} THEN op ELSE Pending(kind))
    BY <1>4, PlainTypes
  <2> QED BY <1>0, <1>4, <2>1 DEF PlainIssue
<1>5. ASSUME NEW f \in Fetch, Polled(f) \/ ReadDone(f) \/ Unused(f) \/ \E m \in Call : Refreshed(m, f)
      PROVE  op' = op /\ page' = page
  BY <1>5 DEF Refreshed, Polled, ReadDone, Unused, shown
<1>7. ASSUME NEW m \in Call, Asked(m) \/ Begun(m) \/ Over(m) \/ Recalled(m) \/ Answered(m) \/ Dropped(m)
      PROVE  op' = op /\ page' = page
  BY <1>7 DEF Asked, Begun, Over, Recalled, Answered, Dropped, Served, shown
<1>9. ASSUME NEW m \in Call, NEW result \in {"ok", "failed", "refused", "lost"},
             NEW stage \in {"onway", "generating", "done"},
             \/ HeardAway(m, result, stage)
             \/ \E f \in Fetch : HeardHere(m, f, result, stage)
             \/ HeardLast(m, result, stage)
      PROVE  op'.status # "error" \/ (op' = op /\ page' = page)
  BY <1>0, <1>9 DEF HeardAway, HeardHere, HeardLast, shown
<1> QED BY <1>1, <1>2, <1>3, <1>4, <1>5, <1>7, <1>9 DEF Steps

LEMMA ErrorNext ==
    ASSUME IInv, Steps
    PROVE  ErrorShape'
<1>0. Good /\ Types' /\ Grows
  BY TypesNext DEF IInv
<1> SUFFICES ASSUME op'.status = "error"
             PROVE  /\ page' \in Conversation
                    /\ op'.kind \in Kept => /\ op'.question \in Question /\ op'.intent \in Intent
                                            /\ SlotOf(op'.slot, page', op'.kind, op'.target, op'.question)
                    /\ op'.kind = "edit" => op'.target \in DOMAIN asked'[page']
                    /\ op'.request # None => op'.request \in DOMAIN asked'[page']
  BY DEF ErrorShape
<1>d. page \in Conversation => DOMAIN asked[page] \subseteq DOMAIN asked'[page]
  BY <1>0, PastDomain DEF Grows, Good, Types, TypeOK
<1>1. CASE op' = op /\ page' = page
  BY <1>0, <1>1, <1>d DEF Good, ErrorShape
<1>2. ASSUME NEW f \in Fetch, NEW applied \in BOOLEAN, NEW list \in Requests \cup {None}, Finished(f, applied, list)
      PROVE  /\ page' \in Conversation
             /\ op'.kind \in Kept => /\ op'.question \in Question /\ op'.intent \in Intent
                                     /\ SlotOf(op'.slot, page', op'.kind, op'.target, op'.question)
             /\ op'.kind = "edit" => op'.target \in DOMAIN asked'[page']
             /\ op'.request # None => op'.request \in DOMAIN asked'[page']
  <2>1. page \in Conversation /\ (list # None => Past(list, asked[page])) /\ page' = page
    BY <1>0, <1>2, FinishedList DEF Finished
  <2>2. PICK o : FinishOp(o, applied, list)
    BY <1>2, FinishedOp
  <2>3. op' = o /\ o.status = "error"
    <3>1. Idle.status # "error"
      BY DEF Idle
    <3> QED BY <2>2, <3>1, SettleShape DEF FinishOp
  <2>4. CASE o = op
    BY <1>0, <1>1, <2>1, <2>3, <2>4
  <2>5. ASSUME NEW m \in Waiting, calls[m].kind \in Asking, o = After(calls[m], applied, list)
        PROVE  /\ page' \in Conversation
               /\ op'.kind \in Kept => /\ op'.question \in Question /\ op'.intent \in Intent
                                       /\ SlotOf(op'.slot, page', op'.kind, op'.target, op'.question)
               /\ op'.kind = "edit" => op'.target \in DOMAIN asked'[page']
               /\ op'.request # None => op'.request \in DOMAIN asked'[page']
    <3>1. calls[m].conv = page /\ m \in Live
      BY DEF IInv, Away, Waiting
    <3>2. /\ o.kind = calls[m].kind /\ o.question = calls[m].question /\ o.intent = calls[m].intent
          /\ o.target = calls[m].target /\ o.slot = calls[m].slot
          /\ o.request # None => o.request \in DOMAIN asked[page]
      BY <1>0, <2>1, <2>3, <2>5, <3>1, AfterShape
    <3>3. CallShape(calls[m])
      BY <1>0, <3>1 DEF Good, CallsShaped
    <3>4. /\ calls[m].kind \in Kept => /\ calls[m].question \in Question /\ calls[m].intent \in Intent
                                       /\ SlotOf(calls[m].slot, page, calls[m].kind, calls[m].target, calls[m].question)
          /\ calls[m].kind = "edit" => calls[m].target \in DOMAIN asked[page]
      BY <3>1, <3>3 DEF CallShape
    <3> QED BY <1>d, <2>1, <2>3, <3>2, <3>4
  <2> QED BY <2>2, <2>4, <2>5 DEF FinishOp
<1> QED BY <1>0, <1>1, <1>2, OpSteps

-----------------------------------------------------------------------------
(* One mutation at a time *)

ClientKept(w) ==
    calls[w] # None /\ Alike(calls'[w], calls[w]) /\ calls'[w].client \in {calls[w].client, "done"}
ClientHeard(w) ==
    /\ calls[w] # None /\ Alike(calls'[w], calls[w])
    /\ calls[w].client = "waiting" /\ calls'[w].client = "refreshing" /\ calls[w].conv = page /\ page' = page
ClientNew(w) == calls[w] = None /\ calls'[w].conv = page /\ page' = page /\ page \in Conversation
ClientMoves(w) == ClientKept(w) \/ ClientHeard(w) \/ ClientNew(w)

LEMMA ClientSteps ==
    ASSUME Good, Steps, NEW w \in Call, calls'[w] # None
    PROVE  ClientMoves(w)
<1>s. Still(w) => ClientMoves(w)
  BY DEF Still, Later, ClientMoves, ClientKept
<1>i. calls'[w] = calls[w] => ClientMoves(w)
  BY DEF ClientMoves, ClientKept, Alike
<1>1. ASSUME NEW c \in Conversation, Shows(c)
      PROVE  ClientMoves(w)
  BY <1>1, <1>s, ShowsCalls
<1>2. CASE Gone
  BY <1>2, <1>s, GoneCalls
<1>3. ASSUME NEW m \in Call, NEW kind, NEW q, NEW i, NEW n, KeyedIssue(m, kind, q, i, n)
      PROVE  ClientMoves(w)
  <2>1. /\ calls' = [calls EXCEPT ![m] = calls'[m]] /\ calls[m] = None /\ calls'[m].conv = page
        /\ page \in Conversation
    BY <1>3, KeyedTypes
  <2>2. page' = page
    BY <1>3 DEF KeyedIssue
  <2> QED BY <1>s, <2>1, <2>2, OthersSame DEF ClientMoves, ClientNew
<1>4. ASSUME NEW m \in Call, NEW kind, NEW q, NEW i, NEW n, PlainIssue(m, kind, q, i, n)
      PROVE  ClientMoves(w)
  <2>1. /\ calls' = [calls EXCEPT ![m] = calls'[m]] /\ calls[m] = None /\ calls'[m].conv = page
        /\ page \in Conversation
    BY <1>4, PlainTypes
  <2>2. page' = page
    BY <1>4 DEF PlainIssue
  <2> QED BY <1>s, <2>1, <2>2, OthersSame DEF ClientMoves, ClientNew
<1>5. ASSUME NEW m \in Call, NEW f \in Fetch, Refreshed(m, f)
      PROVE  ClientMoves(w)
  <2>1. /\ calls' = [calls EXCEPT ![m] = calls'[m]] /\ calls[m] = None /\ calls'[m].conv = page /\ page' = page
        /\ page \in Conversation
    BY <1>5 DEF Refreshed
  <2> QED BY <1>s, <2>1, OthersSame DEF ClientMoves, ClientNew
<1>6. ASSUME NEW f \in Fetch, Polled(f) \/ ReadDone(f) \/ Unused(f)
      PROVE  ClientMoves(w)
  BY <1>6, <1>i DEF Polled, ReadDone, Unused
<1>7. ASSUME NEW m \in Call, Asked(m) \/ Begun(m) \/ Over(m) \/ Recalled(m) \/ Answered(m)
      PROVE  ClientMoves(w)
  <2>1. Served(m)
    BY <1>7 DEF Asked, Begun, Over, Recalled, Answered
  <2>2. CASE w # m
    BY <1>s, <2>1, <2>2, OthersSame DEF Served
  <2>3. CASE w = m
    BY <2>1, <2>3 DEF Served, ClientMoves, ClientKept
  <2> QED BY <2>2, <2>3
<1>8. ASSUME NEW m \in Call, Dropped(m)
      PROVE  ClientMoves(w)
  BY <1>8, <1>s, DroppedCalls
<1>9. ASSUME NEW m \in Call, NEW result \in {"ok", "failed", "refused", "lost"},
             NEW stage \in {"onway", "generating", "done"},
             HeardAway(m, result, stage) \/ HeardLast(m, result, stage)
      PROVE  ClientMoves(w)
  <2>1. w # m => Still(w)
    BY <1>9, LastCalls
  <2>2. w = m => HeardOf(m, result, stage) /\ calls'[m].client = "done"
    BY <1>9, LastCalls
  <2>3. calls[m] # None
    BY <1>9 DEF HeardAway, HeardLast, Told
  <2> QED BY <1>s, <2>1, <2>2, <2>3 DEF HeardOf, ClientMoves, ClientKept
<1>10. ASSUME NEW m \in Call, NEW result \in {"ok", "failed", "refused", "lost"},
             NEW stage \in {"onway", "generating", "done"}, NEW f \in Fetch, HeardHere(m, f, result, stage)
      PROVE  ClientMoves(w)
  <2>1. w # m => Still(w)
    BY <1>10, HereCalls
  <2>2. HeardOf(m, result, stage) /\ calls'[m].client = "refreshing"
    BY <1>10, HereCalls
  <2>3. calls[m] # None /\ calls[m].client = "waiting" /\ calls[m].conv = page /\ page' = page
    BY <1>10 DEF HeardHere, Told
  <2> QED BY <1>s, <2>1, <2>2, <2>3 DEF HeardOf, ClientMoves, ClientHeard
<1>11. ASSUME NEW f \in Fetch, NEW applied \in BOOLEAN, NEW list \in Requests \cup {None}, Finished(f, applied, list)
       PROVE  ClientMoves(w)
  BY <1>11, <1>s, FinishedCalls
<1> QED BY <1>1, <1>2, <1>3, <1>4, <1>5, <1>6, <1>7, <1>8, <1>9, <1>10, <1>11 DEF Steps

LEMMA PageStays ==
    ASSUME Good, Steps
    PROVE  UNCHANGED <<page, visited>> \/ Gone \/ \E c \in Conversation : Shows(c)
BY SnapStays DEF HeardLast, Finished

LEMMA AwayNext ==
    ASSUME Good, Away, Steps
    PROVE  Away'
<1>a. /\ page = None => \A m \in Live : ~Ending(m)
      /\ \A m \in Live : /\ Ending(m) => calls[m].conv \in visited \cup {page}
                         /\ calls[m].client = "refreshing" => calls[m].conv = page
  BY DEF Away
<1> SUFFICES ASSUME NEW w \in Call, calls'[w] # None, calls'[w].client # "done"
             PROVE  /\ page' # None
                    /\ calls'[w].conv \in visited' \cup {page'}
                    /\ calls'[w].client = "refreshing" => calls'[w].conv = page'
  BY DEF Away, Live, Ending
<1>c. page \in Conversation => page # None
  BY NoneApart DEF Good
<1>1. CASE UNCHANGED <<page, visited>>
  <2>1. CASE ClientKept(w)
    <3>1. w \in Live /\ Ending(w) /\ calls'[w].client = calls[w].client /\ calls'[w].conv = calls[w].conv
      BY <2>1 DEF ClientKept, Live, Ending, Alike
    <3> QED BY <1>1, <1>a, <3>1
  <2>2. CASE ClientHeard(w)
    <3>1. w \in Live /\ Ending(w) /\ calls'[w].conv = page /\ page' = page
      BY <2>2 DEF ClientHeard, Live, Ending, Alike
    <3> QED BY <1>a, <3>1
  <2>3. CASE ClientNew(w)
    BY <1>c, <2>3 DEF ClientNew
  <2> QED BY <2>1, <2>2, <2>3, ClientSteps DEF ClientMoves
<1>2. CASE Gone
  BY <1>2, GoneCalls
<1>3. ASSUME NEW c \in Conversation, Shows(c)
      PROVE  /\ page' # None
             /\ calls'[w].conv \in visited' \cup {page'}
             /\ calls'[w].client = "refreshing" => calls'[w].conv = page'
  <2>1. page' = c /\ c # None
    BY <1>3, NoneApart DEF Shows, Good
  <2>2. /\ Still(w) /\ (page = None => calls'[w] = calls[w])
        /\ page # None => calls'[w].client # "refreshing"
    BY <1>3, ShowsCalls
  <2>3. w \in Live /\ Ending(w) /\ calls'[w].client = calls[w].client /\ calls'[w].conv = calls[w].conv
    BY <2>2 DEF Still, Later, Alike, Live, Ending
  <2>4. page # None
    BY <1>a, <2>3
  <2>5. visited' = visited \cup {page}
    BY <1>3, <2>4 DEF Shows
  <2> QED BY <1>a, <2>1, <2>2, <2>3, <2>4, <2>5
<1> QED BY <1>1, <1>2, <1>3, PageStays

\* With the controls unlocked nothing is awaited.
LEMMA NothingBusy ==
    ASSUME Good, Locked, Unlocked, page \notin visited, NEW w \in Live
    PROVE  ~BusyHere(w)
<1>1. w \notin Waiting /\ busy = {} /\ op.status # "pending"
  BY DEF Unlocked, Refreshing
<1>2. calls[w].client # "refreshing"
  BY <1>1 DEF Waiting
<1>3. ~WaitingHere(w)
  BY <1>1 DEF Locked
<1> QED BY <1>2, <1>3 DEF BusyHere

LEMMA LockedNext ==
    ASSUME IInv, Steps
    PROVE  Locked'
<1>0. Good /\ Types' /\ Grows
  BY TypesNext DEF IInv
<1>a. /\ page = None => \A m \in Live : ~Ending(m)
      /\ \A m \in Live : /\ Ending(m) => calls[m].conv \in visited \cup {page}
                         /\ calls[m].client = "refreshing" => calls[m].conv = page
  BY DEF IInv, Away
<1>h. ASSUME NEW w \in Call
      PROVE  /\ WaitingHere(w)' <=> calls'[w].client = "waiting" /\ calls'[w].conv = page'
             /\ BusyHere(w)' <=> WaitingHere(w)' \/ (calls'[w].client = "refreshing" /\ calls'[w].kind # "refresh")
  BY DEF WaitingHere, BusyHere
<1>l. page \notin visited =>
        /\ \A m, w \in Live : BusyHere(m) /\ BusyHere(w) => m = w
        /\ \A m \in Live : WaitingHere(m) =>
              IF calls[m].kind \in Settings \cup {"feedback"} THEN calls[m].kind \in busy
              ELSE op.status = "pending"
  BY DEF IInv, Locked
<1> SUFFICES ASSUME page' \notin visited'
             PROVE  /\ \A m, w \in Call : /\ calls'[m] # None /\ calls'[w] # None /\ BusyHere(m)' /\ BusyHere(w)'
                                          => m = w
                    /\ \A m \in Call : calls'[m] # None /\ WaitingHere(m)' =>
                          IF calls'[m].kind \in Settings \cup {"feedback"} THEN calls'[m].kind \in busy'
                          ELSE op'.status = "pending"
  BY DEF Locked, Live
<1> DEFINE Goal == /\ \A m, w \in Call : /\ calls'[m] # None /\ calls'[w] # None /\ BusyHere(m)' /\ BusyHere(w)'
                                          => m = w
                   /\ \A m \in Call : calls'[m] # None /\ WaitingHere(m)' =>
                          IF calls'[m].kind \in Settings \cup {"feedback"} THEN calls'[m].kind \in busy'
                          ELSE op'.status = "pending"
<1>k. ASSUME NEW w \in Call, calls'[w] # None, page' = page, ClientKept(w)
      PROVE  /\ w \in Live /\ (BusyHere(w)' => BusyHere(w)) /\ (WaitingHere(w)' => WaitingHere(w))
             /\ calls'[w].kind = calls[w].kind
  BY <1>k, <1>h DEF ClientKept, WaitingHere, BusyHere, Live, Alike
<1>q. ASSUME UNCHANGED <<page, visited, op>>, busy \subseteq busy',
             \A w \in Call : calls'[w] # None => ClientKept(w)
      PROVE  Goal
  BY <1>q, <1>k, <1>l
<1>1. ASSUME NEW c \in Conversation, Shows(c)
      PROVE  Goal
  <2>1. ASSUME NEW w \in Call, calls'[w] # None, calls'[w].client # "done"
        PROVE  ~BusyHere(w)'
    <3>1. page' = c /\ c # page
      BY <1>1 DEF Shows
    <3>2. /\ Still(w) /\ (page = None => calls'[w] = calls[w])
          /\ page # None => calls'[w].client # "refreshing"
      BY <1>0, <1>1, <2>1, ShowsCalls
    <3>3. w \in Live /\ Ending(w) /\ calls'[w].client = calls[w].client /\ calls'[w].conv = calls[w].conv
      BY <2>1, <3>2 DEF Still, Later, Alike, Live, Ending
    <3>4. page # None
      BY <1>a, <3>3
    <3>5. visited' = visited \cup {page}
      BY <1>1, <3>4 DEF Shows
    <3> QED BY <1>a, <1>h, <3>1, <3>2, <3>3, <3>4, <3>5
  <2>2. ASSUME NEW w \in Call, calls'[w] # None
        PROVE  ~BusyHere(w)' /\ ~WaitingHere(w)'
    BY <2>1, <2>2, <1>h
  <2> QED BY <2>2
<1>2. CASE Gone
  <2>1. ASSUME NEW w \in Call, calls'[w] # None
        PROVE  ~BusyHere(w)' /\ ~WaitingHere(w)'
    BY <1>0, <1>2, <1>h, <2>1, GoneCalls
  <2> QED BY <2>1
<1>3. ASSUME NEW m \in Call, NEW kind, NEW q, NEW i, NEW n,
             KeyedIssue(m, kind, q, i, n) \/ PlainIssue(m, kind, q, i, n)
      PROVE  Goal
  <2>1. /\ calls' = [calls EXCEPT ![m] = calls'[m]] /\ calls'[m].kind = kind
        /\ op' = (IF kind \in Settings \cup {"feedback"} THEN op ELSE Pending(kind))
        /\ busy' = (IF kind \in Settings \cup {"feedback"} THEN {kind} ELSE busy)
    <3>1. CASE KeyedIssue(m, kind, q, i, n)
      <4>1. kind \notin Settings \cup {"feedback"}
        BY <3>1 DEF KeyedIssue, Kept, Settings
      <4>2. calls' = [calls EXCEPT ![m] = calls'[m]] /\ calls'[m].kind = kind /\ op' = Pending(kind) /\ busy' = busy
        BY <1>0, <3>1, KeyedTypes
      <4> QED BY <4>1, <4>2
    <3>2. CASE PlainIssue(m, kind, q, i, n)
      BY <1>0, <3>2, PlainTypes
    <3> QED BY <1>3, <3>1, <3>2
  <2>2. Unlocked /\ UNCHANGED <<page, visited>>
    BY <1>3 DEF KeyedIssue, PlainIssue
  <2>3. ASSUME NEW w \in Call, w # m, calls'[w] # None
        PROVE  ~BusyHere(w)' /\ ~WaitingHere(w)'
    <3>1. calls'[w] = calls[w] /\ w \in Live
      BY <1>0, <2>1, <2>3, OthersSame DEF Live
    <3>2. ~BusyHere(w)
      BY <1>0, <2>2, <3>1, NothingBusy DEF IInv
    <3> QED BY <1>h, <2>2, <3>1, <3>2 DEF BusyHere, WaitingHere
  <2>4. Pending(kind).status = "pending"
    BY DEF Pending
  <2> QED BY <2>1, <2>3, <2>4
<1>5. ASSUME NEW m \in Call, NEW f \in Fetch, Refreshed(m, f)
      PROVE  Goal
  <2>1. /\ calls' = [calls EXCEPT ![m] = calls'[m]] /\ calls'[m].kind = "refresh"
        /\ calls'[m].client = "refreshing" /\ UNCHANGED <<page, visited, op, busy>>
    BY <1>5 DEF Refreshed
  <2>2. ~BusyHere(m)' /\ ~WaitingHere(m)'
    BY <1>h, <2>1
  <2>3. ASSUME NEW w \in Call, w # m, calls'[w] # None
        PROVE  ClientKept(w)
    BY <1>0, <2>1, <2>3, OthersSame DEF ClientKept, Alike
  <2> QED BY <1>k, <1>l, <2>1, <2>2, <2>3
<1>6. ASSUME NEW f \in Fetch, Polled(f) \/ ReadDone(f) \/ Unused(f)
      PROVE  Goal
  <2>1. UNCHANGED <<page, visited, op, busy, calls>>
    BY <1>6 DEF Polled, ReadDone, Unused, shown
  <2>2. \A w \in Call : calls'[w] # None => ClientKept(w)
    BY <2>1 DEF ClientKept, Alike
  <2> QED BY <1>q, <2>1, <2>2
<1>7. ASSUME NEW m \in Call, Asked(m) \/ Begun(m) \/ Over(m) \/ Recalled(m) \/ Answered(m) \/ Dropped(m)
      PROVE  Goal
  <2>1. UNCHANGED <<page, visited, op, busy>>
    BY <1>7 DEF Asked, Begun, Over, Recalled, Answered, Dropped, Served, shown
  <2>2. ASSUME NEW w \in Call, calls'[w] # None
        PROVE  ClientKept(w)
    <3>1. CASE Dropped(m)
      BY <1>0, <2>2, <3>1, DroppedCalls DEF ClientKept, Alike
    <3>2. CASE Served(m) /\ w # m
      BY <1>0, <2>2, <3>2, OthersSame DEF Served, ClientKept, Alike
    <3>3. CASE Served(m) /\ w = m
      BY <2>2, <3>3 DEF Served, ClientKept
    <3> QED BY <1>7, <3>1, <3>2, <3>3 DEF Asked, Begun, Over, Recalled, Answered
  <2> QED BY <1>q, <2>1, <2>2
<1>8. ASSUME NEW m \in Call, NEW result \in {"ok", "failed", "refused", "lost"},
             NEW stage \in {"onway", "generating", "done"}, HeardAway(m, result, stage)
      PROVE  Goal
  <2>1. UNCHANGED <<page, visited, op, busy>> /\ calls[m] # None
    BY <1>8 DEF HeardAway, Told, shown
  <2>2. ASSUME NEW w \in Call, calls'[w] # None
        PROVE  ClientKept(w)
    BY <1>0, <1>8, <2>1, <2>2, LastCalls DEF ClientKept, Alike, HeardOf
  <2> QED BY <1>q, <2>1, <2>2
<1>9. ASSUME NEW m \in Call, NEW result \in {"ok", "failed", "refused", "lost"},
             NEW stage \in {"onway", "generating", "done"}, NEW f \in Fetch, HeardHere(m, f, result, stage)
      PROVE  Goal
  <2>1. UNCHANGED <<page, visited, op, busy>> /\ m \in Live /\ WaitingHere(m) /\ calls'[m].client = "refreshing"
    BY <1>0, <1>9, HereCalls DEF HeardHere, Told, WaitingHere, Live
  <2>2. ASSUME NEW w \in Call, w # m, calls'[w] # None
        PROVE  ~BusyHere(w)' /\ ~WaitingHere(w)'
    <3>1. calls'[w] = calls[w] /\ w \in Live
      BY <1>0, <1>9, <2>2, HereCalls DEF Live
    <3>2. ~BusyHere(w)
      BY <1>l, <2>1, <2>2, <3>1 DEF BusyHere
    <3> QED BY <1>h, <2>1, <3>1, <3>2 DEF BusyHere, WaitingHere
  <2>3. ~WaitingHere(m)'
    BY <1>h, <2>1
  <2> QED BY <2>2, <2>3
<1>10. ASSUME NEW m \in Call, NEW result \in {"ok", "failed", "refused", "lost"},
             NEW stage \in {"onway", "generating", "done"}, HeardLast(m, result, stage)
      PROVE  Goal
  <2>1. UNCHANGED <<page, visited>> /\ m \in Live /\ WaitingHere(m)
    BY <1>10 DEF HeardLast, Told, WaitingHere, Live
  <2>2. ASSUME NEW w \in Call, calls'[w] # None
        PROVE  ~BusyHere(w)' /\ ~WaitingHere(w)'
    <3>1. CASE w = m
      BY <1>0, <1>h, <1>10, <2>2, <3>1, LastCalls
    <3>2. CASE w # m
      <4>1. calls'[w] = calls[w] /\ w \in Live
        BY <1>0, <1>10, <2>2, <3>2, LastCalls DEF Live
      <4>2. ~BusyHere(w)
        BY <1>l, <2>1, <3>2, <4>1 DEF BusyHere
      <4> QED BY <1>h, <2>1, <4>1, <4>2 DEF BusyHere, WaitingHere
    <3> QED BY <3>1, <3>2
  <2> QED BY <2>2
<1>11. ASSUME NEW f \in Fetch, NEW applied \in BOOLEAN, NEW list \in Requests \cup {None}, Finished(f, applied, list)
       PROVE  Goal
  <2>1. UNCHANGED <<page, visited>>
    BY <1>11 DEF Finished
  <2>2. ASSUME NEW w \in Call, calls'[w] # None
        PROVE  ClientKept(w)
    BY <1>0, <1>11, <2>2, FinishedCalls DEF Still, Later, ClientKept
  <2>3. ASSUME NEW w \in Call, calls'[w] # None, WaitingHere(w)'
        PROVE  IF calls'[w].kind \in Settings \cup {"feedback"} THEN calls'[w].kind \in busy'
               ELSE op'.status = "pending"
    <3>1. w \in Live /\ WaitingHere(w) /\ BusyHere(w) /\ calls'[w].kind = calls[w].kind
      BY <1>k, <2>1, <2>2, <2>3 DEF BusyHere
    <3>2. \A v \in Waiting : calls[v].kind \notin Asking \cup {"feedback"}
      <4> SUFFICES ASSUME NEW v \in Waiting, calls[v].kind \in Asking \cup {"feedback"}
                   PROVE  FALSE
        OBVIOUS
      <4>1. v \in Live /\ BusyHere(v) /\ v # w
        BY <3>1 DEF Waiting, BusyHere, WaitingHere, Asking, Kept
      <4> QED BY <1>l, <2>1, <3>1, <4>1
    <3>3. busy' = busy
      BY <1>11, <3>2 DEF Finished, Finish
    <3>4. op.status = "pending" => op' = op
      <4>1. PICK o : FinishOp(o, applied, list)
        BY <1>11, FinishedOp
      <4>2. o = op /\ op' = Settle(op, list, required')
        BY <3>2, <4>1 DEF FinishOp
      <4> QED BY <4>2, SettleShape
    <3> QED BY <1>l, <2>1, <3>1, <3>3, <3>4
  <2> QED BY <1>k, <1>l, <2>1, <2>2, <2>3
<1> QED BY <1>1, <1>2, <1>3, <1>5, <1>6, <1>7, <1>8, <1>9, <1>10, <1>11 DEF Steps

-----------------------------------------------------------------------------
(* What was heard is shown before anything else is asked *)

LEMMA HeardSteps ==
    ASSUME Good, Steps, heard' # None
    PROVE  \/ UNCHANGED <<heard, page, visited>>
           \/ \E m \in Call, result \in {"ok", "failed"}, stage \in {"onway", "generating", "done"}, f \in Fetch :
                 /\ HeardHere(m, f, result, stage) /\ calls[m].kind \in Asking
                 /\ heard' = [request |-> calls[m].request, attempt |-> calls[m].attempt]
<1>1. ASSUME NEW c \in Conversation, Shows(c)
      PROVE  heard' = None
  BY <1>1 DEF Shows
<1>2. CASE Gone
  BY <1>2 DEF Gone, GoAway
<1>3. ASSUME NEW m \in Call, NEW kind, NEW q, NEW i, NEW n,
             KeyedIssue(m, kind, q, i, n) \/ PlainIssue(m, kind, q, i, n)
      PROVE  UNCHANGED <<heard, page, visited>>
  BY <1>3 DEF KeyedIssue, PlainIssue
<1>5. ASSUME NEW f \in Fetch, Polled(f) \/ ReadDone(f) \/ Unused(f) \/ \E m \in Call : Refreshed(m, f)
      PROVE  UNCHANGED <<heard, page, visited>>
  BY <1>5 DEF Refreshed, Polled, ReadDone, Unused, shown
<1>7. ASSUME NEW m \in Call, Asked(m) \/ Begun(m) \/ Over(m) \/ Recalled(m) \/ Answered(m) \/ Dropped(m)
      PROVE  UNCHANGED <<heard, page, visited>>
  BY <1>7 DEF Asked, Begun, Over, Recalled, Answered, Dropped, Served, shown
<1>8. ASSUME NEW m \in Call, NEW result \in {"ok", "failed", "refused", "lost"},
             NEW stage \in {"onway", "generating", "done"}, HeardAway(m, result, stage) \/ HeardLast(m, result, stage)
      PROVE  UNCHANGED <<heard, page, visited>>
  BY <1>8 DEF HeardAway, HeardLast, shown
<1>9. ASSUME NEW m \in Call, NEW result \in {"ok", "failed", "refused", "lost"},
             NEW stage \in {"onway", "generating", "done"}, NEW f \in Fetch, HeardHere(m, f, result, stage),
             ~UNCHANGED <<heard, page, visited>>
      PROVE  /\ result \in {"ok", "failed"} /\ calls[m].kind \in Asking
             /\ heard' = [request |-> calls[m].request, attempt |-> calls[m].attempt]
  BY <1>9 DEF HeardHere
<1>10. ASSUME NEW f \in Fetch, NEW applied \in BOOLEAN, NEW list \in Requests \cup {None}, Finished(f, applied, list)
       PROVE  UNCHANGED <<heard, page, visited>>
  BY <1>10 DEF Finished
<1> QED BY <1>1, <1>2, <1>3, <1>5, <1>7, <1>8, <1>9, <1>10 DEF Steps

\* A call that waits for a refresh waits until one ends or the page shows something else.
LEMMA WaitingStays ==
    ASSUME Good, Steps, NEW w \in Waiting
    PROVE  \/ w \in Waiting' /\ calls'[w].kind = calls[w].kind
           \/ \E c \in Conversation : Shows(c)
           \/ Gone
           \/ \E f \in Fetch, applied \in BOOLEAN, list \in Requests \cup {None} : Finished(f, applied, list)
<1>0. w \in Call /\ calls[w] # None /\ calls[w].client = "refreshing"
  BY DEF Waiting, Live
<1> DEFINE Stays == w \in Waiting' /\ calls'[w].kind = calls[w].kind
<1>i. calls'[w] = calls[w] => Stays
  BY <1>0 DEF Waiting, Live
<1>3. ASSUME NEW m \in Call, NEW kind, NEW q, NEW i, NEW n, KeyedIssue(m, kind, q, i, n)
      PROVE  Stays
  <2>1. calls' = [calls EXCEPT ![m] = calls'[m]] /\ calls[m] = None
    BY <1>3, KeyedTypes
  <2> QED BY <1>0, <1>i, <2>1, OthersSame
<1>4. ASSUME NEW m \in Call, NEW kind, NEW q, NEW i, NEW n, PlainIssue(m, kind, q, i, n)
      PROVE  Stays
  <2>1. calls' = [calls EXCEPT ![m] = calls'[m]] /\ calls[m] = None
    BY <1>4, PlainTypes
  <2> QED BY <1>0, <1>i, <2>1, OthersSame
<1>5. ASSUME NEW m \in Call, NEW f \in Fetch, Refreshed(m, f)
      PROVE  Stays
  BY <1>0, <1>i, <1>5, OthersSame DEF Refreshed
<1>6. ASSUME NEW f \in Fetch, Polled(f) \/ ReadDone(f) \/ Unused(f)
      PROVE  Stays
  BY <1>i, <1>6 DEF Polled, ReadDone, Unused
<1>7. ASSUME NEW m \in Call, Asked(m) \/ Begun(m) \/ Over(m) \/ Recalled(m) \/ Answered(m)
      PROVE  Stays
  <2>1. Served(m)
    BY <1>7 DEF Asked, Begun, Over, Recalled, Answered
  <2>2. CASE w # m
    BY <1>0, <1>i, <2>1, <2>2, OthersSame DEF Served
  <2>3. CASE w = m
    <3>1. calls'[w] # None
      BY <2>1, <2>3, NoneApart DEF Served, Good, Types, TypeOK
    <3> QED BY <1>0, <2>1, <2>3, <3>1 DEF Served, Alike, Waiting, Live
  <2> QED BY <2>2, <2>3
<1>8. ASSUME NEW m \in Call, Dropped(m)
      PROVE  Stays
  BY <1>0, <1>i, <1>8 DEF Dropped, Good, Types, TypeOK
<1>9. ASSUME NEW m \in Call, NEW result \in {"ok", "failed", "refused", "lost"},
             NEW stage \in {"onway", "generating", "done"},
             \/ HeardAway(m, result, stage) \/ HeardLast(m, result, stage)
             \/ \E f \in Fetch : HeardHere(m, f, result, stage)
      PROVE  Stays
  <2>1. w # m
    BY <1>0, <1>9 DEF HeardAway, HeardLast, HeardHere, Told
  <2> QED BY <1>0, <1>i, <1>9, <2>1, LastCalls, HereCalls
<1> QED BY <1>3, <1>4, <1>5, <1>6, <1>7, <1>8, <1>9 DEF Steps

\* The answer to a branch switch shows the conversation as it is.
LEMMA BranchAnswers ==
    ASSUME Good, Steps, NEW w \in Call, calls'[w] # None, calls'[w].client = "waiting", calls'[w].kind = "branch",
           calls'[w].server = "answered", calls'[w].result = "ok"
    PROVE  \/ /\ calls[w] # None /\ calls[w].client = "waiting" /\ calls[w].kind = "branch"
              /\ calls[w].server = "answered" /\ calls[w].result = "ok"
              /\ calls'[w].conv = calls[w].conv /\ calls'[w].data = calls[w].data
           \/ calls'[w].data = asked[calls'[w].conv] /\ asked' = asked
<1> DEFINE Old == /\ calls[w] # None /\ calls[w].client = "waiting" /\ calls[w].kind = "branch"
                  /\ calls[w].server = "answered" /\ calls[w].result = "ok"
                  /\ calls'[w].conv = calls[w].conv /\ calls'[w].data = calls[w].data
           Now == calls'[w].data = asked[calls'[w].conv] /\ asked' = asked
<1>s. Still(w) => Old
  BY DEF Still, Later, Alike
<1>i. calls'[w] = calls[w] => Old
  OBVIOUS
<1> HIDE DEF Old
<1>1. ASSUME NEW c \in Conversation, Shows(c)
      PROVE  Old
  BY <1>1, <1>s, ShowsCalls
<1>2. CASE Gone
  BY <1>2, <1>s, GoneCalls
<1>3. ASSUME NEW m \in Call, NEW kind, NEW q, NEW i, NEW n, KeyedIssue(m, kind, q, i, n)
      PROVE  Old
  <2>1. calls' = [calls EXCEPT ![m] = calls'[m]] /\ calls'[m].server = "onway"
    BY <1>3, KeyedTypes
  <2> QED BY <1>i, <2>1, OthersSame
<1>4. ASSUME NEW m \in Call, NEW kind, NEW q, NEW i, NEW n, PlainIssue(m, kind, q, i, n)
      PROVE  Old
  <2>1. calls' = [calls EXCEPT ![m] = calls'[m]] /\ calls'[m].server = "onway"
    BY <1>4, PlainTypes
  <2> QED BY <1>i, <2>1, OthersSame
<1>5. ASSUME NEW m \in Call, NEW f \in Fetch, Refreshed(m, f)
      PROVE  Old
  BY <1>i, <1>5, OthersSame DEF Refreshed
<1>6. ASSUME NEW f \in Fetch, Polled(f) \/ ReadDone(f) \/ Unused(f)
      PROVE  Old
  BY <1>i, <1>6 DEF Polled, ReadDone, Unused
<1>7. ASSUME NEW m \in Call, Asked(m) \/ Begun(m) \/ Over(m) \/ Recalled(m) \/ Answered(m)
      PROVE  Old \/ Now
  <2>1. Served(m)
    BY <1>7 DEF Asked, Begun, Over, Recalled, Answered
  <2>2. CASE w # m
    BY <1>i, <2>1, <2>2, OthersSame DEF Served
  <2>3. CASE w = m
    <3>1. calls[w].kind = "branch" /\ calls'[w].conv = calls[w].conv
      BY <2>1, <2>3 DEF Served, Alike
    <3>2. ~Asked(m) /\ ~Begun(m) /\ ~Recalled(m)
      BY <2>3, <3>1 DEF Asked, Begun, Recalled, Kept
    <3>3. ~Over(m)
      <4>1. CallShape(calls[w])
        BY <2>1, <2>3 DEF Served, Good, CallsShaped, Live
      <4> QED BY <2>3, <3>1, <4>1 DEF Over, CallShape, Asking, Kept
    <3> QED BY <1>7, <2>3, <3>1, <3>2, <3>3 DEF Answered, server
  <2> QED BY <2>2, <2>3
<1>8. ASSUME NEW m \in Call, Dropped(m)
      PROVE  Old
  BY <1>8, <1>s, DroppedCalls
<1>9. ASSUME NEW m \in Call, NEW result \in {"ok", "failed", "refused", "lost"},
             NEW stage \in {"onway", "generating", "done"},
             \/ HeardAway(m, result, stage) \/ HeardLast(m, result, stage)
             \/ \E f \in Fetch : HeardHere(m, f, result, stage)
      PROVE  Old
  <2>1. w # m
    BY <1>9, LastCalls, HereCalls
  <2> QED BY <1>i, <1>9, <2>1, LastCalls, HereCalls
<1>11. ASSUME NEW f \in Fetch, NEW applied \in BOOLEAN, NEW list \in Requests \cup {None}, Finished(f, applied, list)
       PROVE  Old
  BY <1>11, <1>s, FinishedCalls
<1> QED BY <1>1, <1>2, <1>3, <1>4, <1>5, <1>6, <1>7, <1>8, <1>9, <1>11 DEF Steps, Old

\* The screen and the lock, while the page stays and no refresh ends.
LEMMA ScreenStays ==
    ASSUME Good, Steps
    PROVE  \/ UNCHANGED <<snap, required>>
           \/ \E c \in Conversation : Shows(c)
           \/ Gone
           \/ \E m \in Call, stage \in {"onway", "generating", "done"} :
                 /\ HeardLast(m, "ok", stage) /\ calls[m].kind = "branch"
                 /\ snap' = calls[m].data /\ required' = required
           \/ \E f \in Fetch, applied \in BOOLEAN, list \in Requests \cup {None} : Finished(f, applied, list)
<1>3. ASSUME NEW m \in Call, NEW kind, NEW q, NEW i, NEW n,
             KeyedIssue(m, kind, q, i, n) \/ PlainIssue(m, kind, q, i, n)
      PROVE  UNCHANGED <<snap, required>>
  BY <1>3 DEF KeyedIssue, PlainIssue
<1>5. ASSUME NEW f \in Fetch, Polled(f) \/ ReadDone(f) \/ Unused(f) \/ \E m \in Call : Refreshed(m, f)
      PROVE  UNCHANGED <<snap, required>>
  BY <1>5 DEF Refreshed, Polled, ReadDone, Unused, shown
<1>7. ASSUME NEW m \in Call, Asked(m) \/ Begun(m) \/ Over(m) \/ Recalled(m) \/ Answered(m) \/ Dropped(m)
      PROVE  UNCHANGED <<snap, required>>
  BY <1>7 DEF Asked, Begun, Over, Recalled, Answered, Dropped, Served, shown
<1>8. ASSUME NEW m \in Call, NEW result \in {"ok", "failed", "refused", "lost"},
             NEW stage \in {"onway", "generating", "done"},
             HeardAway(m, result, stage) \/ \E f \in Fetch : HeardHere(m, f, result, stage)
      PROVE  UNCHANGED <<snap, required>>
  BY <1>8 DEF HeardAway, HeardHere, shown
<1>9. ASSUME NEW m \in Call, NEW result \in {"ok", "failed", "refused", "lost"},
             NEW stage \in {"onway", "generating", "done"}, HeardLast(m, result, stage)
      PROVE  \/ UNCHANGED <<snap, required>>
             \/ calls[m].kind = "branch" /\ result = "ok" /\ snap' = calls[m].data /\ required' = required
  BY <1>9 DEF HeardLast
<1> QED BY <1>3, <1>5, <1>7, <1>8, <1>9 DEF Steps

LEMMA HeardKnown ==
    ASSUME IInv, Steps, heard' # None
    PROVE  /\ page' \in Conversation
           /\ Covers(asked[page'], heard'.request, heard'.attempt)
           /\ Covers(asked'[page'], heard'.request, heard'.attempt)
<1>0. Good /\ Types' /\ Grows /\ HeardShape
  BY TypesNext DEF IInv
<1>1. page' \in Conversation /\ Covers(asked[page'], heard'.request, heard'.attempt)
  <2>1. CASE UNCHANGED <<heard, page, visited>>
    BY <1>0, <2>1 DEF HeardShape
  <2>2. ASSUME NEW m \in Call, NEW result \in {"ok", "failed"}, NEW stage \in {"onway", "generating", "done"},
               NEW f \in Fetch, HeardHere(m, f, result, stage), calls[m].kind \in Asking,
               heard' = [request |-> calls[m].request, attempt |-> calls[m].attempt]
        PROVE  page' \in Conversation /\ Covers(asked[page'], heard'.request, heard'.attempt)
    <3>1. /\ calls[m] # None /\ calls[m].conv = page /\ page' = page /\ calls[m].server = "answered"
          /\ calls[m].result = result
      BY <2>2 DEF HeardHere, Told
    <3>2. calls[m] \in CallRow /\ CallShape(calls[m])
      BY <1>0, <3>1 DEF Good, Types, TypeOK, CallsShaped, Live
    <3>3. Covers(asked[page], calls[m].request, calls[m].attempt) /\ page \in Conversation
      BY <2>2, <3>1, <3>2 DEF CallShape, CallRow
    <3> QED BY <2>2, <3>1, <3>3
  <2> QED BY <1>0, <2>1, <2>2, HeardSteps
<1>2. /\ NotOlder(asked[page'], asked'[page'])
      /\ asked[page'] \in Requests /\ asked'[page'] \in Requests
  BY <1>0, <1>1 DEF Grows, Past, Good, Types, TypeOK
<1> QED BY <1>1, <1>2, CoversOn

LEMMA HeardRead ==
    ASSUME IInv, Steps, heard' # None, NEW f \in Fetch, fetches'[f] # None, f = latest', fetches'[f].conv = page',
           fetches'[f].stage = "read"
    PROVE  Covers(fetches'[f].data, heard'.request, heard'.attempt)
<1>0. Good /\ HeardShape
  BY DEF IInv
<1>1. CASE UNCHANGED <<heard, page, visited>>
  <2>1. CASE FetchKept(f)
    BY <1>0, <1>1, <2>1 DEF FetchKept, HeardShape, InFlight
  <2>2. CASE FetchRead(f)
    BY <1>0, <1>1, <2>2 DEF FetchRead, HeardShape
  <2>3. ~FetchSent(f) /\ ~FetchGone(f)
    BY DEF FetchSent, FetchGone
  <2> QED BY <1>0, <2>1, <2>2, <2>3, FetchSteps DEF FetchMoves
<1>2. ASSUME NEW m \in Call, NEW result \in {"ok", "failed"}, NEW stage \in {"onway", "generating", "done"},
             NEW g \in Fetch, HeardHere(m, g, result, stage)
      PROVE  FALSE
  <2>1. StartFetch(g, page, FALSE)
    BY <1>2 DEF HeardHere
  <2> QED BY <1>0, <2>1, StartedFetch DEF Good
<1> QED BY <1>0, <1>1, <1>2, HeardSteps

LEMMA HeardShown ==
    ASSUME IInv, Steps, heard' # None, page' \notin visited'
    PROVE  \/ snap' \in Requests /\ Covers(snap', heard'.request, heard'.attempt)
           \/ required'
           \/ \E m \in Waiting' : calls'[m].kind \in Asking
<1> DEFINE Goal == \/ snap' \in Requests /\ Covers(snap', heard'.request, heard'.attempt)
                   \/ required'
                   \/ \E m \in Waiting' : calls'[m].kind \in Asking
<1>0. Good /\ Types' /\ HeardShape
  BY TypesNext DEF IInv
<1>1. CASE UNCHANGED <<heard, page, visited>>
  <2>a. heard # None /\ page \notin visited /\ heard' = heard
    BY <1>1
  <2>0. \/ snap \in Requests /\ Covers(snap, heard'.request, heard'.attempt)
        \/ required
        \/ \E m \in Waiting : calls[m].kind \in Asking
    BY <1>0, <2>a DEF HeardShape
  <2>1. ~Gone /\ ~\E c \in Conversation : Shows(c)
    BY <1>1 DEF Gone, GoAway, Shows
  <2>2. ASSUME NEW f \in Fetch, NEW applied \in BOOLEAN, NEW list \in Requests \cup {None}, Finished(f, applied, list)
        PROVE  Goal
    <3>1. required' = IF Waiting = {} THEN required ELSE ~applied
      BY <2>2 DEF Finished, Finish
    <3>2. CASE applied = TRUE
      <4>1. f \in InFlight /\ f = latest /\ fetches[f].conv = page /\ fetches[f].stage = "read"
            /\ snap' = fetches[f].data
        BY <2>2, <3>2 DEF Finished, InFlight
      <4>2. Covers(snap', heard'.request, heard'.attempt)
        BY <1>0, <2>a, <4>1 DEF HeardShape
      <4>3. snap' \in Requests
        BY <1>0, <4>1 DEF Good, Types, TypeOK, InFlight, FetchRow
      <4> QED BY <4>2, <4>3
    <3>3. CASE applied = FALSE
      <4>1. snap' = snap
        BY <2>2, <3>3 DEF Finished
      <4>2. CASE Waiting = {}
        BY <2>0, <3>1, <4>1, <4>2
      <4>3. CASE Waiting # {}
        BY <3>1, <3>3, <4>3
      <4> QED BY <4>2, <4>3
    <3> QED BY <3>2, <3>3
  <2>3. CASE \E m \in Waiting : calls[m].kind \in Asking
    BY <1>0, <2>1, <2>2, <2>3, WaitingStays
  <2>4. ASSUME NEW m \in Call, NEW stage \in {"onway", "generating", "done"}, HeardLast(m, "ok", stage),
               calls[m].kind = "branch", snap' = calls[m].data
        PROVE  Goal
    <3>1. /\ m \in Live /\ WaitingHere(m) /\ calls[m].server = "answered" /\ calls[m].result = "ok"
      BY <2>4 DEF HeardLast, Told, WaitingHere, Live
    <3>2. Covers(snap', heard'.request, heard'.attempt)
      BY <1>0, <2>a, <2>4, <3>1 DEF HeardShape
    <3>3. snap' \in Requests
      BY <1>0, <2>4, <3>1 DEF Good, Types, TypeOK, Live, CallRow
    <3> QED BY <3>2, <3>3
  <2>5. CASE UNCHANGED <<snap, required>> /\ ~\E m \in Waiting : calls[m].kind \in Asking
    BY <2>0, <2>5
  <2> QED BY <1>0, <2>1, <2>2, <2>3, <2>4, <2>5, ScreenStays
<1>2. ASSUME NEW m \in Call, NEW result \in {"ok", "failed"}, NEW stage \in {"onway", "generating", "done"},
             NEW f \in Fetch, HeardHere(m, f, result, stage), calls[m].kind \in Asking
      PROVE  Goal
  <2>1. calls'[m].client = "refreshing" /\ HeardOf(m, result, stage)
    BY <1>0, <1>2, HereCalls
  <2>2. calls'[m] # None
    <3>1. calls[m] # None /\ calls' = [calls EXCEPT ![m] = [Then(m, result, stage) EXCEPT !.client = "refreshing"]]
          /\ Told(m, result, stage)
      BY <1>2 DEF HeardHere, Told
    <3>2. [Then(m, result, stage) EXCEPT !.client = "refreshing"] \in CallRow
      BY <1>0, <3>1, ToldRow
    <3> QED BY <1>0, <3>1, <3>2, NoneApart DEF Good, Types, TypeOK
  <2>3. m \in Waiting' /\ calls'[m].kind \in Asking
    BY <1>2, <2>1, <2>2 DEF Waiting, Live, HeardOf, Alike
  <2> QED BY <2>3
<1> QED BY <1>0, <1>1, <1>2, HeardSteps

LEMMA HeardNext ==
    ASSUME IInv, Steps
    PROVE  HeardShape'
<1>0. Good /\ Types' /\ HeardShape /\ Locked
  BY TypesNext DEF IInv
<1>1. ASSUME heard' # None, page' \notin visited', NEW w \in Call, calls'[w] # None, calls'[w].client = "waiting",
             calls'[w].conv = page', calls'[w].kind = "branch", calls'[w].server = "answered", calls'[w].result = "ok"
      PROVE  Covers(calls'[w].data, heard'.request, heard'.attempt)
  <2>1. CASE calls'[w].data = asked[calls'[w].conv] /\ asked' = asked
    BY <1>1, <2>1, HeardKnown
  <2>2. CASE /\ calls[w] # None /\ calls[w].client = "waiting" /\ calls[w].kind = "branch"
             /\ calls[w].server = "answered" /\ calls[w].result = "ok"
             /\ calls'[w].conv = calls[w].conv /\ calls'[w].data = calls[w].data
    <3>1. CASE UNCHANGED <<heard, page, visited>>
      <4>1. w \in Live /\ WaitingHere(w)
        BY <1>1, <2>2, <3>1 DEF WaitingHere, Live
      <4> QED BY <1>0, <1>1, <2>2, <3>1, <4>1 DEF HeardShape
    <3>2. ASSUME NEW m \in Call, NEW result \in {"ok", "failed"}, NEW stage \in {"onway", "generating", "done"},
                 NEW f \in Fetch, HeardHere(m, f, result, stage), calls[m].kind \in Asking
          PROVE  FALSE
      <4>1. UNCHANGED <<page, visited>> /\ m \in Live /\ BusyHere(m)
        BY <3>2 DEF HeardHere, Told, BusyHere, WaitingHere, Live
      <4>2. w \in Live /\ BusyHere(w) /\ w # m
        BY <1>1, <2>2, <3>2, <4>1 DEF BusyHere, WaitingHere, Live, Asking, Kept
      <4> QED BY <1>0, <1>1, <4>1, <4>2 DEF Locked
    <3> QED BY <1>0, <1>1, <3>1, <3>2, HeardSteps
  <2> QED BY <1>0, <1>1, <2>1, <2>2, BranchAnswers
<1>2. heard' # None => page' \in Conversation /\ Covers(asked'[page'], heard'.request, heard'.attempt)
  BY <1>0, HeardKnown
<1>3. ASSUME heard' # None, NEW f \in Fetch, fetches'[f] # None, f = latest', fetches'[f].conv = page',
             fetches'[f].stage = "read"
      PROVE  Covers(fetches'[f].data, heard'.request, heard'.attempt)
  BY <1>3, HeardRead
<1>4. page' \notin visited' /\ heard' # None =>
           \/ snap' \in Requests /\ Covers(snap', heard'.request, heard'.attempt)
           \/ required'
           \/ \E m \in Waiting' : calls'[m].kind \in Asking
  BY HeardShown
<1> QED BY <1>1, <1>2, <1>3, <1>4 DEF HeardShape, InFlight, Live, WaitingHere

-----------------------------------------------------------------------------
(* The draft *)

LEMMA DraftQuiet ==
    ASSUME Good, DraftShape, UNCHANGED <<page, visited>>, draft' \in {None, draft},
           op' = op \/ op'.status # "error",
           \A w \in Call : calls'[w] # None =>
              \/ ClientKept(w) \/ ClientHeard(w)
              \/ calls'[w].kind # "send"
    PROVE  DraftShape'
<1> SUFFICES ASSUME page \notin visited
             PROVE  /\ \A w \in Call : calls'[w] # None /\ BusyHere(w)' /\ calls'[w].kind = "send"
                          => draft' \in {None, calls'[w].question}
                    /\ op'.status = "error" /\ op'.kind = "send" =>
                          /\ draft' \in {None, op'.question}
                          /\ op'.request # None => draft' = None
  BY DEF DraftShape, Live
<1>1. ASSUME NEW w \in Call, calls'[w] # None, BusyHere(w)', calls'[w].kind = "send"
      PROVE  draft' \in {None, calls'[w].question}
  <2>1. ClientKept(w) \/ ClientHeard(w)
    BY <1>1
  <2>2. /\ calls'[w].client = "waiting" /\ calls'[w].conv = page'
        \/ (calls'[w].client = "refreshing" /\ calls'[w].kind # "refresh")
    BY <1>1 DEF BusyHere, WaitingHere
  <2>3. w \in Live /\ BusyHere(w) /\ calls[w].kind = "send" /\ calls'[w].question = calls[w].question
    BY <1>1, <2>1, <2>2 DEF ClientKept, ClientHeard, Alike, BusyHere, WaitingHere, Live
  <2>4. draft \in {None, calls[w].question}
    BY <2>3 DEF DraftShape
  <2> QED BY <2>3, <2>4
<1>2. ASSUME op'.status = "error", op'.kind = "send"
      PROVE  draft' \in {None, op'.question} /\ (op'.request # None => draft' = None)
  BY <1>2 DEF DraftShape
<1> QED BY <1>1, <1>2

LEMMA DraftNext ==
    ASSUME IInv, Steps
    PROVE  DraftShape'
<1>0. Good /\ Types' /\ Locked /\ DraftShape
  BY TypesNext DEF IInv
<1>i. /\ Idle.status # "error" /\ \A kind : Pending(kind).status # "error"
  BY DEF Idle, Pending
<1>1. ASSUME NEW c \in Conversation, Shows(c)
      PROVE  DraftShape'
  BY <1>i, <1>1 DEF Shows, DraftShape
<1>2. CASE Gone
  BY <1>i, <1>2 DEF Gone, GoAway, DraftShape
<1>3. ASSUME NEW m \in Call, NEW kind, NEW q, NEW i, NEW n,
             KeyedIssue(m, kind, q, i, n)
      PROVE  DraftShape'
  <2>1. /\ calls' = [calls EXCEPT ![m] = calls'[m]] /\ calls'[m].kind = kind /\ calls'[m].question = q
        /\ op' = Pending(kind)
    BY <1>0, <1>3, KeyedTypes
  <2>2. Unlocked /\ UNCHANGED <<page, visited>>
    BY <1>3 DEF KeyedIssue
  <2>3. ASSUME NEW w \in Call, w # m, calls'[w] # None, page' \notin visited'
        PROVE  ~BusyHere(w)'
    <3>1. calls'[w] = calls[w] /\ w \in Live
      BY <1>0, <2>1, <2>3, OthersSame DEF Live
    <3>2. ~BusyHere(w)
      BY <1>0, <2>2, <2>3, <3>1, NothingBusy
    <3> QED BY <2>2, <3>1, <3>2 DEF BusyHere, WaitingHere
  <2>4. page' \notin visited' /\ kind = "send" => draft' \in {None, q}
    BY <1>0, <1>3, <2>2 DEF KeyedIssue, DraftShape
  <2> QED BY <1>i, <2>1, <2>3, <2>4 DEF DraftShape, Live
<1>4. ASSUME NEW m \in Call, NEW kind, NEW q, NEW i, NEW n, PlainIssue(m, kind, q, i, n)
      PROVE  DraftShape'
  <2>1. /\ calls' = [calls EXCEPT ![m] = calls'[m]] /\ calls'[m].kind = kind /\ kind \notin Kept
        /\ op' = (IF kind \in Settings \cup {"feedback"} THEN op ELSE Pending(kind))
    BY <1>0, <1>4, PlainTypes
  <2>2. UNCHANGED <<page, visited, draft>>
    BY <1>4 DEF PlainIssue
  <2>3. ASSUME NEW w \in Call, calls'[w] # None
        PROVE  ClientKept(w) \/ ClientHeard(w) \/ calls'[w].kind # "send"
    BY <1>0, <2>1, <2>3, OthersSame DEF Kept, ClientKept, Alike
  <2> QED BY <1>0, <1>i, <2>1, <2>2, <2>3, DraftQuiet
<1>5. ASSUME NEW m \in Call, NEW f \in Fetch, Refreshed(m, f)
      PROVE  DraftShape'
  <2>1. /\ calls' = [calls EXCEPT ![m] = calls'[m]] /\ calls'[m].kind = "refresh"
        /\ UNCHANGED <<page, visited, op, draft>>
    BY <1>5 DEF Refreshed
  <2>2. ASSUME NEW w \in Call, calls'[w] # None
        PROVE  ClientKept(w) \/ ClientHeard(w) \/ calls'[w].kind # "send"
    BY <1>0, <2>1, <2>2, OthersSame DEF ClientKept, Alike
  <2> QED BY <1>0, <2>1, <2>2, DraftQuiet
<1>6. ASSUME NEW f \in Fetch, Polled(f) \/ ReadDone(f) \/ Unused(f)
      PROVE  DraftShape'
  <2>1. UNCHANGED <<page, visited, op, draft, calls>>
    BY <1>6 DEF Polled, ReadDone, Unused, shown
  <2>2. \A w \in Call : calls'[w] # None => ClientKept(w)
    BY <2>1 DEF ClientKept, Alike
  <2> QED BY <1>0, <2>1, <2>2, DraftQuiet
<1>7. ASSUME NEW m \in Call, Asked(m) \/ Begun(m) \/ Over(m) \/ Recalled(m) \/ Answered(m) \/ Dropped(m)
      PROVE  DraftShape'
  <2>1. UNCHANGED <<page, visited, op, draft>>
    BY <1>7 DEF Asked, Begun, Over, Recalled, Answered, Dropped, Served, shown
  <2>2. ASSUME NEW w \in Call, calls'[w] # None
        PROVE  ClientKept(w)
    <3>1. CASE Dropped(m)
      BY <1>0, <2>2, <3>1, DroppedCalls DEF ClientKept, Alike
    <3>2. CASE Served(m) /\ w # m
      BY <1>0, <2>2, <3>2, OthersSame DEF Served, ClientKept, Alike
    <3>3. CASE Served(m) /\ w = m
      BY <2>2, <3>3 DEF Served, ClientKept
    <3> QED BY <1>7, <3>1, <3>2, <3>3 DEF Asked, Begun, Over, Recalled, Answered
  <2> QED BY <1>0, <2>1, <2>2, DraftQuiet
<1>8. ASSUME NEW m \in Call, NEW result \in {"ok", "failed", "refused", "lost"},
             NEW stage \in {"onway", "generating", "done"}, HeardAway(m, result, stage) \/ HeardLast(m, result, stage)
      PROVE  DraftShape'
  <2>1. UNCHANGED <<page, visited, draft>> /\ op' \in {op, Idle} /\ calls[m] # None
    BY <1>8 DEF HeardAway, HeardLast, Told, shown
  <2>2. ASSUME NEW w \in Call, calls'[w] # None
        PROVE  ClientKept(w)
    BY <1>0, <1>8, <2>1, <2>2, LastCalls DEF ClientKept, Alike, HeardOf
  <2> QED BY <1>0, <1>i, <2>1, <2>2, DraftQuiet
<1>9. ASSUME NEW m \in Call, NEW result \in {"ok", "failed", "refused", "lost"},
             NEW stage \in {"onway", "generating", "done"}, NEW f \in Fetch, HeardHere(m, f, result, stage)
      PROVE  DraftShape'
  <2>1. UNCHANGED <<page, visited, op>> /\ draft' \in {None, draft} /\ calls[m] # None /\ calls[m].client = "waiting"
        /\ calls[m].conv = page
    BY <1>9 DEF HeardHere, Told
  <2>2. ASSUME NEW w \in Call, calls'[w] # None
        PROVE  ClientKept(w) \/ ClientHeard(w)
    BY <1>0, <1>9, <2>1, <2>2, HereCalls DEF ClientKept, ClientHeard, Alike, HeardOf
  <2> QED BY <1>0, <2>1, <2>2, DraftQuiet
<1>10. ASSUME NEW f \in Fetch, NEW applied \in BOOLEAN, NEW list \in Requests \cup {None}, Finished(f, applied, list)
       PROVE  DraftShape'
  <2>1. UNCHANGED <<page, visited>> /\ page \in Conversation /\ (list # None => Past(list, asked[page]))
    BY <1>0, <1>10, FinishedList DEF Finished
  <2>2. \A w \in Call : calls'[w] # None => ClientKept(w)
    BY <1>0, <1>10, FinishedCalls DEF Still, Later, ClientKept
  <2>3. PICK o : FinishOp(o, applied, list)
    BY <1>10, FinishedOp
  <2>4. draft' \in {None, draft} /\ op' \in {o, Idle}
    BY <2>3, SettleShape DEF FinishOp
  <2>5. CASE o = op
    BY <1>0, <1>i, <2>1, <2>2, <2>4, <2>5, DraftQuiet
  <2>6. ASSUME NEW m \in Waiting, calls[m].kind \in Asking, o = After(calls[m], applied, list)
        PROVE  DraftShape'
    <3>1. CASE op'.status # "error"
      BY <1>0, <2>1, <2>2, <2>4, <3>1, DraftQuiet
    <3>2. CASE op'.status = "error"
      <4>1. op' = o /\ o.status = "error"
        BY <1>i, <2>4, <3>2
      <4>2. calls[m].conv = page /\ m \in Live /\ BusyHere(m)
        BY <2>6 DEF IInv, Away, Waiting, BusyHere, Asking, Kept
      <4>3. o.kind = calls[m].kind /\ o.question = calls[m].question
        BY <1>0, <2>1, <2>6, <4>1, <4>2, AfterShape
      <4>4. o.kind = "send" /\ o.request # None => draft' = None
        BY <2>3, <4>1 DEF FinishOp
      <4>5. o.kind = "send" /\ page \notin visited => draft \in {None, o.question}
        BY <1>0, <4>2, <4>3 DEF DraftShape
      <4>6. ASSUME NEW w \in Call, calls'[w] # None, BusyHere(w)', calls'[w].kind = "send", page \notin visited
            PROVE  draft' \in {None, calls'[w].question}
        <5>1. w \in Live /\ BusyHere(w) /\ calls[w].kind = "send" /\ calls'[w].question = calls[w].question
          BY <2>1, <2>2, <4>6 DEF ClientKept, Alike, BusyHere, WaitingHere, Live
        <5> QED BY <1>0, <2>4, <4>6, <5>1 DEF DraftShape
      <4> QED BY <2>1, <2>4, <4>1, <4>4, <4>5, <4>6 DEF DraftShape, Live
    <3> QED BY <3>1, <3>2
  <2> QED BY <2>3, <2>5, <2>6 DEF FinishOp
<1> QED BY <1>1, <1>2, <1>3, <1>4, <1>5, <1>6, <1>7, <1>8, <1>9, <1>10 DEF Steps

-----------------------------------------------------------------------------
(* Keys *)

KeyKept(w) ==
    /\ calls[w] # None /\ Alike(calls'[w], calls[w])
    /\ calls'[w].client # "done" => calls[w].client # "done"
    /\ calls[w].told = "ok" => calls'[w].told = "ok"

Keyed == \E m \in Call, kind \in Kept, q \in Question, i \in Intent, n \in Index : KeyedIssue(m, kind, q, i, n)

\* No call with a key comes up but those that are issued.
LEMMA KeptStay ==
    ASSUME Good, Steps, ~Keyed, NEW w \in Call, calls'[w] # None, calls'[w].kind \in Kept
    PROVE  KeyKept(w)
<1>s. Still(w) => KeyKept(w)
  BY DEF Still, Later, KeyKept
<1>i. calls'[w] = calls[w] => KeyKept(w)
  BY DEF KeyKept, Alike
<1>1. ASSUME NEW c \in Conversation, Shows(c)
      PROVE  KeyKept(w)
  BY <1>1, <1>s, ShowsCalls
<1>2. CASE Gone
  BY <1>2, <1>s, GoneCalls
<1>4. ASSUME NEW m \in Call, NEW kind, NEW q, NEW i, NEW n, PlainIssue(m, kind, q, i, n)
      PROVE  KeyKept(w)
  <2>1. calls' = [calls EXCEPT ![m] = calls'[m]] /\ calls'[m].kind = kind /\ kind \notin Kept
    BY <1>4, PlainTypes
  <2> QED BY <1>i, <2>1, OthersSame
<1>5. ASSUME NEW m \in Call, NEW f \in Fetch, Refreshed(m, f)
      PROVE  KeyKept(w)
  BY <1>i, <1>5, OthersSame DEF Refreshed, Kept
<1>6. ASSUME NEW f \in Fetch, Polled(f) \/ ReadDone(f) \/ Unused(f)
      PROVE  KeyKept(w)
  BY <1>i, <1>6 DEF Polled, ReadDone, Unused
<1>7. ASSUME NEW m \in Call, Asked(m) \/ Begun(m) \/ Over(m) \/ Recalled(m) \/ Answered(m)
      PROVE  KeyKept(w)
  <2>1. Served(m)
    BY <1>7 DEF Asked, Begun, Over, Recalled, Answered
  <2>2. CASE w # m
    BY <1>i, <2>1, <2>2, OthersSame DEF Served
  <2>3. CASE w = m
    BY <2>1, <2>3 DEF Served, KeyKept
  <2> QED BY <2>2, <2>3
<1>8. ASSUME NEW m \in Call, Dropped(m)
      PROVE  KeyKept(w)
  BY <1>8, <1>s, DroppedCalls
<1>9. ASSUME NEW m \in Call, NEW result \in {"ok", "failed", "refused", "lost"},
             NEW stage \in {"onway", "generating", "done"},
             \/ HeardAway(m, result, stage) \/ HeardLast(m, result, stage)
             \/ \E f \in Fetch : HeardHere(m, f, result, stage)
      PROVE  KeyKept(w)
  <2>1. CASE w # m
    BY <1>i, <1>9, <2>1, LastCalls, HereCalls
  <2>2. CASE w = m
    <3>1. calls[w] # None /\ calls[w].client = "waiting"
      BY <1>9, <2>2 DEF HeardAway, HeardLast, HeardHere, Told
    <3>2. calls[w].told = None /\ None # "ok"
      BY <3>1 DEF Good, CallsShaped, Live, CallShape, Types, TypeOK, NoneIsNothing
    <3>3. Alike(calls'[w], calls[w])
      BY <1>9, <2>2, LastCalls, HereCalls DEF HeardOf
    <3> QED BY <3>1, <3>2, <3>3 DEF KeyKept
  <2> QED BY <2>1, <2>2
<1>11. ASSUME NEW f \in Fetch, NEW applied \in BOOLEAN, NEW list \in Requests \cup {None}, Finished(f, applied, list)
       PROVE  KeyKept(w)
  BY <1>11, <1>s, FinishedCalls
<1> QED BY <1>1, <1>2, <1>4, <1>5, <1>6, <1>7, <1>8, <1>9, <1>11 DEF Steps, Keyed

\* A key is dropped with the page, or with a call that had it and is over.
GaveUp(slot) ==
    \E m \in KeptCalls : /\ calls[m].slot = slot /\ Ending(m)
                         /\ calls'[m] = None \/ calls'[m].client = "done" \/ calls'[m].told = "ok"

LEMMA KeyGoneGives ==
    ASSUME Good, NEW m \in Call, calls[m] # None, KeyGone(calls[m]), NEW k \in Key
    PROVE  keys'[k] = keys[k] \/ (keys'[k] = None /\ calls[m].kind \in Kept /\ keys[k] = calls[m].slot)
BY DEF KeyGone, Good, Types, TypeOK

LEMMA FinishedKeys ==
    ASSUME Good, NEW f, NEW applied, NEW list, Finished(f, applied, list), NEW k \in Key
    PROVE  \/ keys'[k] = keys[k]
           \/ /\ keys'[k] = None
              /\ \E m \in Waiting : /\ calls[m].kind \in Kept /\ calls[m].slot = keys[k] /\ calls[m].told # "ok"
                                    /\ calls[m].told # "lost" \/ About(calls[m], calls[m].told, list) # None
<1> DEFINE ended == {calls[m] : m \in {w \in Waiting : calls[w].kind \in Kept /\ calls[w].told # "ok"}}
<1>1. keys' = [l \in Key |-> IF \E call \in ended : Keys(call, call.told, list)[l] = None THEN None ELSE keys[l]]
  BY DEF Finished, Finish
<1>2. CASE keys[k] = None
  BY <1>1, <1>2
<1>3. CASE keys[k] # None
  <2> SUFFICES ASSUME keys'[k] # keys[k]
               PROVE  /\ keys'[k] = None
                      /\ \E m \in Waiting :
                            /\ calls[m].kind \in Kept /\ calls[m].slot = keys[k] /\ calls[m].told # "ok"
                            /\ calls[m].told # "lost" \/ About(calls[m], calls[m].told, list) # None
    OBVIOUS
  <2>1. keys'[k] = None /\ \E call \in ended : Keys(call, call.told, list)[k] = None
    BY <1>1
  <2>2. PICK m \in Waiting : /\ calls[m].kind \in Kept /\ calls[m].told # "ok"
                             /\ Keys(calls[m], calls[m].told, list)[k] = None
    BY <2>1
  <2>3. /\ calls[m].told # "lost" \/ About(calls[m], calls[m].told, list) # None
        /\ calls[m].slot = keys[k]
    BY <1>3, <2>2 DEF Keys
  <2> QED BY <2>1, <2>2, <2>3
<1> QED BY <1>2, <1>3

LEMMA KeysDropped ==
    ASSUME Good, Steps, ~Keyed
    PROVE  /\ strayed' = strayed
           /\ \A k \in Key : keys'[k] = keys[k] \/ (keys'[k] = None /\ (Gone \/ GaveUp(keys[k])))
<1> DEFINE Goal == /\ strayed' = strayed
                   /\ \A k \in Key : keys'[k] = keys[k] \/ (keys'[k] = None /\ (Gone \/ GaveUp(keys[k])))
<1>1. ASSUME NEW c \in Conversation, Shows(c)
      PROVE  Goal
  BY <1>1 DEF Shows
<1>2. CASE Gone
  BY <1>2 DEF Gone, GoAway, NoKeys
<1>4. ASSUME NEW m \in Call, NEW kind, NEW q, NEW i, NEW n, PlainIssue(m, kind, q, i, n)
      PROVE  Goal
  BY <1>4 DEF PlainIssue
<1>5. ASSUME NEW f \in Fetch, Polled(f) \/ ReadDone(f) \/ Unused(f) \/ \E m \in Call : Refreshed(m, f)
      PROVE  Goal
  BY <1>5 DEF Polled, ReadDone, Unused, Refreshed
<1>7. ASSUME NEW m \in Call, Asked(m) \/ Begun(m) \/ Over(m) \/ Recalled(m) \/ Answered(m) \/ Dropped(m)
      PROVE  Goal
  BY <1>7 DEF Asked, Begun, Over, Recalled, Answered, Dropped, Served
<1>8. ASSUME NEW m \in Call, NEW result \in {"ok", "failed", "refused", "lost"},
             NEW stage \in {"onway", "generating", "done"}, HeardAway(m, result, stage)
      PROVE  Goal
  <2>1. calls[m] # None /\ calls[m].client = "waiting" /\ strayed' = strayed
    BY <1>8 DEF HeardAway, Told
  <2>2. calls'[m] = None \/ calls'[m].client = "done"
    BY <1>8, LastCalls
  <2>3. ASSUME NEW k \in Key
        PROVE  keys'[k] = keys[k] \/ (keys'[k] = None /\ calls[m].kind \in Kept /\ keys[k] = calls[m].slot)
    BY <1>8, <2>1, KeyGoneGives DEF HeardAway
  <2> QED BY <2>1, <2>2, <2>3 DEF GaveUp, KeptCalls, Live, Ending
<1>9. ASSUME NEW m \in Call, NEW result \in {"ok", "failed", "refused", "lost"},
             NEW stage \in {"onway", "generating", "done"}, NEW f \in Fetch, HeardHere(m, f, result, stage)
      PROVE  Goal
  <2>1. calls[m] # None /\ calls[m].client = "waiting" /\ strayed' = strayed
    BY <1>9 DEF HeardHere, Told
  <2>2. calls'[m].told = result
    BY <1>9, HereCalls DEF HeardOf
  <2>3. ASSUME NEW k \in Key
        PROVE  \/ keys'[k] = keys[k]
               \/ keys'[k] = None /\ calls[m].kind \in Kept /\ keys[k] = calls[m].slot /\ result = "ok"
    BY <1>9, <2>1, KeyGoneGives DEF HeardHere
  <2> QED BY <2>1, <2>2, <2>3 DEF GaveUp, KeptCalls, Live, Ending
<1>10. ASSUME NEW m \in Call, NEW result \in {"ok", "failed", "refused", "lost"},
              NEW stage \in {"onway", "generating", "done"}, HeardLast(m, result, stage)
       PROVE  Goal
  BY <1>10 DEF HeardLast, Told
<1>11. ASSUME NEW f \in Fetch, NEW applied \in BOOLEAN, NEW list \in Requests \cup {None}, Finished(f, applied, list)
       PROVE  Goal
  <2>1. strayed' = strayed
    BY <1>11 DEF Finished
  <2>2. ASSUME NEW k \in Key, keys'[k] # keys[k]
        PROVE  keys'[k] = None /\ GaveUp(keys[k])
    <3>1. PICK m \in Waiting : calls[m].kind \in Kept /\ calls[m].slot = keys[k]
      BY <1>11, <2>2, FinishedKeys
    <3>2. m \in KeptCalls /\ Ending(m) /\ m \in Call
      BY <3>1 DEF Waiting, KeptCalls, Ending, Live
    <3>3. calls'[m] = None \/ calls'[m].client = "done"
      BY <1>11, <3>2, FinishedCalls
    <3> QED BY <1>11, <2>2, <3>1, <3>2, <3>3, FinishedKeys DEF GaveUp
  <2> QED BY <2>1, <2>2
<1> QED BY <1>1, <1>2, <1>4, <1>5, <1>7, <1>8, <1>9, <1>10, <1>11 DEF Steps, Keyed

\* Only a claimed key stores a request.
LEMMA AskSteps ==
    ASSUME Good, Steps
    PROVE  \/ \E m \in Call : Asked(m)
           \/ /\ claims' = claims
              /\ \A d \in Conversation : /\ DOMAIN asked'[d] = DOMAIN asked[d]
                                         /\ \A k \in DOMAIN asked[d] : asked'[d][k].intent = asked[d][k].intent
<1> DEFINE Goal == /\ claims' = claims
                   /\ \A d \in Conversation : /\ DOMAIN asked'[d] = DOMAIN asked[d]
                                         /\ \A k \in DOMAIN asked[d] : asked'[d][k].intent = asked[d][k].intent
<1>i. UNCHANGED <<asked, claims>> => Goal
  OBVIOUS
<1> HIDE DEF Goal
<1>1. ASSUME NEW c \in Conversation, Shows(c)
      PROVE  Goal
  BY <1>i, <1>1 DEF Shows, server
<1>2. CASE Gone
  BY <1>i, <1>2 DEF Gone, server
<1>3. ASSUME NEW m \in Call, NEW kind, NEW q, NEW i, NEW n,
             KeyedIssue(m, kind, q, i, n) \/ PlainIssue(m, kind, q, i, n)
      PROVE  Goal
  BY <1>i, <1>3 DEF KeyedIssue, PlainIssue, server
<1>5. ASSUME NEW f \in Fetch, Polled(f) \/ ReadDone(f) \/ Unused(f) \/ \E m \in Call : Refreshed(m, f)
      PROVE  Goal
  BY <1>i, <1>5 DEF Polled, ReadDone, Unused, Refreshed, server
<1>6. ASSUME NEW m \in Call, Begun(m)
      PROVE  Goal
  BY <1>6, BegunDoes DEF Goal
<1>7. ASSUME NEW m \in Call, Over(m)
      PROVE  Goal
  BY <1>7, OverDoes DEF Goal
<1>8. ASSUME NEW m \in Call, Recalled(m) \/ Answered(m) \/ Dropped(m)
      PROVE  Goal
  BY <1>i, <1>8 DEF Recalled, Answered, Dropped, server
<1>9. ASSUME NEW m \in Call, NEW result \in {"ok", "failed", "refused", "lost"},
             NEW stage \in {"onway", "generating", "done"},
             \/ HeardAway(m, result, stage) \/ HeardLast(m, result, stage)
             \/ \E f \in Fetch : HeardHere(m, f, result, stage)
      PROVE  Goal
  BY <1>i, <1>9 DEF HeardAway, HeardLast, HeardHere, Told, server
<1>11. ASSUME NEW f \in Fetch, NEW applied \in BOOLEAN, NEW list \in Requests \cup {None}, Finished(f, applied, list)
       PROVE  Goal
  BY <1>i, <1>11 DEF Finished, server
<1> QED BY <1>1, <1>2, <1>3, <1>5, <1>6, <1>7, <1>8, <1>9, <1>11 DEF Steps, Goal

Keyring == OneKeyPerSlot /\ KeysOfCalls /\ ClaimsHold /\ SameKey /\ StoredClaimed /\ KeyHeld /\ OneTry

\* A claim stays, and a key that is not dropped is kept for what it was.
LEMMA ClaimStays ==
    ASSUME Good, Steps, NEW k \in Key, claims[k] # None
    PROVE  /\ claims'[k] = claims[k] /\ claims[k] \in Claim
           /\ claims[k].request \in DOMAIN asked[claims[k].conv]
                => /\ claims[k].request \in DOMAIN asked'[claims[k].conv]
                   /\ asked'[claims[k].conv][claims[k].request].question =
                        asked[claims[k].conv][claims[k].request].question
<1>0. Types' /\ Grows
  BY TypesNext
<1>1. claims[k] \in Claim /\ claims[k].conv \in Conversation
  BY DEF Good, Types, TypeOK, Claim
<1>2. /\ Past(asked[claims[k].conv], asked'[claims[k].conv])
      /\ asked[claims[k].conv] \in Requests /\ asked'[claims[k].conv] \in Requests
  BY <1>0, <1>1 DEF Grows, Good, Types, TypeOK
<1>3. claims'[k] = claims[k]
  <2>1. ASSUME NEW m \in Call, Asked(m)
        PROVE  claims'[k] = claims[k]
    <3>1. claims' = [claims EXCEPT ![calls[m].key] = claims'[calls[m].key]] /\ claims[calls[m].key] = None
      BY <2>1 DEF Asked, Good, Types, TypeOK
    <3> QED BY <3>1 DEF Good, Types, TypeOK
  <2> QED BY <2>1, AskSteps
<1> QED BY <1>1, <1>2, <1>3, PastDomain DEF Past

LEMMA QuietClaims ==
    ASSUME Good, Keyring, Steps, ~Keyed
    PROVE  ClaimsHold'
<1>0. Types' /\ Grows
  BY TypesNext
<1> SUFFICES ASSUME NEW k \in Key, claims'[k] # None
             PROVE  /\ claims'[k].request \in DOMAIN asked'[claims'[k].conv]
                    /\ keys'[k] # None =>
                          /\ keys'[k][1] = claims'[k].conv
                          /\ keys'[k][5] = asked'[claims'[k].conv][claims'[k].request].question
                    /\ \A m \in Call : calls'[m] # None /\ calls'[m].kind \in Kept /\ calls'[m].key = k =>
                          /\ calls'[m].conv = claims'[k].conv
                          /\ calls'[m].question = asked'[claims'[k].conv][claims'[k].request].question
  BY DEF ClaimsHold, KeptCalls, Live
<1>1. keys'[k] # None => keys'[k] = keys[k]
  BY KeysDropped
<1>2. ASSUME NEW w \in Call, calls'[w] # None, calls'[w].kind \in Kept
      PROVE  /\ w \in KeptCalls /\ calls'[w].key = calls[w].key /\ calls'[w].conv = calls[w].conv
             /\ calls'[w].question = calls[w].question
  BY <1>2, KeptStay DEF KeyKept, Alike, KeptCalls, Live
<1>3. CASE claims[k] # None
  <2>1. /\ claims[k].request \in DOMAIN asked[claims[k].conv]
        /\ keys[k] # None => /\ keys[k][1] = claims[k].conv
                             /\ keys[k][5] = asked[claims[k].conv][claims[k].request].question
        /\ \A m \in KeptCalls : calls[m].key = k =>
              /\ calls[m].conv = claims[k].conv
              /\ calls[m].question = asked[claims[k].conv][claims[k].request].question
    BY <1>3 DEF Keyring, ClaimsHold
  <2> QED BY <1>1, <1>2, <1>3, <2>1, ClaimStays
<1>4. CASE claims[k] = None
  <2>1. PICK m \in Call : Asked(m) /\ claims'[k] # claims[k]
    BY <1>4, AskSteps
  <2> DEFINE c == calls[m].conv
             n == Len(asked[c]) + 1
  <2>2. /\ c \in Conversation /\ n \in DOMAIN asked'[c] /\ asked'[c][n].question = calls[m].question
        /\ claims' = [claims EXCEPT ![calls[m].key] = [conv |-> c, request |-> n]]
    BY <2>1, AskedDoes
  <2>3. m \in KeptCalls /\ CallShape(calls[m]) /\ calls[m].kind \in Kept
    BY <2>1 DEF Asked, Served, KeptCalls, Live, Good, CallsShaped
  <2>4. k = calls[m].key /\ claims'[k] = [conv |-> c, request |-> n]
    <3> HIDE DEF n, c
    <3> QED BY <2>1, <2>2 DEF Good, Types, TypeOK
  <2>5. claims'[k].conv = c /\ claims'[k].request = n
    BY <2>4
  <2>6. calls[m].slot[1] = c /\ calls[m].slot[5] = calls[m].question
    BY <2>3 DEF CallShape, SlotOf
  <2>7. keys'[k] # None => keys'[k] = calls[m].slot
    BY <1>1, <2>3, <2>4 DEF Keyring, KeysOfCalls
  <2>8. ASSUME NEW w \in Call, calls'[w] # None, calls'[w].kind \in Kept, calls'[w].key = k
        PROVE  calls'[w].conv = c /\ calls'[w].question = calls[m].question
    <3>1. /\ w \in KeptCalls /\ calls[w].key = calls[m].key /\ calls'[w].conv = calls[w].conv
          /\ calls'[w].question = calls[w].question
      BY <1>2, <2>4, <2>8
    <3>2. calls[w].slot = calls[m].slot
      BY <2>3, <3>1 DEF Keyring, KeysOfCalls
    <3>3. calls[w].slot[1] = calls[w].conv /\ calls[w].slot[5] = calls[w].question
      BY <3>1 DEF KeptCalls, Good, CallsShaped, CallShape, SlotOf
    <3> QED BY <2>6, <3>1, <3>2, <3>3
  <2> QED BY <2>2, <2>5, <2>6, <2>7, <2>8
<1> QED BY <1>3, <1>4

LEMMA QuietKeys ==
    ASSUME Good, Keyring, Steps, ~Keyed
    PROVE  OneKeyPerSlot' /\ KeysOfCalls' /\ SameKey' /\ OneTry' /\ KeyHeld'
<1>0. strayed' = strayed /\ \A k \in Key : keys'[k] = keys[k] \/ (keys'[k] = None /\ (Gone \/ GaveUp(keys[k])))
  BY KeysDropped
<1>2. ASSUME NEW w \in Call, calls'[w] # None, calls'[w].kind \in Kept
      PROVE  /\ w \in KeptCalls /\ calls'[w].key = calls[w].key /\ calls'[w].slot = calls[w].slot
             /\ calls'[w].intent = calls[w].intent /\ (Ending(w)' => Ending(w))
             /\ calls'[w].told # "ok" => calls[w].told # "ok"
             /\ calls[w].key \in Key
  <2>1. KeyKept(w)
    BY <1>2, KeptStay
  <2>2. w \in KeptCalls
    BY <1>2, <2>1 DEF KeyKept, Alike, KeptCalls, Live
  <2>3. calls[w].key \in Key
    BY <2>2 DEF KeptCalls, Good, CallsShaped, CallShape
  <2> QED BY <2>1, <2>2, <2>3 DEF KeyKept, Alike, Ending
<1>3. OneKeyPerSlot'
  BY <1>0 DEF Keyring, OneKeyPerSlot
<1>4. KeysOfCalls'
  <2>1. ASSUME NEW m \in Call, calls'[m] # None, calls'[m].kind \in Kept
        PROVE  keys'[calls'[m].key] \in {None, calls'[m].slot}
    BY <1>0, <1>2, <2>1 DEF Keyring, KeysOfCalls
  <2>2. ASSUME NEW m \in Call, calls'[m] # None, calls'[m].kind \in Kept,
               NEW w \in Call, calls'[w] # None, calls'[w].kind \in Kept, calls'[m].key = calls'[w].key
        PROVE  calls'[m].slot = calls'[w].slot
    BY <1>2, <2>2 DEF Keyring, KeysOfCalls
  <2> QED BY <2>1, <2>2 DEF KeysOfCalls, KeptCalls, Live
<1>5. SameKey'
  BY <1>0, <1>2 DEF Keyring, SameKey, KeptCalls, Live
<1>6. OneTry'
  BY <1>0, <1>2 DEF Keyring, OneTry, KeptCalls, Live
<1>7. KeyHeld'
  <2> SUFFICES ASSUME NEW w \in Call, calls'[w] # None, calls'[w].kind \in Kept, Ending(w)',
                      calls'[w].told # "ok", calls'[w].intent \notin strayed'
               PROVE  keys'[calls'[w].key] = calls'[w].slot
    BY DEF KeyHeld, KeptCalls, Live
  <2>1. /\ w \in KeptCalls /\ Ending(w) /\ calls[w].told # "ok" /\ calls[w].intent \notin strayed
        /\ calls[w].key \in Key
    BY <1>0, <1>2
  <2>2. keys[calls[w].key] = calls[w].slot
    BY <2>1 DEF Keyring, KeyHeld
  <2>3. ~Gone
    <3>1. Gone => calls'[w].client = "done"
      BY GoneCalls
    <3> QED BY <3>1 DEF Ending
  <2>4. ~GaveUp(calls[w].slot)
    <3> SUFFICES ASSUME NEW m \in KeptCalls, calls[m].slot = calls[w].slot, Ending(m),
                        calls'[m] = None \/ calls'[m].client = "done" \/ calls'[m].told = "ok"
                 PROVE  FALSE
      BY DEF GaveUp
    <3>1. m # w
      BY DEF Ending
    <3> QED BY <2>1, <3>1 DEF Keyring, OneTry
  <2> QED BY <1>0, <1>2, <2>1, <2>2, <2>3, <2>4
<1> QED BY <1>3, <1>4, <1>5, <1>6, <1>7

LEMMA QuietStored ==
    ASSUME Good, Keyring, Steps, ~Keyed
    PROVE  StoredClaimed'
<1>0. strayed' = strayed
  BY KeysDropped
<1> SUFFICES ASSUME NEW w \in Call, calls'[w] # None, calls'[w].kind \in Kept,
                    \E d \in Conversation : \E k \in DOMAIN asked'[d] : asked'[d][k].intent = calls'[w].intent,
                    calls'[w].intent \notin strayed'
             PROVE  claims'[calls'[w].key] # None
  BY DEF StoredClaimed, KeptCalls, Live, Stored
<1>1. /\ w \in KeptCalls /\ calls'[w].key = calls[w].key /\ calls'[w].intent = calls[w].intent
      /\ calls[w].intent \notin strayed /\ calls[w].key \in Key
  <2>1. KeyKept(w)
    BY KeptStay
  <2>2. w \in KeptCalls
    BY <2>1 DEF KeyKept, Alike, KeptCalls, Live
  <2>3. calls[w].key \in Key
    BY <2>2 DEF KeptCalls, Good, CallsShaped, CallShape
  <2> QED BY <1>0, <2>1, <2>2, <2>3 DEF KeyKept, Alike
<1>2. CASE Stored(calls[w].intent)
  <2>1. claims[calls[w].key] # None
    BY <1>1, <1>2 DEF Keyring, StoredClaimed
  <2> QED BY <1>1, <2>1, ClaimStays
<1>3. CASE ~Stored(calls[w].intent)
  <2>0. PICK d \in Conversation : \E k \in DOMAIN asked'[d] : asked'[d][k].intent = calls[w].intent
    BY <1>1
  <2>1. PICK k \in DOMAIN asked'[d] : asked'[d][k].intent = calls[w].intent
    BY <2>0
  <2>2. PICK m \in Call : Asked(m)
    <3>1. ~(DOMAIN asked'[d] = DOMAIN asked[d] /\ \A j \in DOMAIN asked[d] : asked'[d][j].intent = asked[d][j].intent)
      BY <1>3, <2>1 DEF Stored
    <3> QED BY <3>1, AskSteps
  <2> DEFINE c == calls[m].conv
             n == Len(asked[c]) + 1
  <2>3. /\ asked'[c][n].intent = calls[m].intent
        /\ \A e \in Conversation : \A j \in DOMAIN asked[e] : j \in DOMAIN asked'[e] /\ asked'[e][j] = asked[e][j]
        /\ \A e \in Conversation : \A j \in DOMAIN asked'[e] : j \in DOMAIN asked[e] \/ (e = c /\ j = n)
        /\ claims' = [claims EXCEPT ![calls[m].key] = [conv |-> c, request |-> n]]
        /\ [conv |-> c, request |-> n] \in Claim
    BY <2>2, AskedDoes
  <2> HIDE DEF c, n
  <2>4. calls[m].intent = calls[w].intent
    BY <1>3, <2>1, <2>3 DEF Stored
  <2>5. m \in KeptCalls
    BY <2>2 DEF Asked, Served, KeptCalls, Live
  <2>6. calls[m].key = calls[w].key
    BY <1>1, <2>4, <2>5 DEF Keyring, SameKey
  <2>7. claims'[calls[w].key] \in Claim
    BY <1>1, <2>3, <2>6 DEF Good, Types, TypeOK
  <2> QED BY <1>1, <2>7, NoneApart DEF Good
<1> QED BY <1>2, <1>3

LEMMA AskedOnceNext ==
    ASSUME Good, Keyring, AskedOnce, Steps, strayed \subseteq strayed'
    PROVE  AskedOnce'
<1> SUFFICES ASSUME NEW c1 \in Conversation, NEW c2 \in Conversation, NEW n1 \in DOMAIN asked'[c1],
                    NEW n2 \in DOMAIN asked'[c2], asked'[c1][n1].intent = asked'[c2][n2].intent,
                    asked'[c1][n1].intent \notin strayed'
             PROVE  c1 = c2 /\ n1 = n2
  BY DEF AskedOnce
<1>1. CASE \A d \in Conversation : /\ DOMAIN asked'[d] = DOMAIN asked[d]
                                   /\ \A k \in DOMAIN asked[d] : asked'[d][k].intent = asked[d][k].intent
  BY <1>1 DEF AskedOnce
<1>2. ASSUME NEW m \in Call, Asked(m)
      PROVE  c1 = c2 /\ n1 = n2
  <2> DEFINE c == calls[m].conv
             n == Len(asked[c]) + 1
  <2>1. /\ asked'[c][n].intent = calls[m].intent
        /\ \A e \in Conversation : \A j \in DOMAIN asked[e] : j \in DOMAIN asked'[e] /\ asked'[e][j] = asked[e][j]
        /\ \A e \in Conversation : \A j \in DOMAIN asked'[e] : j \in DOMAIN asked[e] \/ (e = c /\ j = n)
    BY <1>2, AskedDoes
  <2> HIDE DEF c, n
  <2>2. m \in KeptCalls /\ claims[calls[m].key] = None
    BY <1>2 DEF Asked, Served, KeptCalls, Live
  <2>3. calls[m].intent \notin strayed => ~Stored(calls[m].intent)
    BY <2>2 DEF Keyring, StoredClaimed
  <2>4. CASE n1 \in DOMAIN asked[c1] /\ n2 \in DOMAIN asked[c2]
    BY <2>1, <2>4 DEF AskedOnce
  <2>5. CASE n1 \in DOMAIN asked[c1] /\ n2 \notin DOMAIN asked[c2]
    <3>1. asked[c1][n1].intent = calls[m].intent
      BY <2>1, <2>5
    <3> QED BY <2>1, <2>3, <2>5, <3>1 DEF Stored
  <2>6. CASE n1 \notin DOMAIN asked[c1] /\ n2 \in DOMAIN asked[c2]
    <3>1. asked[c2][n2].intent = calls[m].intent
      BY <2>1, <2>6
    <3> QED BY <2>1, <2>3, <2>6, <3>1 DEF Stored
  <2>7. CASE n1 \notin DOMAIN asked[c1] /\ n2 \notin DOMAIN asked[c2]
    BY <2>1, <2>7
  <2> QED BY <2>4, <2>5, <2>6, <2>7
<1> QED BY <1>1, <1>2, AskSteps

\* What a failed operation is tried again with.
Holds(slot, i, k) ==
    /\ keys[k] = slot
    /\ \A m \in KeptCalls : calls[m].intent = i => calls[m].key = k
    /\ Stored(i) => claims[k] # None

HoldsNext(slot, i, k) ==
    /\ keys'[k] = slot
    /\ \A m \in Call : calls'[m] # None /\ calls'[m].kind \in Kept /\ calls'[m].intent = i => calls'[m].key = k
    /\ (\E c \in Conversation : \E n \in DOMAIN asked'[c] : asked'[c][n].intent = i) => claims'[k] # None

LEMMA HoldsStays ==
    ASSUME IInv, Steps, ~Keyed, NEW slot, NEW i, NEW k \in Key, Holds(slot, i, k), keys'[k] = slot
    PROVE  HoldsNext(slot, i, k)
<1>0. Good
  BY DEF IInv
<1>1. ASSUME NEW w \in Call, calls'[w] # None, calls'[w].kind \in Kept, calls'[w].intent = i
      PROVE  calls'[w].key = k
  BY <1>0, <1>1, KeptStay DEF KeyKept, Alike, KeptCalls, Live, Holds
<1>2. ASSUME NEW d \in Conversation, NEW j \in DOMAIN asked'[d], asked'[d][j].intent = i
      PROVE  claims'[k] # None
  <2>1. CASE claims[k] # None
    BY <1>0, <2>1, ClaimStays
  <2>2. CASE claims[k] = None
    <3>1. ~Stored(i)
      BY <2>2 DEF Holds
    <3>2. PICK m \in Call : Asked(m)
      <4>1. ~(DOMAIN asked'[d] = DOMAIN asked[d] /\ \A l \in DOMAIN asked[d] : asked'[d][l].intent = asked[d][l].intent)
        BY <1>2, <3>1 DEF Stored
      <4> QED BY <1>0, <4>1, AskSteps
    <3> DEFINE c == calls[m].conv
               n == Len(asked[c]) + 1
    <3>3. /\ asked'[c][n].intent = calls[m].intent
          /\ \A e \in Conversation : \A l \in DOMAIN asked[e] : l \in DOMAIN asked'[e] /\ asked'[e][l] = asked[e][l]
          /\ \A e \in Conversation : \A l \in DOMAIN asked'[e] : l \in DOMAIN asked[e] \/ (e = c /\ l = n)
          /\ claims' = [claims EXCEPT ![calls[m].key] = [conv |-> c, request |-> n]]
          /\ [conv |-> c, request |-> n] \in Claim
      BY <1>0, <3>2, AskedDoes
    <3> HIDE DEF c, n
    <3>4. calls[m].intent = i
      BY <1>2, <3>1, <3>3 DEF Stored
    <3>5. m \in KeptCalls
      BY <3>2 DEF Asked, Served, KeptCalls, Live
    <3>6. calls[m].key = k
      BY <3>4, <3>5 DEF Holds
    <3>7. claims'[k] \in Claim
      BY <1>0, <3>3, <3>6 DEF Good, Types, TypeOK
    <3> QED BY <1>0, <3>7, NoneApart DEF Good
  <2> QED BY <2>1, <2>2
<1> QED BY <1>1, <1>2 DEF HoldsNext

LEMMA QuietRetryable ==
    ASSUME IInv, Steps, ~Keyed
    PROVE  Retryable'
<1>0. Good /\ Retryable /\ Keyring
  BY DEF IInv, Keyring
<1>1. strayed' = strayed
  BY <1>0, KeysDropped
<1>2. ASSUME NEW w \in Call, calls'[w] # None, calls'[w].kind \in Kept
      PROVE  w \in KeptCalls /\ calls'[w].slot = calls[w].slot /\ (Ending(w)' => Ending(w))
  BY <1>0, <1>2, KeptStay DEF KeyKept, Alike, KeptCalls, Live, Ending
<1> SUFFICES ASSUME op'.status = "error", op'.kind \in Kept, op'.request = None, op'.unknown,
                    op'.intent \notin strayed
             PROVE  /\ \E k \in Key : HoldsNext(op'.slot, op'.intent, k)
                    /\ \A m \in Call : calls'[m] # None /\ calls'[m].kind \in Kept /\ Ending(m)'
                          => calls'[m].slot # op'.slot
  BY <1>1 DEF Retryable, KeptCalls, Live, Stored, HoldsNext
<1>3. CASE op' = op /\ page' = page
  <2>1. PICK k \in Key : Holds(op.slot, op.intent, k)
    BY <1>0, <1>1, <1>3 DEF Retryable, Holds
  <2>2. \A m \in KeptCalls : Ending(m) => calls[m].slot # op.slot
    BY <1>0, <1>1, <1>3 DEF Retryable
  <2>3. keys'[k] = op.slot
    <3>1. ~Gone
      BY <1>0, <1>3, NoneApart DEF Gone, GoAway, Good
    <3>2. ~GaveUp(op.slot)
      BY <2>2 DEF GaveUp
    <3>3. keys[k] = op.slot
      BY <2>1 DEF Holds
    <3> QED BY <1>0, <3>1, <3>2, <3>3, KeysDropped
  <2>4. HoldsNext(op.slot, op.intent, k)
    BY <2>1, <2>3, HoldsStays
  <2> QED BY <1>2, <1>3, <2>2, <2>4
<1>4. ASSUME NEW f \in Fetch, NEW applied \in BOOLEAN, NEW list \in Requests \cup {None}, Finished(f, applied, list),
             op' # op
      PROVE  /\ \E k \in Key : HoldsNext(op'.slot, op'.intent, k)
             /\ \A m \in Call : calls'[m] # None /\ calls'[m].kind \in Kept /\ Ending(m)'
                   => calls'[m].slot # op'.slot
  <2>1. page \in Conversation /\ (list # None => Past(list, asked[page]))
    BY <1>0, <1>4, FinishedList
  <2>2. PICK o : FinishOp(o, applied, list)
    BY <1>4, FinishedOp
  <2>3. op' = o /\ o.status = "error"
    <3>1. Idle.status # "error"
      BY DEF Idle
    <3>2. op' = Settle(o, list, required')
      BY <2>2 DEF FinishOp
    <3>3. op' \in {o, Idle}
      BY <3>2, SettleShape
    <3> QED BY <3>1, <3>3
  <2>4. PICK m \in Waiting : calls[m].kind \in Asking /\ o = After(calls[m], applied, list)
    BY <1>4, <2>2, <2>3 DEF FinishOp
  <2>5. m \in Live /\ calls[m].conv = page /\ Ending(m) /\ m \in Call
    BY <2>4 DEF IInv, Away, Waiting, Ending, Live
  <2>6. /\ o.kind = calls[m].kind /\ o.intent = calls[m].intent /\ o.slot = calls[m].slot
        /\ o.unknown => calls[m].told = "lost" /\ About(calls[m], calls[m].told, list) = None
    BY <1>0, <2>1, <2>3, <2>4, <2>5, AfterShape
  <2> DEFINE k == calls[m].key
             i == calls[m].intent
             slot == calls[m].slot
  <2>7. /\ m \in KeptCalls /\ i \notin strayed /\ calls[m].told = "lost"
        /\ About(calls[m], calls[m].told, list) = None /\ op'.slot = slot /\ op'.intent = i
    BY <2>3, <2>5, <2>6 DEF KeptCalls
  <2>8. k \in Key /\ slot \in Slot
    BY <1>0, <2>7 DEF KeptCalls, Good, CallsShaped, CallShape, SlotOf
  <2>9. keys[k] = slot
    BY <1>0, <2>5, <2>7 DEF Keyring, KeyHeld
  <2>10. \A w \in KeptCalls : Ending(w) /\ calls[w].slot = slot => w = m
    BY <1>0, <2>5, <2>7 DEF Keyring, OneTry
  <2>11. keys'[k] = slot
    <3>1. ASSUME NEW w \in Waiting, calls[w].kind \in Kept, calls[w].slot = keys[k],
                 calls[w].told # "lost" \/ About(calls[w], calls[w].told, list) # None
          PROVE  FALSE
      <4>1. w \in KeptCalls /\ Ending(w)
        BY <3>1 DEF Waiting, KeptCalls, Ending, Live
      <4>2. w = m
        BY <2>9, <2>10, <3>1, <4>1
      <4> QED BY <2>7, <3>1, <4>2
    <3> QED BY <1>0, <1>4, <2>8, <2>9, <3>1, FinishedKeys
  <2>12. Holds(slot, i, k)
    <3>1. \A w \in KeptCalls : calls[w].intent = i => calls[w].key = k
      BY <1>0, <2>7 DEF Keyring, SameKey
    <3>2. Stored(i) => claims[k] # None
      BY <1>0, <2>7 DEF Keyring, StoredClaimed
    <3> QED BY <2>9, <3>1, <3>2 DEF Holds
  <2>13. HoldsNext(slot, i, k)
    <3> HIDE DEF slot, i, k
    <3> QED BY <2>8, <2>11, <2>12, HoldsStays
  <2>14. ASSUME NEW w \in Call, calls'[w] # None, calls'[w].kind \in Kept, Ending(w)'
         PROVE  calls'[w].slot # slot
    <3>1. w \in KeptCalls /\ Ending(w) /\ calls'[w].slot = calls[w].slot
      BY <1>2, <2>14
    <3>2. w # m
      BY <1>0, <1>4, <2>4, <2>14, FinishedCalls DEF Ending
    <3> QED BY <2>10, <3>1, <3>2
  <2> QED BY <2>7, <2>8, <2>13, <2>14
<1> QED BY <1>0, <1>3, <1>4, OpSteps DEF Finished

\* A call that is issued with a key.
LEMMA KeyTaken ==
    ASSUME IInv, NEW m \in Call, NEW kind, NEW q, NEW i, NEW n, KeyedIssue(m, kind, q, i, n)
    PROVE  LET slot == SlotFor(kind, q, n)
               k == calls'[m].key
           IN  /\ k \in Key /\ keys'[k] = slot /\ slot \in Slot
               /\ \/ keys' = keys
                  \/ /\ claims[k] = None /\ keys[k] = None
                     /\ \A w \in Live : calls[w].key # k
                     /\ \A l \in Key : keys[l] # slot
                     /\ \A l \in Key : l # k => keys'[l] = keys[l]
               /\ \A l \in Key : keys'[l] = slot => l = k
<1> DEFINE slot == SlotFor(kind, q, n)
           k == calls'[m].key
<1>0. Good /\ OneKeyPerSlot
  BY DEF IInv
<1>1. k \in Key /\ keys'[k] = slot /\ slot \in Slot
  BY <1>0, KeyedTypes
<1>2. TakeKey(slot)
  BY DEF KeyedIssue
<1>3. slot # None
  BY <1>0, <1>1 DEF Good, Types, TypeOK, NoneIsNothing
<1> HIDE DEF slot, k
<1>4. CASE \E l \in Key : keys[l] = slot
  <2>1. keys' = keys
    BY <1>2, <1>4 DEF TakeKey
  <2> QED BY <1>0, <1>1, <1>3, <2>1 DEF OneKeyPerSlot, slot, k
<1>5. CASE ~\E l \in Key : keys[l] = slot
  <2>1. PICK l \in Key : /\ claims[l] = None /\ keys[l] = None
                         /\ \A w \in Live : calls[w].key # l
                         /\ keys' = [keys EXCEPT ![l] = slot]
    BY <1>2, <1>5 DEF TakeKey
  <2>2. keys'[l] = slot /\ \A j \in Key : j # l => keys'[j] = keys[j]
    BY <1>0, <2>1 DEF Good, Types, TypeOK
  <2>3. l = k
    BY <1>1, <1>5, <2>2
  <2> QED BY <1>1, <1>5, <2>1, <2>2, <2>3 DEF slot, k
<1> QED BY <1>4, <1>5

\* Tried again, it has the key it had.
LEMMA SameAgain ==
    ASSUME IInv, NEW m \in Call, NEW kind, NEW q, NEW i, NEW n, KeyedIssue(m, kind, q, i, n), i \notin strayed'
    PROVE  /\ \A w \in KeptCalls : calls[w].intent = i => calls[w].key = calls'[m].key
           /\ Stored(i) => claims[calls'[m].key] # None
<1> DEFINE slot == SlotFor(kind, q, n)
<1>0. Good /\ Retryable
  BY DEF IInv
<1>1. CASE Fresh(i)
  BY <1>1 DEF Fresh, KeptCalls, Stored
<1>2. CASE ~Fresh(i)
  <2>1. /\ op.status = "error" /\ op.kind = kind /\ op.intent = i /\ op.request = None /\ op.unknown
        /\ kind \in Kept /\ Stray(i, slot)
    BY <1>2 DEF KeyedIssue
  <2>2. op.slot = slot /\ i \notin strayed
    BY <2>1 DEF Stray
  <2>3. PICK k \in Key : /\ keys[k] = slot
                         /\ \A w \in KeptCalls : calls[w].intent = i => calls[w].key = k
                         /\ Stored(i) => claims[k] # None
    BY <1>0, <2>1, <2>2 DEF Retryable
  <2>4. slot \in Slot /\ slot # None
    BY <1>0, KeyedTypes DEF Good, Types, TypeOK, NoneIsNothing
  <2>5. k = calls'[m].key
    <3> HIDE DEF slot
    <3>1. keys' = keys
      BY <2>3, KeyTaken DEF slot
    <3> QED BY <2>3, <3>1, KeyTaken DEF slot
  <2> QED BY <2>3, <2>5
<1> QED BY <1>1, <1>2

LEMMA KeyedKeys ==
    ASSUME IInv, NEW m \in Call, NEW kind, NEW q, NEW i, NEW n, KeyedIssue(m, kind, q, i, n)
    PROVE  Keyring' /\ Retryable' /\ strayed \subseteq strayed'
<1> DEFINE slot == SlotFor(kind, q, n)
           k == calls'[m].key
<1>0. Good /\ Keyring /\ strayed \subseteq strayed' /\ UNCHANGED <<asked, claims>>
  BY DEF IInv, Keyring, KeyedIssue, Stray, server
<1>1. /\ calls' = [calls EXCEPT ![m] = calls'[m]] /\ calls'[m].kind = kind /\ calls'[m].question = q
      /\ calls'[m].intent = i /\ calls'[m].conv = page /\ calls'[m].slot = slot /\ kind \in Kept /\ calls[m] = None
      /\ op' = Pending(kind)
  <2>1. kind \in Kept
    BY DEF KeyedIssue
  <2> QED BY <1>0, <2>1, KeyedTypes
<1>2. slot[1] = page /\ slot[5] = q /\ slot \in Slot /\ slot # None
  BY <1>0, KeyedTypes DEF SlotOf, Good, Types, TypeOK, NoneIsNothing
<1>3. /\ k \in Key /\ keys'[k] = slot
      /\ \/ keys' = keys
         \/ /\ claims[k] = None /\ keys[k] = None
            /\ \A w \in Live : calls[w].key # k
            /\ \A l \in Key : keys[l] # slot
            /\ \A l \in Key : l # k => keys'[l] = keys[l]
      /\ \A l \in Key : keys'[l] = slot => l = k
  BY KeyTaken
<1>4. i \notin strayed' => /\ \A w \in KeptCalls : calls[w].intent = i => calls[w].key = k
                           /\ Stored(i) => claims[k] # None
  BY SameAgain
<1>5. \A w \in Live : calls[w].slot = slot /\ calls[w].client # "done" => calls[w].intent \in strayed' /\ i \in strayed'
  BY DEF KeyedIssue, Stray
<1> HIDE DEF slot, k
<1>6. /\ Keyring
      /\ calls'[m].kind = kind /\ calls'[m].question = q /\ calls'[m].intent = i /\ calls'[m].conv = page
      /\ calls'[m].slot = slot /\ calls'[m].key = k
  BY <1>0, <1>1 DEF k
<1>7. ASSUME NEW w \in Call, calls'[w] # None, calls'[w].kind \in Kept, w # m
      PROVE  calls'[w] = calls[w] /\ w \in KeptCalls /\ w \in Live /\ calls[w].key \in Key
  <2>1. calls'[w] = calls[w] /\ w \in KeptCalls
    BY <1>0, <1>1, <1>7, OthersSame DEF KeptCalls, Live
  <2> QED BY <1>0, <2>1 DEF KeptCalls, Good, CallsShaped, CallShape
<1>8. OneKeyPerSlot'
  BY <1>3, <1>6 DEF Keyring, OneKeyPerSlot
<1>9. KeysOfCalls'
  <2>1. ASSUME NEW w \in Call, calls'[w] # None, calls'[w].kind \in Kept
        PROVE  keys'[calls'[w].key] \in {None, calls'[w].slot}
    <3>1. CASE w = m
      BY <1>3, <1>6, <3>1
    <3>2. CASE w # m
      <4>1. keys[calls[w].key] \in {None, calls[w].slot} /\ calls'[w] = calls[w] /\ calls[w].key \in Key
        BY <1>6, <1>7, <2>1, <3>2 DEF Keyring, KeysOfCalls
      <4>2. keys'[calls[w].key] = keys[calls[w].key]
        BY <1>3, <1>7, <2>1, <3>2, <4>1
      <4> QED BY <4>1, <4>2
    <3> QED BY <3>1, <3>2
  <2>2. ASSUME NEW w \in Call, calls'[w] # None, calls'[w].kind \in Kept, w # m, calls'[w].key = k
        PROVE  calls'[w].slot = slot
    <3>1. keys' = keys /\ keys[k] = slot
      BY <1>3, <1>7, <2>2
    <3>2. keys[k] \in {None, calls[w].slot}
      BY <1>6, <1>7, <2>2 DEF Keyring, KeysOfCalls
    <3> QED BY <1>2, <1>7, <2>2, <3>1, <3>2
  <2>3. ASSUME NEW v \in Call, calls'[v] # None, calls'[v].kind \in Kept,
               NEW w \in Call, calls'[w] # None, calls'[w].kind \in Kept, calls'[v].key = calls'[w].key
        PROVE  calls'[v].slot = calls'[w].slot
    <3>1. CASE v = m
      BY <1>6, <2>2, <2>3, <3>1
    <3>2. CASE w = m
      BY <1>6, <2>2, <2>3, <3>2
    <3>3. CASE v # m /\ w # m
      BY <1>6, <1>7, <2>3, <3>3 DEF Keyring, KeysOfCalls
    <3> QED BY <3>1, <3>2, <3>3
  <2> QED BY <2>1, <2>3 DEF KeysOfCalls, KeptCalls, Live
<1>10. ClaimsHold'
  <2> SUFFICES ASSUME NEW l \in Key, claims[l] # None
               PROVE  /\ claims[l].request \in DOMAIN asked[claims[l].conv]
                      /\ keys'[l] # None => /\ keys'[l][1] = claims[l].conv
                                            /\ keys'[l][5] = asked[claims[l].conv][claims[l].request].question
                      /\ \A w \in Call : calls'[w] # None /\ calls'[w].kind \in Kept /\ calls'[w].key = l =>
                            /\ calls'[w].conv = claims[l].conv
                            /\ calls'[w].question = asked[claims[l].conv][claims[l].request].question
    BY <1>0 DEF ClaimsHold, KeptCalls, Live
  <2>1. /\ claims[l].request \in DOMAIN asked[claims[l].conv]
        /\ keys[l] # None => /\ keys[l][1] = claims[l].conv
                             /\ keys[l][5] = asked[claims[l].conv][claims[l].request].question
        /\ \A w \in KeptCalls : calls[w].key = l =>
              /\ calls[w].conv = claims[l].conv
              /\ calls[w].question = asked[claims[l].conv][claims[l].request].question
    BY <1>6 DEF Keyring, ClaimsHold
  <2>2. keys'[l] = keys[l]
    BY <1>3
  <2>3. l = k => keys[l] = slot
    BY <1>3, <2>2
  <2> QED BY <1>2, <1>6, <1>7, <2>1, <2>2, <2>3
<1>11. SameKey'
  <2>1. ASSUME NEW v \in Call, calls'[v] # None, calls'[v].kind \in Kept,
               NEW w \in Call, calls'[w] # None, calls'[w].kind \in Kept,
               calls'[v].intent = calls'[w].intent, calls'[v].intent \notin strayed'
        PROVE  calls'[v].key = calls'[w].key
    <3>1. CASE v = m
      BY <1>4, <1>6, <1>7, <2>1, <3>1
    <3>2. CASE w = m
      BY <1>4, <1>6, <1>7, <2>1, <3>2
    <3>3. CASE v # m /\ w # m
      BY <1>0, <1>6, <1>7, <2>1, <3>3 DEF Keyring, SameKey
    <3> QED BY <3>1, <3>2, <3>3
  <2> QED BY <2>1 DEF SameKey, KeptCalls, Live
<1>12. StoredClaimed'
  <2>1. ASSUME NEW w \in Call, calls'[w] # None, calls'[w].kind \in Kept,
               \E d \in Conversation : \E j \in DOMAIN asked[d] : asked[d][j].intent = calls'[w].intent,
               calls'[w].intent \notin strayed'
        PROVE  claims[calls'[w].key] # None
    <3>1. CASE w = m
      BY <1>4, <1>6, <2>1, <3>1 DEF Stored
    <3>2. CASE w # m
      <4>1. Stored(calls[w].intent) /\ calls[w].intent \notin strayed /\ w \in KeptCalls /\ calls'[w] = calls[w]
        BY <1>0, <1>7, <2>1, <3>2 DEF Stored
      <4> QED BY <1>6, <4>1 DEF Keyring, StoredClaimed
    <3> QED BY <3>1, <3>2
  <2> QED BY <1>0, <2>1 DEF StoredClaimed, KeptCalls, Live, Stored
<1>13. KeyHeld'
  <2>1. ASSUME NEW w \in Call, calls'[w] # None, calls'[w].kind \in Kept, calls'[w].client # "done",
               calls'[w].told # "ok", calls'[w].intent \notin strayed'
        PROVE  keys'[calls'[w].key] = calls'[w].slot
    <3>1. CASE w = m
      BY <1>3, <1>6, <3>1
    <3>2. CASE w # m
      <4>1. keys[calls[w].key] = calls[w].slot /\ calls'[w] = calls[w] /\ calls[w].key \in Key
        BY <1>0, <1>6, <1>7, <2>1, <3>2 DEF Keyring, KeyHeld, Ending
      <4>2. keys'[calls[w].key] = keys[calls[w].key]
        BY <1>3, <1>7, <2>1, <3>2, <4>1
      <4> QED BY <4>1, <4>2
    <3> QED BY <3>1, <3>2
  <2> QED BY <2>1 DEF KeyHeld, KeptCalls, Live, Ending
<1>14. OneTry'
  <2>1. ASSUME NEW v \in Call, calls'[v] # None, calls'[v].kind \in Kept, calls'[v].client # "done",
               NEW w \in Call, calls'[w] # None, calls'[w].kind \in Kept, calls'[w].client # "done",
               v # w, calls'[v].slot = calls'[w].slot
        PROVE  calls'[v].intent \in strayed'
    <3>1. CASE v = m
      BY <1>5, <1>6, <1>7, <2>1, <3>1
    <3>2. CASE w = m
      BY <1>5, <1>6, <1>7, <2>1, <3>2
    <3>3. CASE v # m /\ w # m
      BY <1>0, <1>6, <1>7, <2>1, <3>3 DEF Keyring, OneTry, Ending
    <3> QED BY <3>1, <3>2, <3>3
  <2> QED BY <2>1 DEF OneTry, KeptCalls, Live, Ending
<1>15. Retryable'
  <2>1. Pending(kind).status # "error"
    BY DEF Pending
  <2> QED BY <1>1, <2>1 DEF Retryable
<1> QED BY <1>0, <1>8, <1>9, <1>10, <1>11, <1>12, <1>13, <1>14, <1>15 DEF Keyring

LEMMA KeysNext ==
    ASSUME IInv, Steps
    PROVE  Keyring' /\ Retryable' /\ AskedOnce'
<1>0. Good /\ Keyring /\ AskedOnce
  BY DEF IInv, Keyring
<1>1. CASE Keyed
  <2>1. Keyring' /\ Retryable' /\ strayed \subseteq strayed'
    BY <1>1, KeyedKeys DEF Keyed
  <2> QED BY <1>0, <2>1, AskedOnceNext
<1>2. CASE ~Keyed
  <2>1. strayed \subseteq strayed'
    BY <1>0, <1>2, KeysDropped
  <2>2. Keyring'
    BY <1>0, <1>2, QuietClaims, QuietKeys, QuietStored DEF Keyring
  <2> QED BY <1>0, <1>2, <2>1, <2>2, AskedOnceNext, QuietRetryable
<1> QED BY <1>1, <1>2

-----------------------------------------------------------------------------
(* The invariant holds from the start and through every step. *)

LEMMA InitInv ==
    ASSUME NoneIsNothing, Init
    PROVE  IInv
<1>1. TypeOK
  <2>1. <<>> \in Requests /\ None \notin Nat
    BY DEF Requests, NoneIsNothing
  <2> QED BY <2>1 DEF Init, TypeOK, NoKeys, Idle
<1>2. Live = {} /\ InFlight = {} /\ KeptCalls = {} /\ Waiting = {}
  BY DEF Init, Live, InFlight, KeptCalls, Waiting
<1>3. /\ op.status = "idle" /\ page = None /\ snap = None /\ thread = "none" /\ heard = None
      /\ visited = {}
      /\ \A c \in Conversation : asked[c] = <<>>
      /\ \A k \in Key : keys[k] = None /\ claims[k] = None
  BY DEF Init, Idle, NoKeys
<1>4. Shown /\ CallsShaped /\ ErrorShape /\ Newest
  BY <1>2, <1>3 DEF Shown, CallsShaped, ErrorShape, Newest
<1>5. OneKeyPerSlot /\ KeysOfCalls /\ ClaimsHold
  <2>1. OneKeyPerSlot
    BY <1>3 DEF OneKeyPerSlot
  <2>2. KeysOfCalls
    BY <1>2 DEF KeysOfCalls
  <2>3. ClaimsHold
    BY <1>3 DEF ClaimsHold
  <2> QED BY <2>1, <2>2, <2>3
<1>8. SameKey /\ StoredClaimed /\ KeyHeld /\ OneTry
  BY <1>2 DEF SameKey, StoredClaimed, KeyHeld, OneTry
<1>9. Retryable
  BY <1>3 DEF Retryable
<1>6. Away /\ Locked /\ HeardShape /\ DraftShape
  BY <1>2, <1>3 DEF Away, Locked, HeardShape, DraftShape, WaitingHere
<1>7. AskedOnce
  BY <1>3 DEF AskedOnce
<1> QED BY <1>1, <1>4, <1>5, <1>6, <1>7, <1>8, <1>9 DEF IInv, Good, Types

LEMMA StutterInv ==
    ASSUME IInv, UNCHANGED vars
    PROVE  IInv'
<1>1. /\ asked' = asked /\ claims' = claims /\ page' = page /\ thread' = thread /\ snap' = snap
      /\ op' = op /\ draft' = draft /\ busy' = busy /\ required' = required /\ keys' = keys
      /\ fetches' = fetches /\ latest' = latest /\ calls' = calls /\ heard' = heard
      /\ visited' = visited /\ strayed' = strayed
  BY DEF vars, server, shown
<1>2. Live' = Live /\ InFlight' = InFlight /\ KeptCalls' = KeptCalls /\ Waiting' = Waiting
  BY <1>1 DEF Live, InFlight, KeptCalls, Waiting
<1>3. TypeOK'
  BY <1>1 DEF IInv, Good, Types, TypeOK
<1>4. Shown' /\ ErrorShape' /\ Newest'
  BY <1>1, <1>2 DEF IInv, Good, Shown, ErrorShape, Newest, SlotOf
<1>5. CallsShaped'
  BY <1>1, <1>2 DEF IInv, Good, CallsShaped, CallShape, SlotOf
<1>6. OneKeyPerSlot' /\ KeysOfCalls' /\ ClaimsHold' /\ SameKey'
  BY <1>1, <1>2 DEF IInv, OneKeyPerSlot, KeysOfCalls, ClaimsHold, SameKey
<1>7. StoredClaimed' /\ KeyHeld' /\ OneTry'
  BY <1>1, <1>2 DEF IInv, StoredClaimed, KeyHeld, OneTry, Stored, Ending
<1>8. Retryable'
  BY <1>1, <1>2 DEF IInv, Retryable, Stored, Ending
<1>9. Away' /\ Locked' /\ DraftShape'
  BY <1>1, <1>2 DEF IInv, Away, Locked, DraftShape, Ending, WaitingHere, BusyHere
<1>10. HeardShape'
  BY <1>1, <1>2 DEF IInv, HeardShape, WaitingHere
<1>11. AskedOnce'
  BY <1>1 DEF IInv, AskedOnce
<1>12. NoneIsNothing'
  BY DEF IInv, Good, Types
<1> QED BY <1>3, <1>4, <1>5, <1>6, <1>7, <1>8, <1>9, <1>10, <1>11, <1>12 DEF IInv, Good, Types

LEMMA NextInv ==
    ASSUME IInv, Next
    PROVE  IInv'
<1>1. Good /\ Newest /\ Away
  BY DEF IInv
<1>2. Steps
  BY <1>1, NextSteps
<1>3. Good'
  BY <1>1, <1>2, TypesNext, ShapesNext, ShownNext, ErrorNext DEF Good
<1>4. Newest' /\ Away'
  BY <1>1, <1>2, NewestNext, AwayNext
<1>5. Locked' /\ HeardShape' /\ DraftShape'
  BY <1>2, LockedNext, HeardNext, DraftNext
<1>6. Keyring' /\ Retryable' /\ AskedOnce'
  BY <1>2, KeysNext
<1> QED BY <1>3, <1>4, <1>5, <1>6 DEF IInv, Keyring

LEMMA AlwaysInv ==
    ASSUME NoneIsNothing
    PROVE  Spec => []IInv
<1>1. Init => IInv
  BY InitInv
<1>2. IInv /\ [Next]_vars => IInv'
  BY NextInv, StutterInv
<1> QED BY <1>1, <1>2, PTL DEF Spec

\* Every variable keeps its type.
THEOREM PageTyped ==
    ASSUME NoneIsNothing
    PROVE  Spec => []TypeOK
<1>1. IInv => TypeOK
  BY DEF IInv, Good, Types
<1> QED BY <1>1, AlwaysInv, PTL

\* An intent is stored by one request, however often it is sent, unless its key was lost.
THEOREM StoredOnce ==
    ASSUME NoneIsNothing
    PROVE  Spec => []AskedOnce
<1>1. IInv => AskedOnce
  BY DEF IInv
<1> QED BY <1>1, AlwaysInv, PTL

\* The page shows the open conversation as it was at some time.
THEOREM PageShowsOpen ==
    ASSUME NoneIsNothing
    PROVE  Spec => []ShowsOpen
<1>1. IInv => ShowsOpen
  BY NoneApart DEF IInv, Good, Shown, ShowsOpen, Past
<1> QED BY <1>1, AlwaysInv, PTL

LEMMA LockedOne ==
    ASSUME IInv
    PROVE  OneAtATime
<1> DEFINE here == {m \in Live : calls[m].client = "waiting" /\ calls[m].conv = page}
<1> SUFFICES ASSUME page \notin visited
             PROVE  Cardinality(here) <= 1
  BY DEF OneAtATime
<1>1. \A m, w \in here : m = w
  BY DEF IInv, Locked, BusyHere, WaitingHere
<1>2. CASE here = {}
  BY <1>2, FS_EmptySet
<1>3. CASE here # {}
  <2>1. PICK m \in here : here = {m}
    BY <1>1, <1>3
  <2>2. Cardinality({m}) = 1
    BY FS_Singleton
  <2> QED BY <2>1, <2>2
<1> QED BY <1>2, <1>3

\* The page waits for one answer at a time, unless it left the conversation and came back.
THEOREM WaitsForOne ==
    ASSUME NoneIsNothing
    PROVE  Spec => []OneAtATime
BY LockedOne, AlwaysInv, PTL

-----------------------------------------------------------------------------
(* What a step may do. *)

LEMMA ForwardNext ==
    ASSUME IInv, Next
    PROVE  NeverOlder
<1>0. Good /\ Newest /\ Steps
  BY NextSteps DEF IInv
<1> SUFFICES ASSUME NEW f \in Fetch, fetches[f] # None, fetches'[f] = None, ~fetches[f].crossed,
                    page' = page, snap # None, snap' # None
             PROVE  NotOlder(snap, snap')
  BY DEF NeverOlder
<1>1. snap \in Requests /\ NotOlder(snap, snap)
  BY <1>0, PastRefl DEF Good, Shown, Past
<1>2. ASSUME NEW c \in Conversation, Shows(c)
      PROVE  FALSE
  BY <1>2 DEF Shows
<1>3. CASE Gone
  BY <1>3 DEF Gone, GoAway
<1>4. ASSUME NEW m \in Call, NEW result \in {"ok", "failed", "refused", "lost"},
             NEW stage \in {"onway", "generating", "done"}, HeardLast(m, result, stage)
      PROVE  FALSE
  <2>1. fetches[f] \in FetchRow
    BY <1>0 DEF Good, Types, TypeOK
  <2>2. [fetches[f] EXCEPT !.crossed = TRUE] \in FetchRow
    BY <2>1 DEF FetchRow
  <2>3. fetches'[f] = fetches[f] \/ fetches'[f] = [fetches[f] EXCEPT !.crossed = TRUE]
    BY <1>4 DEF HeardLast
  <2>4. None \notin FetchRow
    BY <1>0 DEF Good, Types, NoneIsNothing
  <2> HIDE DEF FetchRow
  <2> QED BY <2>2, <2>3, <2>4
<1>5. ASSUME NEW g \in Fetch, NEW applied \in BOOLEAN, NEW list \in Requests \cup {None},
             Finished(g, applied, list), snap' # snap
      PROVE  NotOlder(snap, snap')
  <2>1. fetches' = [fetches EXCEPT ![g] = None]
    BY <1>5 DEF Finished, Finish
  <2>2. f = g
    BY <1>0, <2>1 DEF Good, Types, TypeOK
  <2>3. /\ f = latest /\ fetches[f].conv = page /\ fetches[f].stage = "read"
        /\ snap' = fetches[f].data /\ f \in InFlight
    BY <1>5, <2>2 DEF Finished, InFlight
  <2> QED BY <1>0, <2>3 DEF Newest
<1> QED BY <1>0, <1>1, <1>2, <1>3, <1>4, <1>5, SnapStays

\* While a conversation stays open, no read replaces what was read later.
THEOREM PageNeverOlder ==
    ASSUME NoneIsNothing
    PROVE  Spec => [][NeverOlder]_vars
<1>1. IInv /\ [Next]_vars => [NeverOlder]_vars
  BY ForwardNext
<1> QED BY <1>1, AlwaysInv, PTL DEF Spec

\* An operation becomes pending only where the controls are not locked.
LEMMA PendingSteps ==
    ASSUME Good, Steps, op'.status = "pending", op.status # "pending"
    PROVE  Unlocked
<1>i. Idle.status # "pending"
  BY DEF Idle
<1>1. ASSUME NEW c \in Conversation, Shows(c)
      PROVE  FALSE
  BY <1>i, <1>1 DEF Shows
<1>2. CASE Gone
  BY <1>i, <1>2 DEF Gone, GoAway
<1>3. ASSUME NEW m \in Call, NEW kind, NEW q, NEW i, NEW n, KeyedIssue(m, kind, q, i, n)
      PROVE  Unlocked
  BY <1>3 DEF KeyedIssue
<1>4. ASSUME NEW m \in Call, NEW kind, NEW q, NEW i, NEW n, PlainIssue(m, kind, q, i, n)
      PROVE  Unlocked
  BY <1>4 DEF PlainIssue
<1>5. ASSUME NEW f \in Fetch, Polled(f) \/ ReadDone(f) \/ Unused(f) \/ \E m \in Call : Refreshed(m, f)
      PROVE  FALSE
  BY <1>5 DEF Refreshed, Polled, ReadDone, Unused, shown
<1>6. ASSUME NEW m \in Call, Asked(m) \/ Begun(m) \/ Over(m) \/ Recalled(m) \/ Answered(m) \/ Dropped(m)
      PROVE  FALSE
  BY <1>6 DEF Asked, Begun, Over, Recalled, Answered, Dropped, Served, shown
<1>7. ASSUME NEW m \in Call, NEW result \in {"ok", "failed", "refused", "lost"},
             NEW stage \in {"onway", "generating", "done"},
             \/ HeardAway(m, result, stage)
             \/ \E f \in Fetch : HeardHere(m, f, result, stage)
             \/ HeardLast(m, result, stage)
      PROVE  FALSE
  BY <1>i, <1>7 DEF HeardAway, HeardHere, HeardLast, shown
<1>8. ASSUME NEW f \in Fetch, NEW applied \in BOOLEAN, NEW list \in Requests \cup {None}, Finished(f, applied, list)
      PROVE  FALSE
  <2>1. PICK o : FinishOp(o, applied, list)
    BY <1>8, FinishedOp
  <2>2. op' \in {o, Idle}
    BY <2>1, SettleShape DEF FinishOp
  <2>3. ASSUME NEW m \in Waiting, calls[m].kind \in Asking, o = After(calls[m], applied, list)
        PROVE  o.status # "pending"
    <3>1. calls[m] \in CallRow
      BY DEF Waiting, Live, Good, Types, TypeOK
    <3>2. o \in {Idle} \cup ErrorRow
      BY <2>3, <3>1, AfterType
    <3>3. \A e \in ErrorRow : e.status # "pending"
      BY DEF ErrorRow
    <3> HIDE DEF ErrorRow
    <3> QED BY <1>i, <3>2, <3>3
  <2> QED BY <1>i, <2>1, <2>2, <2>3 DEF FinishOp
<1> QED BY <1>1, <1>2, <1>3, <1>4, <1>5, <1>6, <1>7, <1>8 DEF Steps

LEMMA SeenNext ==
    ASSUME IInv, Next
    PROVE  ActsOnSeen
<1> SUFFICES ASSUME op'.status = "pending", op.status # "pending", page \notin visited, heard # None
             PROVE  /\ heard.request \in DOMAIN snap
                    /\ heard.attempt \in DOMAIN snap[heard.request].attempts
  BY DEF ActsOnSeen
<1>1. Unlocked
  BY NextSteps, PendingSteps DEF IInv
<1>2. ~required /\ Waiting = {}
  BY <1>1 DEF Unlocked, Refreshing
<1> QED BY <1>2 DEF IInv, HeardShape, Covers

\* The page acts on a snapshot that shows what the answer it heard last was about.
THEOREM PageActsOnSeen ==
    ASSUME NoneIsNothing
    PROVE  Spec => [][ActsOnSeen]_vars
<1>1. IInv /\ [Next]_vars => [ActsOnSeen]_vars
  BY SeenNext
<1> QED BY <1>1, AlwaysInv, PTL DEF Spec

\* A step that changes the draft of the conversation that stays open.
LEMMA DraftSteps ==
    ASSUME Good, Steps, draft # None, draft' = None, page' = page
    PROVE  \/ \E m \in Call, f \in Fetch, stage \in {"onway", "generating", "done"} :
                 HeardHere(m, f, "ok", stage) /\ calls[m].kind = "send"
           \/ \E f \in Fetch, applied \in BOOLEAN, list \in Requests \cup {None} : Finished(f, applied, list)
<1>1. ASSUME NEW c \in Conversation, Shows(c)
      PROVE  FALSE
  BY <1>1 DEF Shows
<1>2. CASE Gone
  BY <1>2 DEF Gone, GoAway
<1>3. ASSUME NEW m \in Call, NEW kind, NEW q, NEW i, NEW n, KeyedIssue(m, kind, q, i, n)
      PROVE  FALSE
  <2>1. q # None
    BY <1>3, NoneApart DEF KeyedIssue, Good
  <2> QED BY <1>3, <2>1 DEF KeyedIssue
<1>4. ASSUME NEW m \in Call, NEW kind, NEW q, NEW i, NEW n, PlainIssue(m, kind, q, i, n)
      PROVE  FALSE
  BY <1>4 DEF PlainIssue
<1>5. ASSUME NEW f \in Fetch, Polled(f) \/ ReadDone(f) \/ Unused(f) \/ \E m \in Call : Refreshed(m, f)
      PROVE  FALSE
  BY <1>5 DEF Refreshed, Polled, ReadDone, Unused, shown
<1>6. ASSUME NEW m \in Call, Asked(m) \/ Begun(m) \/ Over(m) \/ Recalled(m) \/ Answered(m) \/ Dropped(m)
      PROVE  FALSE
  BY <1>6 DEF Asked, Begun, Over, Recalled, Answered, Dropped, Served, shown
<1>7. ASSUME NEW m \in Call, NEW result \in {"ok", "failed", "refused", "lost"},
             NEW stage \in {"onway", "generating", "done"}, HeardAway(m, result, stage) \/ HeardLast(m, result, stage)
      PROVE  FALSE
  BY <1>7 DEF HeardAway, HeardLast, shown
<1>8. ASSUME NEW m \in Call, NEW result \in {"ok", "failed", "refused", "lost"},
             NEW stage \in {"onway", "generating", "done"}, NEW f \in Fetch, HeardHere(m, f, result, stage)
      PROVE  result = "ok" /\ calls[m].kind = "send"
  BY <1>8 DEF HeardHere
<1> QED BY <1>1, <1>2, <1>3, <1>4, <1>5, <1>6, <1>7, <1>8 DEF Steps

LEMMA KeptNext ==
    ASSUME IInv, Next
    PROVE  DraftKept
<1>0. Good /\ Steps /\ DraftShape
  BY NextSteps DEF IInv
<1> SUFFICES ASSUME draft # None, draft' = None, page' = page, page \notin visited
             PROVE  \E n \in DOMAIN asked[page] : asked[page][n].question = draft
  BY DEF DraftKept
<1>1. ASSUME NEW m \in Call, NEW f \in Fetch, NEW stage \in {"onway", "generating", "done"},
             HeardHere(m, f, "ok", stage), calls[m].kind = "send"
      PROVE  \E n \in DOMAIN asked[page] : asked[page][n].question = draft
  <2>1. m \in Live /\ calls[m].client = "waiting" /\ calls[m].conv = page
        /\ calls[m].server = "answered" /\ calls[m].result = "ok"
    BY <1>1 DEF HeardHere, Told, Live
  <2>2. draft = calls[m].question
    BY <1>0, <1>1, <2>1 DEF DraftShape, BusyHere, WaitingHere
  <2>3. CallShape(calls[m])
    BY <1>0, <2>1 DEF Good, CallsShaped
  <2>4. calls[m].kind \in Kept /\ calls[m].kind \in Asking
    BY <1>1 DEF Kept, Asking
  <2>5. calls[m].request \in DOMAIN asked[page] /\ asked[page][calls[m].request].question = calls[m].question
    BY <2>1, <2>3, <2>4 DEF CallShape, Covers
  <2> QED BY <2>2, <2>5
<1>2. ASSUME NEW f \in Fetch, NEW applied \in BOOLEAN, NEW list \in Requests \cup {None}, Finished(f, applied, list)
      PROVE  \E n \in DOMAIN asked[page] : asked[page][n].question = draft
  <2>1. page \in Conversation /\ (list # None => Past(list, asked[page]))
    BY <1>0, <1>2, FinishedList
  <2>2. PICK o : FinishOp(o, applied, list)
    BY <1>2, FinishedOp
  <2>3. /\ o.status = "error" /\ o.kind = "send"
        /\ o.request # None \/ Settle(o, list, required') = Idle
    BY <2>2 DEF FinishOp
  <2>4. /\ draft = o.question
        /\ o.request # None => o.request \in DOMAIN asked[page] /\ asked[page][o.request].question = o.question
    <3>1. CASE o = op
      BY <1>0, <2>3, <3>1 DEF DraftShape
    <3>2. ASSUME NEW m \in Waiting, calls[m].kind \in Asking, o = After(calls[m], applied, list)
          PROVE  /\ draft = o.question
                 /\ o.request # None => /\ o.request \in DOMAIN asked[page]
                                        /\ asked[page][o.request].question = o.question
      <4>1. calls[m].conv = page /\ m \in Live /\ BusyHere(m)
        BY <3>2 DEF IInv, Away, Waiting, BusyHere, Asking, Kept
      <4>2. /\ o.kind = calls[m].kind /\ o.question = calls[m].question
            /\ o.request # None => o.request \in DOMAIN asked[page]
            /\ o.kind = "send" /\ o.request # None => asked[page][o.request].question = o.question
        BY <1>0, <2>1, <2>3, <3>2, <4>1, AfterShape
      <4> QED BY <1>0, <2>3, <4>1, <4>2 DEF DraftShape
    <3> QED BY <2>2, <3>1, <3>2 DEF FinishOp
  <2>5. ASSUME o.request = None
        PROVE  \E n \in DOMAIN asked[page] : asked[page][n].question = draft
    <3>1. list # None /\ \E k \in DOMAIN list : list[k].question = o.question
      BY <2>3, <2>5, SettleShape
    <3>2. PICK k \in DOMAIN list : list[k].question = o.question
      BY <3>1
    <3>3. asked[page] \in Requests /\ list \in Requests /\ Past(list, asked[page])
      BY <1>0, <2>1, <3>1 DEF Good, Types, TypeOK
    <3>4. k \in DOMAIN asked[page] /\ asked[page][k].question = list[k].question
      BY <3>3, PastDomain DEF Past
    <3> QED BY <2>4, <3>2, <3>4
  <2> QED BY <2>4, <2>5
<1> QED BY <1>0, <1>1, <1>2, DraftSteps

\* The text in the input box goes only for a request of the conversation with that text.
THEOREM PageKeepsDraft ==
    ASSUME NoneIsNothing
    PROVE  Spec => [][DraftKept]_vars
<1>1. IInv /\ [Next]_vars => [DraftKept]_vars
  BY KeptNext
<1> QED BY <1>1, AlwaysInv, PTL DEF Spec

-----------------------------------------------------------------------------
(* Branches *)

\* Branches form a tree: each but the first leaves an earlier one at a message of it, so a
\* set of them always has one whose parent is not in it.
Parent(b) == branch[b].parent
Cut(b)    == req[branch[b].point].seq

Rooted ==
    /\ branch \in [Branch -> His!BranchRow \cup {None}]
    /\ Primary \in His!Branches /\ active \in His!Branches
    /\ \A b \in His!Branches : Parent(b) = None <=> b = Primary
    /\ \A b \in His!Branches \ {Primary} :
         /\ Parent(b) \in His!Branches /\ Parent(b) # b
         /\ branch[b].point \in His!Requests /\ req[branch[b].point].branch = Parent(b)

Grounded ==
    \A S \in SUBSET His!Branches : S # {} => \E b \in S : Parent(b) \notin S

\* Messages have their branch, and a place in it not before the point it leaves its parent.
Placed ==
    /\ req \in [RequestId -> His!RequestRow \cup {None}]
    /\ \A r \in His!Requests : req[r].branch \in His!Branches /\ req[r].seq \in Nat
    /\ \A r \in His!Requests : req[r].branch # Primary => Cut(req[r].branch) <= req[r].seq
    /\ \A b \in His!Branches \ {Primary} : \E r \in His!Requests : req[r].branch = b

Numbered ==
    \A r, q \in His!Requests : req[r].branch = req[q].branch /\ req[r].seq = req[q].seq => r = q

\* An answer has the place of its question.
Attached ==
    /\ ans \in [AnswerId -> His!AnswerRow \cup {None}]
    /\ \A a \in His!Answers :
         /\ ans[a].request \in His!Requests /\ ans[a].variant \in Nat
         /\ ans[a].branch = req[ans[a].request].branch
         /\ ans[a].seq = req[ans[a].request].seq
         /\ req[ans[a].request].answered

Counted ==
    /\ IsFiniteSet(His!Requests) /\ IsFiniteSet(His!Answers)
    /\ \A a, x \in His!Answers :
         ans[a].request = ans[x].request /\ ans[a].variant = ans[x].variant => a = x
    /\ \A a \in His!Answers :
         ans[a].variant <= Cardinality({x \in His!Answers : ans[x].request = ans[a].request})

AttemptRow == [request : RequestId \cup {None},
               type : {"ORIGINAL", "RETRY", "REGENERATION", None},
               chosen : AnswerId \cup {None},
               context : (SUBSET (RequestId \cup AnswerId)) \cup {None}]

\* Handlers work on different requests, and only the first attempt finds its request
\* without an outcome.
Worked ==
    /\ task \in [Handler -> AttemptRow]
    /\ \A r \in His!Requests : req[r].answered \/ ~req[r].busy => req[r].status # "PROCESSING"
    /\ \A h \in Handler : task[h] # His!Idle =>
         /\ task[h].request \in His!Requests /\ req[task[h].request].busy
         /\ task[h].type \in {"ORIGINAL", "RETRY", "REGENERATION"}
         /\ task[h].type # "ORIGINAL" => req[task[h].request].status # "PROCESSING"
         /\ task[h].chosen # None =>
              task[h].chosen \in His!Answers /\ ans[task[h].chosen].request = task[h].request
    /\ \A h, g \in Handler :
         task[h] # His!Idle /\ task[g] # His!Idle /\ task[h].request = task[g].request => h = g

\* A history holds an answer only with its question, unless it was cut there.
Paired(c, chosen) ==
    /\ \A a, x \in c \cap AnswerId : ans[a].request = ans[x].request => a = x
    /\ \A a \in c \cap AnswerId :
         \/ ans[a].request \in c \/ a = chosen
         \/ Cardinality(c) = HistoryLimit /\ \A m \in c \ {a} : His!Before(a, m)

Remembered ==
    \A h \in Handler : task[h] # His!Idle /\ task[h].context # None =>
      task[h].context \subseteq His!Messages /\ Paired(task[h].context, task[h].chosen)

\* The last question of a branch is numbered last.
Topped ==
    \A b \in His!Branches :
      \/ \A r \in His!Requests : req[r].branch # b
      \/ \E r \in His!Requests : /\ req[r].branch = b
                                 /\ \A q \in His!Requests : req[q].branch = b => req[q].seq <= req[r].seq

Tree == His!PrimaryBranch /\ His!NullIsNoRow /\ Rooted /\ Grounded /\ Placed

-----------------------------------------------------------------------------
(* The chain of a branch *)

LEMMA BranchCardinal == \A S : His!Cardinality(S) = Cardinality(S)
BY DEF His!Cardinality, Cardinality

LEMMA BranchFinite == \A S : His!IsFiniteSet(S) = IsFiniteSet(S)
BY DEF His!IsFiniteSet, IsFiniteSet

LEMMA ChainHolds ==
    ASSUME NEW b \in His!Branches
    PROVE  /\ His!Chain(b) \subseteq His!Branches /\ b \in His!Chain(b)
           /\ \A S \in SUBSET His!Branches : b \in S /\ His!Upward(S) => His!Chain(b) \subseteq S
BY DEF His!Chain

LEMMA ChainUp ==
    ASSUME NEW b \in His!Branches, NEW c \in His!Chain(b), Parent(c) # None, Parent(c) \in His!Branches
    PROVE  Parent(c) \in His!Chain(b)
BY DEF His!Chain, His!Upward, Parent

LEMMA ChainThrough ==
    ASSUME Rooted, NEW b \in His!Branches, NEW c \in His!Chain(b)
    PROVE  c \in His!Branches /\ His!Chain(c) \subseteq His!Chain(b)
<1>1. c \in His!Branches /\ His!Chain(b) \subseteq His!Branches
    BY ChainHolds
<1>2. His!Upward(His!Chain(b))
    BY <1>1, ChainUp DEF His!Upward, Parent, Rooted
<1> QED
    BY <1>1, <1>2, ChainHolds

LEMMA ChainAbove ==
    ASSUME Tree, NEW b \in His!Branches
    PROVE  /\ b = Primary => His!Chain(b) = {b}
           /\ b # Primary => His!Chain(b) = {b} \cup His!Chain(Parent(b))
<1>1. CASE b = Primary
    <2>1. His!Upward({b})
        BY <1>1 DEF Tree, Rooted, His!Upward, Parent
    <2> QED
        BY <1>1, <2>1, ChainHolds
<1>2. CASE b # Primary
    <2>1. Parent(b) \in His!Branches /\ Parent(b) # None
        BY <1>2 DEF Tree, Rooted
    <2>2. His!Upward({b} \cup His!Chain(Parent(b)))
        BY <2>1, ChainHolds, ChainUp DEF Tree, Rooted, His!Upward, Parent
    <2>3. His!Chain(b) \subseteq {b} \cup His!Chain(Parent(b))
        BY <2>1, <2>2, ChainHolds
    <2>4. b \in His!Chain(b) /\ Parent(b) \in His!Chain(b)
        BY <2>1, ChainHolds, ChainUp
    <2>5. His!Chain(Parent(b)) \subseteq His!Chain(b)
        BY <2>4, ChainThrough DEF Tree
    <2> QED
        BY <1>2, <2>3, <2>4, <2>5
<1> QED
    BY <1>1, <1>2

\* Two branches of a chain are one above the other,
LEMMA ChainLinear ==
    ASSUME Tree, NEW b \in His!Branches, NEW c \in His!Chain(b), NEW d \in His!Chain(b)
    PROVE  c \in His!Chain(d) \/ d \in His!Chain(c)
<1> DEFINE S == {x \in His!Chain(b) : c \in His!Chain(x) \/ x \in His!Chain(c)}
<1>1. His!Chain(b) \subseteq His!Branches /\ c \in His!Branches
    BY ChainHolds
<1>2. b \in S
    BY ChainHolds
<1>3. ASSUME NEW x \in S, Parent(x) # None PROVE Parent(x) \in S
    <2>1. x \in His!Branches /\ x # Primary /\ Parent(x) \in His!Branches
        BY <1>1, <1>3 DEF Tree, Rooted
    <2>2. Parent(x) \in His!Chain(b)
        BY <1>3, <2>1, ChainUp
    <2>3. CASE x \in His!Chain(c)
        BY <1>1, <1>3, <2>1, <2>2, <2>3, ChainUp
    <2>4. CASE c \in His!Chain(x) /\ c # x
        BY <2>1, <2>2, <2>4, ChainAbove
    <2>5. CASE c = x
        BY <1>1, <2>3, <2>5, ChainHolds
    <2> QED
        BY <1>3, <2>3, <2>4, <2>5
<1>4. S \subseteq His!Branches /\ His!Upward(S)
    BY <1>1, <1>3 DEF His!Upward, Parent
<1> HIDE DEF S
<1>5. His!Chain(b) \subseteq S
    BY <1>2, <1>4, ChainHolds
<1>6. d \in S
    BY <1>5
<1> QED
    BY <1>6 DEF S

\* and never above each other.
LEMMA ChainOrdered ==
    ASSUME Tree, NEW c \in His!Branches, NEW d \in His!Branches, c \in His!Chain(d), d \in His!Chain(c)
    PROVE  c = d
<1> SUFFICES ASSUME c # d PROVE FALSE
    OBVIOUS
<1> DEFINE S == {x \in His!Chain(d) : d \in His!Chain(x)}
<1>1. S \subseteq His!Branches /\ d \in S
    BY ChainHolds
<1>2. ASSUME NEW x \in S PROVE Parent(x) \in S
    <2>1. x # Primary /\ Parent(x) \in His!Branches
        <3>1. x # Primary
            <4>1. x = Primary => d = x
                BY <1>1, <1>2, ChainAbove
            <4>2. d = Primary => c = d
                BY ChainAbove
            <4> QED
                BY <4>1, <4>2
        <3> QED
            BY <1>1, <1>2, <3>1 DEF Tree, Rooted
    <2>2. Parent(x) \in His!Chain(d)
        BY <1>1, <1>2, <2>1, ChainUp DEF Tree, Rooted
    <2>3. CASE x # d
        BY <1>1, <1>2, <2>1, <2>2, <2>3, ChainAbove
    <2>4. CASE x = d
        <3>1. c \in His!Chain(Parent(d))
            BY <2>1, <2>4, ChainAbove
        <3>2. His!Chain(c) \subseteq His!Chain(Parent(d))
            BY <2>1, <2>4, <3>1, ChainThrough DEF Tree
        <3> QED
            BY <2>2, <2>4, <3>2
    <2> QED
        BY <2>3, <2>4
<1> HIDE DEF S
<1>3. S \in SUBSET His!Branches /\ S # {}
    BY <1>1
<1> QED
    BY <1>2, <1>3 DEF Tree, Grounded

LEMMA ChainChild ==
    ASSUME Tree, NEW b \in His!Branches, NEW c \in His!Chain(b), c # b
    PROVE  \E d \in His!Chain(b) : Parent(d) = c
<1> DEFINE S == {x \in His!Chain(b) : x = b \/ \E d \in His!Chain(b) : Parent(d) = x}
<1>1. His!Chain(b) \subseteq His!Branches /\ b \in S
    BY ChainHolds
<1>2. ASSUME NEW x \in S, Parent(x) # None PROVE Parent(x) \in S
    BY <1>1, <1>2, ChainUp DEF Tree, Rooted
<1>3. S \subseteq His!Branches /\ His!Upward(S)
    BY <1>1, <1>2 DEF His!Upward, Parent
<1> HIDE DEF S
<1>4. His!Chain(b) \subseteq S
    BY <1>1, <1>3, ChainHolds
<1> QED
    BY <1>4 DEF S

\* A branch of a chain has one child in it at most.
LEMMA ChainSingle ==
    ASSUME Tree, NEW b \in His!Branches, NEW c \in His!Chain(b), NEW d \in His!Chain(b),
           Parent(c) = Parent(d), Parent(c) # None
    PROVE  c = d
<1>1. c \in His!Branches /\ d \in His!Branches
    BY ChainHolds
<1>2. ASSUME NEW x \in His!Branches, NEW y \in His!Branches, x \in His!Chain(y), x # y,
             Parent(x) = Parent(y), Parent(x) # None
      PROVE  FALSE
    <2>1. y # Primary /\ x # Primary /\ Parent(x) \in His!Branches
        BY <1>2 DEF Tree, Rooted
    <2>2. x \in His!Chain(Parent(x))
        BY <1>2, <2>1, ChainAbove
    <2>3. Parent(x) \in His!Chain(x)
        BY <1>2, <2>1, ChainHolds, ChainUp
    <2>4. x = Parent(x)
        BY <2>1, <2>2, <2>3, ChainOrdered
    <2> QED
        BY <2>1, <2>4 DEF Tree, Rooted
<1> QED
    BY <1>1, <1>2, ChainLinear

-----------------------------------------------------------------------------
(* What a branch shows *)

Own(b) == {m \in His!Messages : His!BranchOf(m) = b}

LEMMA MessagePlace ==
    ASSUME Tree, Attached, NEW m \in His!Messages
    PROVE  /\ His!BranchOf(m) \in His!Branches /\ His!SeqOf(m) \in Nat
           /\ His!BranchOf(m) # Primary => Cut(His!BranchOf(m)) <= His!SeqOf(m)
           /\ m \in His!Requests => m \in RequestId /\ His!BranchOf(m) = req[m].branch /\ His!SeqOf(m) = req[m].seq
           /\ m \in His!Answers =>
                /\ m \notin RequestId /\ ans[m].request \in His!Requests
                /\ His!BranchOf(m) = His!BranchOf(ans[m].request) /\ His!SeqOf(m) = His!SeqOf(ans[m].request)
<1> USE DEF His!Messages, His!Requests, His!Answers, His!BranchOf, His!SeqOf
<1>1. CASE m \in His!Requests
    BY <1>1 DEF Tree, His!PrimaryBranch, Placed
<1>2. CASE m \in His!Answers
    BY <1>2 DEF Tree, His!PrimaryBranch, Placed, Attached
<1> QED
    BY <1>1, <1>2

LEMMA PointPlace ==
    ASSUME Tree, NEW b \in His!Branches, b # Primary
    PROVE  /\ branch[b].point \in His!Requests /\ branch[b].point \in His!Messages
           /\ Parent(b) \in His!Branches /\ Parent(b) # None /\ Parent(b) # b
           /\ His!BranchOf(branch[b].point) = Parent(b) /\ His!SeqOf(branch[b].point) = Cut(b)
           /\ Cut(b) \in Nat
           /\ Parent(b) # Primary => Cut(Parent(b)) <= Cut(b)
<1>1. /\ Parent(b) \in His!Branches /\ Parent(b) # b
      /\ branch[b].point \in His!Requests /\ req[branch[b].point].branch = Parent(b)
    BY DEF Tree, Rooted
<1>2. Parent(b) # None
    BY DEF Tree, Rooted
<1> QED
    BY <1>1, <1>2 DEF Tree, Placed, His!Requests, His!Messages, His!BranchOf, His!SeqOf, Cut

\* The branches of a chain left their parents one after the other.
LEMMA CutsGrow ==
    ASSUME Tree, NEW b \in His!Branches, b # Primary, NEW c \in His!Chain(b), c # Primary
    PROVE  Cut(c) <= Cut(b) /\ Cut(c) \in Nat /\ Cut(b) \in Nat
<1> DEFINE S == {x \in His!Chain(b) : x = Primary \/ Cut(x) <= Cut(b)}
<1>1. His!Chain(b) \subseteq His!Branches /\ b \in S
    BY ChainHolds, PointPlace
<1>2. ASSUME NEW x \in S, Parent(x) # None PROVE Parent(x) \in S
    <2>1. x \in His!Branches /\ x # Primary
        BY <1>1, <1>2 DEF Tree, Rooted
    <2>2. Parent(x) \in His!Chain(b)
        BY <1>2, <2>1, PointPlace, ChainUp
    <2>3. CASE Parent(x) # Primary
        <3>1. Cut(Parent(x)) <= Cut(x) /\ Cut(x) <= Cut(b)
            BY <2>1, <2>3, PointPlace
        <3>2. Cut(Parent(x)) \in Nat /\ Cut(x) \in Nat /\ Cut(b) \in Nat
            BY <2>1, <2>3, PointPlace
        <3> QED
            BY <2>2, <3>1, <3>2
    <2> QED
        BY <2>2, <2>3
<1>3. S \subseteq His!Branches /\ His!Upward(S)
    BY <1>1, <1>2 DEF His!Upward, Parent
<1> HIDE DEF S
<1>4. His!Chain(b) \subseteq S
    BY <1>1, <1>3, ChainHolds
<1>5. Cut(c) <= Cut(b)
    BY <1>4 DEF S
<1> QED
    BY <1>1, <1>5, PointPlace

LEMMA VisibleIn ==
    ASSUME Tree, Attached, NEW b \in His!Branches, NEW m \in His!Messages
    PROVE  m \in His!Visible(b) <=>
             \/ His!BranchOf(m) = b
             \/ \E c \in His!Chain(b) \ {Primary} : Parent(c) = His!BranchOf(m) /\ His!SeqOf(m) < Cut(c)
<1>1. His!Chain(b) \subseteq His!Branches
    BY ChainHolds
<1>2. \A c \in His!Chain(b) : Parent(c) = His!BranchOf(m) => c # Primary
    BY <1>1, MessagePlace DEF Tree, His!PrimaryBranch, Rooted, His!Branches
<1> QED
    BY <1>2 DEF His!Visible, His!ChildIn, Parent, Cut

LEMMA VisibleOnPrimary ==
    ASSUME Tree, Attached, NEW m \in His!Messages
    PROVE  m \in His!Visible(Primary) <=> His!BranchOf(m) = Primary
<1>1. Primary \in His!Branches
    BY DEF Tree, Rooted
<1>2. His!Chain(Primary) = {Primary}
    BY <1>1, ChainAbove
<1> QED
    BY <1>1, <1>2, VisibleIn

\* One cutoff for each ancestor is enough, since they grow.
LEMMA VisibleOnBranch ==
    ASSUME Tree, Attached, NEW b \in His!Branches, b # Primary, NEW m \in His!Messages
    PROVE  m \in His!Visible(b) <=>
             His!BranchOf(m) = b \/ (m \in His!Visible(Parent(b)) /\ His!SeqOf(m) < Cut(b))
<1>1. Parent(b) \in His!Branches /\ Cut(b) \in Nat /\ His!SeqOf(m) \in Nat
    BY PointPlace, MessagePlace
<1>2. His!Chain(b) = {b} \cup His!Chain(Parent(b)) /\ His!Chain(b) \subseteq His!Branches
    BY ChainAbove, ChainHolds
<1>3. ASSUME NEW c \in His!Chain(b) \ {Primary}, Parent(c) = His!BranchOf(m), His!SeqOf(m) < Cut(c)
      PROVE  m \in His!Visible(Parent(b)) /\ His!SeqOf(m) < Cut(b)
    <2>1. His!SeqOf(m) < Cut(b)
        BY <1>1, <1>3, CutsGrow
    <2>2. CASE c = b
        BY <1>1, <1>3, <2>1, <2>2, VisibleIn
    <2>3. CASE c \in His!Chain(Parent(b))
        BY <1>1, <1>3, <2>1, <2>3, VisibleIn
    <2> QED
        BY <1>2, <1>3, <2>2, <2>3
<1>4. ASSUME m \in His!Visible(Parent(b)), His!SeqOf(m) < Cut(b)
      PROVE  m \in His!Visible(b)
    <2>1. CASE His!BranchOf(m) = Parent(b)
        <3>1. b \in His!Chain(b) \ {Primary}
            BY ChainHolds
        <3> QED
            BY <1>4, <2>1, <3>1, VisibleIn
    <2>2. CASE \E c \in His!Chain(Parent(b)) \ {Primary} : Parent(c) = His!BranchOf(m) /\ His!SeqOf(m) < Cut(c)
        BY <1>2, <2>2, VisibleIn
    <2> QED
        BY <1>1, <1>4, <2>1, <2>2, VisibleIn
<1> QED
    BY <1>3, <1>4, VisibleIn

LEMMA ThreadHolds == ASSUME Tree, Attached PROVE His!VisibleIsThread
<1> SUFFICES ASSUME NEW b \in His!Branches, NEW m
             PROVE  m \in His!Visible(b) <=> m \in {x \in His!Messages : His!BranchOf(x) = b} \cup His!Continued(b)
    BY DEF His!VisibleIsThread
<1>1. m \in His!Visible(b) => m \in His!Messages
    BY DEF His!Visible
<1>2. m \in His!Continued(b) <=>
        m \in His!Messages /\ b # Primary /\ m \in His!Visible(Parent(b)) /\ His!SeqOf(m) < Cut(b)
    BY DEF His!Continued, Parent, Cut, Tree, Rooted
<1> QED
    BY <1>1, <1>2, VisibleOnPrimary, VisibleOnBranch

LEMMA ReplacedHidden == ASSUME Tree, Attached PROVE His!ReplacedIsHidden
<1> SUFFICES ASSUME NEW b \in His!Branches \ {Primary}, NEW m \in His!Visible(b),
                    m = branch[b].point \/ (m \in AnswerId /\ ans[m].request = branch[b].point)
             PROVE  FALSE
    BY DEF His!ReplacedIsHidden
<1>1. m \in His!Messages
    BY DEF His!Visible
<1>2. His!BranchOf(m) = Parent(b) /\ His!SeqOf(m) = Cut(b)
    BY <1>1, PointPlace, MessagePlace DEF His!Messages, Tree, His!PrimaryBranch, His!Requests
<1>3. Parent(b) # b /\ Cut(b) \in Nat
    BY PointPlace
<1> QED
    BY <1>1, <1>2, <1>3, VisibleOnBranch

LEMMA QuestionsApart == ASSUME Tree, Attached, Numbered PROVE His!QuestionsNumbered
<1> DEFINE Apart(b) ==
        \A r, q \in His!Visible(b) \cap RequestId : req[r].seq = req[q].seq => r = q
           Bad == {b \in His!Branches : ~Apart(b)}
<1>1. ASSUME NEW r \in His!Messages \cap RequestId
      PROVE  r \in His!Requests /\ His!BranchOf(r) = req[r].branch /\ His!SeqOf(r) = req[r].seq
    <2>1. r \in His!Requests
        BY DEF His!Messages, His!Answers, His!Requests, Tree, His!PrimaryBranch
    <2> QED
        BY <2>1, MessagePlace
<1>2. Apart(Primary)
    BY <1>1, VisibleOnPrimary DEF His!Visible, Numbered
<1>3. ASSUME NEW b \in His!Branches \ {Primary}, Apart(Parent(b)) PROVE Apart(b)
    <2> SUFFICES ASSUME NEW r \in His!Visible(b) \cap RequestId, NEW q \in His!Visible(b) \cap RequestId,
                        req[r].seq = req[q].seq
                 PROVE  r = q
        OBVIOUS
    <2>1. r \in His!Messages \cap RequestId /\ q \in His!Messages \cap RequestId
        BY DEF His!Visible
    <2>2. CASE His!BranchOf(r) = b /\ His!BranchOf(q) = b
        BY <1>1, <2>1, <2>2 DEF Numbered
    <2>3. CASE His!BranchOf(r) # b /\ His!BranchOf(q) # b
        BY <1>3, <2>1, <2>3, VisibleOnBranch
    <2>4. ASSUME NEW x \in His!Messages, NEW y \in His!Messages, y \in His!Visible(b),
                 His!BranchOf(x) = b, His!BranchOf(y) # b
          PROVE  His!SeqOf(y) < His!SeqOf(x)
        <3>1. His!SeqOf(y) < Cut(b) /\ Cut(b) <= His!SeqOf(x)
            BY <2>4, VisibleOnBranch, MessagePlace
        <3> QED
            BY <3>1, MessagePlace, PointPlace
    <2>5. His!SeqOf(r) = His!SeqOf(q) /\ His!SeqOf(r) \in Nat
        BY <1>1, <2>1, MessagePlace
    <2> QED
        BY <2>1, <2>2, <2>3, <2>4, <2>5
<1>4. Bad = {}
    <2> SUFFICES ASSUME Bad # {} PROVE FALSE
        OBVIOUS
    <2>1. Bad \in SUBSET His!Branches
        OBVIOUS
    <2>2. PICK b \in Bad : Parent(b) \notin Bad
        BY <2>1 DEF Tree, Grounded
    <2> HIDE DEF Apart
    <2>3. b \in His!Branches \ {Primary}
        BY <1>2
    <2>4. Apart(Parent(b))
        BY <2>2, <2>3, PointPlace
    <2> QED
        BY <1>3, <2>3, <2>4
<1> QED
    BY <1>4 DEF His!QuestionsNumbered

LEMMA PreviewEnds == ASSUME Tree, Attached PROVE His!PreviewIsLast
<1>1. active \in His!Branches
    BY DEF Tree, Rooted
<1> DEFINE P == {m \in His!Messages :
                /\ His!BranchOf(m) \in His!Chain(active)
                /\ His!BranchOf(m) = active \/
                         \A c \in His!ChildIn(His!Chain(active), His!BranchOf(m)) :
                           His!SeqOf(m) < req[branch[c].point].seq}
<1>2. ASSUME NEW m \in His!Messages PROVE m \in P <=> m \in His!Visible(active)
    <2>1. His!BranchOf(m) \in His!Branches /\ His!Chain(active) \subseteq His!Branches /\ active \in His!Chain(active)
        BY <1>1, MessagePlace, ChainHolds
    <2>2. His!BranchOf(m) # None
        BY <2>1 DEF Tree, His!PrimaryBranch, His!Branches
    <2>3. CASE His!BranchOf(m) = active
        BY <1>1, <2>1, <2>3, VisibleIn
    <2>4. ASSUME His!BranchOf(m) # active, His!BranchOf(m) \in His!Chain(active)
          PROVE  \E c \in His!ChildIn(His!Chain(active), His!BranchOf(m)) :
                    \A d \in His!ChildIn(His!Chain(active), His!BranchOf(m)) : d = c
        <3>1. ASSUME NEW c \in His!ChildIn(His!Chain(active), His!BranchOf(m)),
                     NEW d \in His!ChildIn(His!Chain(active), His!BranchOf(m))
              PROVE  d = c
            BY <1>1, <2>2, <3>1, ChainSingle DEF His!ChildIn, Parent
        <3>2. His!ChildIn(His!Chain(active), His!BranchOf(m)) # {}
            BY <1>1, <2>4, ChainChild DEF His!ChildIn, Parent
        <3> QED
            BY <3>1, <3>2
    <2>5. CASE His!BranchOf(m) # active /\ His!BranchOf(m) \in His!Chain(active)
        BY <2>4, <2>5 DEF His!Visible
    <2>6. CASE His!BranchOf(m) \notin His!Chain(active)
        <3>1. ASSUME NEW c \in His!Chain(active), Parent(c) = His!BranchOf(m) PROVE FALSE
            BY <1>1, <2>1, <2>2, <2>6, <3>1, ChainUp
        <3> QED
            BY <2>1, <2>6, <3>1 DEF His!Visible, His!ChildIn, Parent
    <2> QED
        BY <2>3, <2>5, <2>6
<1>3. P = His!Visible(active)
    BY <1>2 DEF His!Visible
<1> QED
    BY <1>3 DEF His!PreviewIsLast, His!Preview

-----------------------------------------------------------------------------
(* What the provider is given *)

LEMMA QuestionVisible ==
    ASSUME Tree, Attached, NEW b \in His!Branches, NEW a \in His!Answers, a \in His!Visible(b)
    PROVE  ans[a].request \in His!Visible(b)
<1>1. /\ a \in His!Messages /\ ans[a].request \in His!Messages
      /\ His!BranchOf(a) = His!BranchOf(ans[a].request) /\ His!SeqOf(a) = His!SeqOf(ans[a].request)
    BY MessagePlace DEF His!Messages
<1> QED
    BY <1>1 DEF His!Visible

Earlier == \A r \in His!Requests : req[r].answered => req[r].status # "PROCESSING"

LEMMA OneAnswerFor ==
    ASSUME Attached, Counted, NEW q, NEW seen, NEW chosen,
           NEW a \in His!AnswerFor(q, seen, chosen) \cap His!Answers,
           NEW x \in His!AnswerFor(q, seen, chosen) \cap His!Answers
    PROVE  a = x
<1>1. CASE chosen \in seen /\ ans[chosen].request = q
    BY <1>1 DEF His!AnswerFor
<1>2. CASE ~(chosen \in seen /\ ans[chosen].request = q)
    <2>1. ans[a].request = q /\ ans[x].request = q
        BY <1>2 DEF His!AnswerFor
    <2>2. ans[a].variant <= ans[x].variant /\ ans[x].variant <= ans[a].variant
        BY <1>2 DEF His!AnswerFor
    <2>3. ans[a].variant \in Nat /\ ans[x].variant \in Nat
        BY DEF Attached
    <2> QED
        BY <2>1, <2>2, <2>3 DEF Counted
<1> QED
    BY <1>1, <1>2

LEMMA BeforeOrder ==
    ASSUME Tree, Attached
    PROVE  /\ \A m \in His!Messages : ~His!Before(m, m)
           /\ \A m, n, o \in His!Messages : His!Before(m, n) /\ His!Before(n, o) => His!Before(m, o)
           /\ \A m, n \in His!Messages : His!Before(m, n) => His!SeqOf(m) <= His!SeqOf(n)
<1>1. \A m \in His!Messages : His!SeqOf(m) \in Nat
    BY MessagePlace
<1>2. \A m \in His!Messages : m \in AnswerId => ans[m].variant \in Nat
    BY DEF His!Messages, His!Requests, His!Answers, Attached, Tree, His!PrimaryBranch
<1>3. \A m \in His!Messages : ~(m \in RequestId /\ m \in AnswerId)
    BY DEF Tree, His!PrimaryBranch
<1> QED
    BY <1>1, <1>2, <1>3 DEF His!Before

LEMMA HistoryPaired ==
    ASSUME Tree, Attached, Numbered, Counted, Earlier, His!HistoryBound,
           NEW r \in His!Requests, NEW chosen \in His!Answers \cup {None},
           chosen # None => ans[chosen].request = r
    PROVE  His!History(r, chosen) \subseteq His!Messages /\ Paired(His!History(r, chosen), chosen)
<1> DEFINE b == req[r].branch
           seen == His!Visible(b)
           K == {m \in seen : His!Kept(m, r, seen, chosen)}
           Behind(m) == {n \in K : His!Before(m, n)}
<1>1. His!History(r, chosen) = His!Last(K) /\ His!Last(K) \subseteq K /\ K \subseteq His!Messages /\ b \in His!Branches
    BY DEF His!History, His!Last, His!Visible, Tree, Placed
<1>2. ASSUME NEW m \in His!Messages
      PROVE  /\ m \in RequestId <=> m \in His!Requests
             /\ m \in AnswerId <=> m \in His!Answers
             /\ m \in RequestId <=> m \notin AnswerId
    BY DEF His!Messages, His!Requests, His!Answers, Tree, His!PrimaryBranch
<1>3. chosen \notin RequestId
    BY DEF Tree, His!PrimaryBranch, His!Answers
<1>4. ASSUME NEW m \in K, m \in RequestId
      PROVE  m # r /\ His!SeqOf(m) < His!SeqOf(r)
    BY <1>3, <1>4 DEF His!Kept, His!SeqOf, His!Requests
<1>5. ASSUME NEW m \in K, m \in AnswerId
      PROVE  /\ m \in His!AnswerFor(ans[m].request, seen, chosen) /\ ans[m].request \in seen
             /\ m \in His!Answers /\ His!SeqOf(m) = His!SeqOf(ans[m].request) /\ ans[m].request \in His!Requests
             /\ m = chosen \/ His!SeqOf(m) < His!SeqOf(r)
    <2>1. m \in His!Messages /\ m \notin RequestId /\ m \in His!Answers
        BY <1>1, <1>2, <1>5
    <2>2. m \in His!AnswerFor(ans[m].request, seen, chosen) /\ (m = chosen \/ His!SeqOf(m) < His!SeqOf(r))
        BY <2>1 DEF His!Kept, His!SeqOf, His!Requests
    <2> QED
        BY <1>1, <2>1, <2>2, QuestionVisible, MessagePlace
<1>6. His!QuestionsNumbered
    BY QuestionsApart
<1>7. ASSUME NEW q \in seen, NEW p \in seen, q \in RequestId, p \in RequestId, His!SeqOf(q) = His!SeqOf(p)
      PROVE  q = p
    BY <1>1, <1>6, <1>7 DEF His!QuestionsNumbered, His!SeqOf
<1>8. ASSUME NEW x \in K, NEW y \in K, x \in AnswerId, y \in AnswerId, His!SeqOf(x) = His!SeqOf(y)
      PROVE  x = y
    <2>1. ans[x].request = ans[y].request
        BY <1>5, <1>7, <1>8 DEF His!Requests
    <2> HIDE DEF seen, K
    <2> QED
        BY <1>5, <1>8, <2>1, OneAnswerFor
<1>9. ASSUME NEW x \in K, NEW y \in K, x # y, ~His!Before(x, y)
      PROVE  His!Before(y, x)
    <2>1. x \in His!Messages /\ y \in His!Messages /\ His!SeqOf(x) \in Nat /\ His!SeqOf(y) \in Nat
        BY <1>1, MessagePlace
    <2>2. His!SeqOf(x) = His!SeqOf(y) => x \in AnswerId /\ y \in RequestId
        BY <1>2, <1>7, <1>8, <1>9, <2>1 DEF His!Before
    <2> QED
        BY <1>9, <2>1, <2>2 DEF His!Before
<1>10. IsFiniteSet(K)
    <2>1. IsFiniteSet(His!Messages)
        BY FS_Union DEF His!Messages, Counted
    <2> QED
        BY <1>1, <2>1, FS_Subset
<1>11. ASSUME NEW a \in His!Last(K), NEW x \in His!Last(K), a \in AnswerId, x \in AnswerId,
              ans[a].request = ans[x].request
       PROVE  a = x
    BY <1>1, <1>5, <1>8, <1>11
<1>12. ASSUME NEW a \in His!Last(K), a \in AnswerId, ans[a].request \notin His!Last(K), a # chosen
       PROVE  Cardinality(His!Last(K)) = HistoryLimit /\ \A m \in His!Last(K) \ {a} : His!Before(a, m)
    <2> DEFINE q == ans[a].request
    <2>1. /\ a \in K /\ q \in seen /\ q \in His!Requests /\ q \in His!Messages /\ a \in His!Answers
          /\ His!SeqOf(q) = His!SeqOf(a) /\ His!SeqOf(a) < His!SeqOf(r)
        BY <1>1, <1>5, <1>12 DEF His!Messages
    <2>2. q \in K
        <3>1. His!SeqOf(q) \in Nat /\ His!SeqOf(r) \in Nat /\ His!SeqOf(r) = req[r].seq
            BY <2>1, MessagePlace DEF His!Messages, His!SeqOf, His!Requests
        <3>2. q # r /\ His!SeqOf(q) < req[r].seq
            BY <2>1, <3>1
        <3>3. req[q].answered
            BY <2>1 DEF Attached
        <3>4. req[q].status \in {"COMPLETED", "FAILED"}
            BY <2>1, <3>3 DEF Earlier, Tree, Placed, His!Requests, His!RequestRow
        <3>5. q \in RequestId
            BY <2>1 DEF His!Requests
        <3> QED
            BY <2>1, <3>2, <3>3, <3>4, <3>5 DEF His!Kept
    <2>3. His!Before(q, a)
        BY <2>1, <1>12 DEF His!Before, His!Requests
    <2>4. ASSUME NEW n \in K, n # a, His!Before(q, n) PROVE His!Before(a, n)
        <3> SUFFICES ASSUME His!Before(n, a) PROVE FALSE
            BY <1>9, <2>1, <2>4
        <3>1. His!SeqOf(n) <= His!SeqOf(a) /\ His!SeqOf(q) <= His!SeqOf(n)
            BY <1>1, <2>1, <2>2, <2>4, BeforeOrder
        <3>2. His!SeqOf(n) = His!SeqOf(a)
            BY <1>1, <2>1, <3>1, MessagePlace
        <3>3. n \in RequestId
            BY <1>1, <1>2, <1>8, <1>12, <2>1, <2>4, <3>2
        <3>4. n = q
            BY <1>7, <2>1, <3>2, <3>3 DEF His!Requests
        <3> QED
            BY <2>1, <2>4, <3>4, BeforeOrder
    <2>5. Behind(q) = Behind(a) \cup {a} /\ a \notin Behind(a)
        <3>1. \A n \in K : His!Before(a, n) => His!Before(q, n)
            BY <1>1, <2>1, <2>3, BeforeOrder
        <3>2. ~His!Before(a, a)
            BY <1>1, <2>1, BeforeOrder
        <3> QED
            BY <2>1, <2>3, <2>4, <3>1, <3>2
    <2>6. \A m : IsFiniteSet(Behind(m)) /\ Cardinality(Behind(m)) \in Nat
        <3>1. \A m : Behind(m) \subseteq K
            OBVIOUS
        <3> HIDE DEF Behind, K
        <3> QED
            BY <1>10, <3>1, FS_Subset, FS_CardinalityType
    <2>7. Cardinality(Behind(q)) = Cardinality(Behind(a)) + 1
        <3> HIDE DEF Behind, K, q
        <3> QED
            BY <2>5, <2>6, FS_AddElement
    <2>8. \A m \in K : m \in His!Last(K) <=> Cardinality(Behind(m)) < HistoryLimit
        BY BranchCardinal DEF His!Last
    <2>9. Cardinality(Behind(q)) = HistoryLimit
        <3>1. Cardinality(Behind(a)) < HistoryLimit /\ ~(Cardinality(Behind(q)) < HistoryLimit)
            BY <1>12, <2>1, <2>2, <2>8
        <3> HIDE DEF Behind, K, q
        <3> QED
            BY <2>6, <2>7, <3>1 DEF His!HistoryBound
    <2>10. ASSUME NEW m \in Behind(q) PROVE m \in His!Last(K)
        <3>1. m \in K /\ His!Before(q, m)
            OBVIOUS
        <3>2. Behind(m) \subseteq Behind(q) \ {m}
            BY <1>1, <2>2, <3>1, BeforeOrder
        <3>3. Cardinality(Behind(q) \ {m}) = Cardinality(Behind(q)) - 1
            <4> HIDE DEF Behind, K, q
            <4> QED
                BY <2>6, <2>10, FS_RemoveElement
        <3>4. Cardinality(Behind(m)) <= Cardinality(Behind(q) \ {m})
            <4>1. IsFiniteSet(Behind(q) \ {m})
                <5> HIDE DEF Behind, K, q
                <5> QED
                    BY <2>6, FS_Subset
            <4> HIDE DEF Behind, K, q
            <4> QED
                BY <3>2, <4>1, FS_Subset
        <3>5. Cardinality(Behind(m)) < HistoryLimit
            <4> HIDE DEF Behind, K, q
            <4> QED
                BY <2>6, <2>9, <3>3, <3>4 DEF His!HistoryBound
        <3> QED
            BY <2>8, <3>1, <3>5
    <2>11. ASSUME NEW m \in His!Last(K) PROVE m \in Behind(q)
        <3> SUFFICES ASSUME ~His!Before(q, m) PROVE FALSE
            BY <1>1
        <3>1. m \in K /\ m # q
            BY <1>1, <1>12
        <3>2. His!Before(m, q)
            BY <1>9, <2>2, <3>1
        <3>3. Behind(q) \subseteq Behind(m)
            BY <1>1, <2>2, <3>1, <3>2, BeforeOrder
        <3>4. Cardinality(Behind(q)) <= Cardinality(Behind(m))
            <4> HIDE DEF Behind, K, q
            <4> QED
                BY <2>6, <3>3, FS_Subset
        <3>5. Cardinality(Behind(m)) < HistoryLimit
            BY <2>8, <3>1
        <3> HIDE DEF Behind, K, q
        <3> QED
            BY <2>6, <2>9, <3>4, <3>5 DEF His!HistoryBound
    <2>12. His!Last(K) = Behind(q)
        BY <2>10, <2>11, <1>1
    <2>13. \A m \in His!Last(K) \ {a} : His!Before(a, m)
        BY <2>4, <2>11
    <2> QED
        BY <2>9, <2>12, <2>13
<1> QED
    <2> HIDE DEF K
    <2> QED
        BY <1>1, <1>11, <1>12 DEF Paired

-----------------------------------------------------------------------------
(* What steps leave alone *)

\* Rows keep their place; answers are never changed.
BranchesGrow ==
           /\ \A r \in His!Requests :
                /\ r \in His!Requests'
                /\ req'[r].branch = req[r].branch /\ req'[r].seq = req[r].seq
                /\ req[r].answered => req'[r].answered
           /\ \A a \in His!Answers : a \in His!Answers' /\ ans'[a] = ans[a]

\* A step that asks nothing changes nothing of a request but its flags and status.
Flags ==
    /\ branch' = branch /\ active' \in His!Branches
    /\ req' \in [RequestId -> His!RequestRow \cup {None}] /\ His!Requests' = His!Requests
    /\ \A r \in His!Requests : req'[r].branch = req[r].branch /\ req'[r].seq = req[r].seq

\* A step that asks a question adds one request, answered by nobody yet.
Asks(r, b, n) ==
    /\ r \in RequestId \ His!Requests
    /\ req' = [req EXCEPT ![r] = [branch |-> b, seq |-> n, status |-> "PROCESSING",
                                  busy |-> TRUE, failed |-> FALSE, answered |-> FALSE]]
    /\ active' = b /\ ans' = ans

Sound == Tree /\ Numbered /\ Topped /\ Attached

\* A number no message of the branch has reached.
LEMMA NextHigher ==
    ASSUME Sound, NEW b \in His!Branches
    PROVE  /\ His!NextSeq(b) \in Nat
           /\ \A r \in His!Requests : req[r].branch = b => req[r].seq < His!NextSeq(b)
<1> DEFINE T == {His!SeqOf(m) : m \in {x \in His!Messages : His!BranchOf(x) = b}} \cup {0}
           Top(n) == \A m \in His!Messages : His!BranchOf(m) = b => His!SeqOf(m) <= n
<1>1. \A m \in His!Messages : His!SeqOf(m) \in Nat
    BY MessagePlace DEF Sound
<1>2. ASSUME NEW m \in His!Messages, His!BranchOf(m) = b
      PROVE  \E r \in His!Requests : req[r].branch = b /\ req[r].seq = His!SeqOf(m)
    <2>1. CASE m \in His!Requests
        BY <1>2, <2>1, MessagePlace DEF Sound
    <2>2. CASE m \in His!Answers
        <3>1. /\ ans[m].request \in His!Requests /\ His!BranchOf(ans[m].request) = b
              /\ His!SeqOf(ans[m].request) = His!SeqOf(m)
            BY <1>2, <2>2, MessagePlace DEF Sound
        <3> QED
            BY <3>1 DEF His!BranchOf, His!SeqOf, His!Requests
    <2> QED
        BY <2>1, <2>2 DEF His!Messages
<1>3. ASSUME NEW r \in His!Requests
      PROVE  r \in His!Messages /\ His!BranchOf(r) = req[r].branch /\ His!SeqOf(r) = req[r].seq
    BY DEF His!Messages, His!BranchOf, His!SeqOf, His!Requests
<1>4. \E n \in T : Top(n)
    <2>1. CASE \A r \in His!Requests : req[r].branch # b
        BY <1>2, <2>1
    <2>2. ASSUME NEW r \in His!Requests, req[r].branch = b,
                 \A q \in His!Requests : req[q].branch = b => req[q].seq <= req[r].seq
          PROVE  \E n \in T : Top(n)
        <3>1. req[r].seq \in T
            BY <1>3, <2>2
        <3>2. Top(req[r].seq)
            BY <1>2, <2>2
        <3> QED
            BY <3>1, <3>2
    <2> QED
        BY <2>1, <2>2 DEF Sound, Topped
<1> DEFINE n == CHOOSE n \in T : Top(n)
<1>5. n \in T /\ Top(n)
    <2> HIDE DEF T, Top
    <2> QED
        BY <1>4
<1>6. His!NextSeq(b) = 1 + n
    BY DEF His!NextSeq
<1>7. n \in Nat
    BY <1>1, <1>5
<1>8. \A r \in His!Requests : req[r].branch = b => req[r].seq <= n /\ req[r].seq \in Nat
    BY <1>3, <1>5 DEF Sound, Tree, Placed
<1> HIDE DEF n
<1> QED
    BY <1>6, <1>7, <1>8

LEMMA SendAsks ==
    ASSUME NEW h \in Handler, NEW r \in RequestId, NEW b \in Branch, His!Send(h, r, b)
    PROVE  Asks(r, b, His!NextSeq(b)) /\ b \in His!Branches /\ branch' = branch
BY DEF His!Send, His!NewRequest, Asks, His!Requests

LEMMA EditAsks ==
    ASSUME NEW h \in Handler, NEW old \in RequestId, NEW r \in RequestId, NEW b \in Branch,
           His!Edit(h, old, r, b)
    PROVE  /\ Asks(r, b, req[old].seq) /\ old \in His!Requests /\ b \in Branch \ His!Branches
           /\ branch' = [branch EXCEPT ![b] = [parent |-> req[old].branch, point |-> old]]
BY DEF His!Edit, His!NewRequest, Asks, His!Requests, His!Branches

\* The row of a request whose attempt has ended.
Completed(row, type) ==
    [row EXCEPT !.busy = FALSE, !.answered = TRUE,
                !.status = IF type = "ORIGINAL" THEN "COMPLETED" ELSE @]
FailedRequest(row, type) ==
           [row EXCEPT !.busy = FALSE, !.failed = TRUE,
                       !.status = IF type = "ORIGINAL" THEN "FAILED" ELSE @]

LEMMA EndedRows ==
    ASSUME NEW row \in His!RequestRow, NEW type
    PROVE  LET c == Completed(row, type)
               f == FailedRequest(row, type)
           IN  /\ c \in His!RequestRow /\ f \in His!RequestRow
               /\ c.branch = row.branch /\ c.seq = row.seq /\ ~c.busy /\ c.answered
               /\ c.status = IF type = "ORIGINAL" THEN "COMPLETED" ELSE row.status
               /\ f.branch = row.branch /\ f.seq = row.seq /\ ~f.busy
               /\ f.answered = row.answered
               /\ f.status = IF type = "ORIGINAL" THEN "FAILED" ELSE row.status
<1>1. PICK st : st = IF type = "ORIGINAL" THEN "COMPLETED" ELSE row.status
    OBVIOUS
<1>2. PICK sf : sf = IF type = "ORIGINAL" THEN "FAILED" ELSE row.status
    OBVIOUS
<1>3. {st, sf} \subseteq {"PROCESSING", "COMPLETED", "FAILED"}
    BY <1>1, <1>2 DEF His!RequestRow
<1> DEFINE c == [row EXCEPT !.busy = FALSE, !.answered = TRUE, !.status = st]
           f == [row EXCEPT !.busy = FALSE, !.failed = TRUE, !.status = sf]
<1>4. c = Completed(row, type) /\ f = FailedRequest(row, type)
    BY <1>1, <1>2 DEF Completed, FailedRequest
<1>5. /\ c.branch = row.branch /\ c.seq = row.seq /\ ~c.busy /\ c.answered /\ c.status = st
      /\ f.branch = row.branch /\ f.seq = row.seq /\ ~f.busy /\ f.answered = row.answered
      /\ f.status = sf
    BY DEF His!RequestRow
<1>6. c \in His!RequestRow /\ f \in His!RequestRow
    BY <1>3 DEF His!RequestRow
<1> HIDE DEF c, f
<1> QED
    BY <1>1, <1>2, <1>4, <1>5, <1>6

LEMMA CompleteEnds ==
    ASSUME Tree, NEW h \in Handler, NEW a \in AnswerId, His!Complete(h, a), task[h].request \in His!Requests
    PROVE  req' = [req EXCEPT ![task[h].request] = Completed(req[task[h].request], task[h].type)]
<1>1. req \in [RequestId -> His!RequestRow \cup {None}] /\ req[task[h].request] \in His!RequestRow
    BY DEF Tree, Placed, His!Requests
<1> QED
    BY <1>1 DEF His!Complete, Completed

LEMMA FailEnds ==
    ASSUME Tree, NEW h \in Handler, His!FailAttempt(h), task[h].request \in His!Requests
    PROVE  req' = [req EXCEPT ![task[h].request] = FailedRequest(req[task[h].request], task[h].type)]
<1>1. req \in [RequestId -> His!RequestRow \cup {None}] /\ req[task[h].request] \in His!RequestRow
    BY DEF Tree, Placed, His!Requests
<1> QED
    BY <1>1 DEF His!FailAttempt, FailedRequest

FlagStep(h) ==
    \/ \E r \in RequestId : His!Retry(h, r)
    \/ \E r \in RequestId, a \in His!Answers \cup {None} : His!Regenerate(h, r, a)
    \/ \E a \in AnswerId : His!Complete(h, a)
    \/ His!ReadHistory(h) \/ His!FailAttempt(h)

LEMMA FlagSteps ==
    ASSUME Tree, Worked, \/ \E b \in Branch : His!Activate(b)
                         \/ \E h \in Handler : FlagStep(h)
    PROVE  Flags
<1> USE DEF Flags
<1>1. req \in [RequestId -> His!RequestRow \cup {None}] /\ active \in His!Branches /\ None \notin RequestId
    BY DEF Tree, Placed, Rooted, His!PrimaryBranch
<1>2. ASSUME NEW r \in His!Requests
      PROVE  r \in RequestId /\ req[r] \in His!RequestRow /\ req[r] # None
    BY <1>1 DEF His!Requests
<1>3. CASE UNCHANGED <<branch, req>> /\ active' \in His!Branches
    BY <1>1, <1>3 DEF His!Requests
<1>4. ASSUME NEW r \in His!Requests, NEW row \in His!RequestRow, branch' = branch, active' = active,
             req' = [req EXCEPT ![r] = row], row.branch = req[r].branch, row.seq = req[r].seq
      PROVE  Flags
    <2>1. req' \in [RequestId -> His!RequestRow \cup {None}] /\ row # None
        BY <1>1, <1>2, <1>4 DEF Tree, His!NullIsNoRow
    <2>2. \A q \in RequestId : req'[q] = IF q = r THEN row ELSE req[q]
        BY <1>1, <1>2, <1>4
    <2>3. His!Requests' = His!Requests
        BY <1>2, <2>1, <2>2 DEF His!Requests
    <2> QED
        BY <1>1, <1>2, <1>4, <2>1, <2>2, <2>3
<1>5. ASSUME NEW b \in Branch, His!Activate(b) PROVE Flags
    BY <1>3, <1>5 DEF His!Activate
<1>6. ASSUME NEW h \in Handler, His!ReadHistory(h) PROVE Flags
    BY <1>1, <1>3, <1>6 DEF His!ReadHistory
<1>7. ASSUME NEW h \in Handler, NEW r \in RequestId,
             His!Retry(h, r) \/ \E a \in His!Answers \cup {None} : His!Regenerate(h, r, a)
      PROVE  Flags
    <2> DEFINE row == [req[r] EXCEPT !.busy = TRUE]
    <2>1. r \in His!Requests /\ branch' = branch /\ active' = active /\ req' = [req EXCEPT ![r].busy = TRUE]
        BY <1>7 DEF His!Retry, His!Regenerate
    <2>2. row \in His!RequestRow /\ row.branch = req[r].branch /\ row.seq = req[r].seq
        BY <1>2, <2>1 DEF His!RequestRow
    <2>3. req' = [req EXCEPT ![r] = row]
        BY <2>1
    <2> HIDE DEF row
    <2> QED
        BY <1>4, <2>1, <2>2, <2>3
<1>8. ASSUME NEW h \in Handler, His!FailAttempt(h) \/ \E a \in AnswerId : His!Complete(h, a)
      PROVE  Flags
    <2> DEFINE r == task[h].request
    <2>1. task[h] # His!Idle /\ branch' = branch /\ active' = active
        BY <1>8 DEF His!FailAttempt, His!Complete
    <2>2. r \in His!Requests
        BY <2>1 DEF Worked
    <2>3. /\ Completed(req[r], task[h].type) \in His!RequestRow
          /\ Completed(req[r], task[h].type).branch = req[r].branch
          /\ Completed(req[r], task[h].type).seq = req[r].seq
          /\ FailedRequest(req[r], task[h].type) \in His!RequestRow
          /\ FailedRequest(req[r], task[h].type).branch = req[r].branch
          /\ FailedRequest(req[r], task[h].type).seq = req[r].seq
        BY <1>2, <2>2, EndedRows
    <2>4. \/ req' = [req EXCEPT ![r] = Completed(req[r], task[h].type)]
          \/ req' = [req EXCEPT ![r] = FailedRequest(req[r], task[h].type)]
        BY <1>8, <2>2, CompleteEnds, FailEnds
    <2> HIDE DEF r
    <2> QED
        BY <1>4, <2>1, <2>2, <2>3, <2>4
<1> QED
    BY <1>3, <1>5, <1>6, <1>7, <1>8 DEF FlagStep

-----------------------------------------------------------------------------
(* The tree of branches *)

LEMMA TreeStays ==
    ASSUME Sound, Flags
    PROVE  Tree' /\ Numbered' /\ Topped'
<1> USE DEF Sound, Tree, Flags
<1>1. His!Branches' = His!Branches
    BY DEF His!Branches
<1>2. \A b \in His!Branches : Parent(b)' = Parent(b) /\ branch'[b].point = branch[b].point
    BY DEF Parent
<1>3. \A b \in His!Branches \ {Primary} : Cut(b)' = Cut(b)
    BY <1>2, PointPlace DEF Cut
<1>4. Rooted'
    BY <1>1, <1>2 DEF Rooted
<1>5. Grounded'
    BY <1>1, <1>2 DEF Grounded
<1>6. Placed'
    <2>1. \A r \in His!Requests : req[r].branch \in His!Branches
        BY DEF Placed
    <2> QED
        BY <1>1, <1>3, <2>1 DEF Placed
<1>7. Numbered' /\ Topped'
    BY <1>1 DEF Numbered, Topped
<1> QED
    BY <1>4, <1>5, <1>6, <1>7

\* A request that is asked is one row more.
LEMMA AskedRow ==
    ASSUME Tree, NEW r, NEW b \in Branch, NEW n \in Nat, Asks(r, b, n)
    PROVE  /\ req' \in [RequestId -> His!RequestRow \cup {None}]
           /\ His!Requests' = His!Requests \cup {r} /\ r \notin His!Requests
           /\ req'[r].branch = b /\ req'[r].seq = n /\ req'[r].status = "PROCESSING"
           /\ req'[r].busy /\ ~req'[r].answered
           /\ \A q \in His!Requests : req'[q] = req[q]
<1> DEFINE row == [branch |-> b, seq |-> n, status |-> "PROCESSING",
                   busy |-> TRUE, failed |-> FALSE, answered |-> FALSE]
<1>1. req \in [RequestId -> His!RequestRow \cup {None}] /\ r \in RequestId /\ r \notin His!Requests
    BY DEF Tree, Placed, Asks
<1>2. row \in His!RequestRow
    BY DEF His!RequestRow
<1>3. row # None
    BY <1>2 DEF Tree, His!NullIsNoRow
<1>4. /\ row.branch = b /\ row.seq = n /\ row.status = "PROCESSING"
      /\ row.busy /\ ~row.answered
    OBVIOUS
<1>5. req' = [req EXCEPT ![r] = row]
    BY DEF Asks
<1> HIDE DEF row
<1>6. req' \in [RequestId -> His!RequestRow \cup {None}]
    BY <1>1, <1>2, <1>5
<1>7. \A q \in RequestId : req'[q] = IF q = r THEN row ELSE req[q]
    BY <1>1, <1>5
<1> QED
    BY <1>1, <1>3, <1>4, <1>6, <1>7 DEF His!Requests

LEMMA TreeSent ==
    ASSUME Sound, NEW r, NEW b \in His!Branches, Asks(r, b, His!NextSeq(b)), branch' = branch
    PROVE  Tree' /\ Numbered' /\ Topped'
<1> DEFINE n == His!NextSeq(b)
<1>0. b \in Branch
    BY DEF His!Branches
<1>1. /\ n \in Nat
      /\ \A q \in His!Requests : req[q].branch = b => req[q].seq < n
    BY NextHigher
<1> HIDE DEF n
<1>2. /\ req' \in [RequestId -> His!RequestRow \cup {None}]
      /\ His!Requests' = His!Requests \cup {r} /\ r \notin His!Requests
      /\ req'[r].branch = b /\ req'[r].seq = n
      /\ \A q \in His!Requests : req'[q] = req[q]
    BY <1>0, <1>1, AskedRow DEF n, Sound
<1>3. His!Branches' = His!Branches /\ active' = b
    BY DEF His!Branches, Asks
<1>4. \A c \in His!Branches : Parent(c)' = Parent(c) /\ branch'[c].point = branch[c].point
    BY DEF Parent
<1>5. \A c \in His!Branches \ {Primary} : Cut(c)' = Cut(c)
    BY <1>2, <1>4, PointPlace DEF Cut, Sound
<1>6. Rooted'
    BY <1>2, <1>3, <1>4 DEF Sound, Tree, Rooted
<1>7. Grounded'
    BY <1>3, <1>4 DEF Sound, Tree, Grounded
<1>8. Placed'
    <2>1. b # Primary => Cut(b) <= n
        <3> SUFFICES ASSUME b # Primary PROVE Cut(b) <= n
            OBVIOUS
        <3>1. PICK q \in His!Requests : req[q].branch = b
            BY DEF Sound, Tree, Placed
        <3>2. Cut(b) <= req[q].seq /\ req[q].seq < n /\ req[q].seq \in Nat
            BY <1>1, <3>1 DEF Sound, Tree, Placed
        <3> QED
            BY <1>1, <3>2, PointPlace DEF Sound
    <2>2. \A q \in His!Requests : req[q].branch \in His!Branches /\ req[q].seq \in Nat
        BY DEF Sound, Tree, Placed
    <2>3. \A q \in His!Requests : req[q].branch # Primary => Cut(req[q].branch) <= req[q].seq
        BY DEF Sound, Tree, Placed
    <2>4. \A q \in His!Requests' : req'[q].branch \in His!Branches' /\ req'[q].seq \in Nat
        BY <1>1, <1>2, <1>3, <2>2
    <2>5. \A q \in His!Requests' : req'[q].branch # Primary => Cut(req[q].branch)' <= req'[q].seq
        <3> SUFFICES ASSUME NEW q \in His!Requests', req'[q].branch # Primary
                     PROVE  Cut(req[q].branch)' <= req'[q].seq
            OBVIOUS
        <3>1. CASE q = r
            <4>1. Cut(req[q].branch)' = Cut(b)
                BY <1>2, <1>5, <3>1 DEF Cut
            <4> QED
                BY <1>2, <2>1, <3>1, <4>1
        <3>2. CASE q \in His!Requests
            <4>1. Cut(req[q].branch)' = Cut(req[q].branch)
                BY <1>2, <1>5, <2>2, <3>2 DEF Cut
            <4> QED
                BY <1>2, <2>3, <3>2, <4>1
        <3> QED
            BY <1>2, <3>1, <3>2
    <2>6. \A c \in His!Branches' \ {Primary} : \E q \in His!Requests' : req'[q].branch = c
        BY <1>2, <1>3 DEF Sound, Tree, Placed
    <2> QED
        BY <1>2, <2>4, <2>5, <2>6 DEF Placed
<1>9. Numbered'
    BY <1>1, <1>2 DEF Sound, Numbered, Tree, Placed
<1>10. Topped'
    <2> SUFFICES ASSUME NEW c \in His!Branches
                 PROVE  \/ \A q \in His!Requests' : req'[q].branch # c
                        \/ \E q \in His!Requests' :
                             /\ req'[q].branch = c
                             /\ \A p \in His!Requests' : req'[p].branch = c => req'[p].seq <= req'[q].seq
        BY <1>3 DEF Topped
    <2>1. CASE c = b
        <3>1. \A p \in His!Requests' : req'[p].branch = c => req'[p].seq <= req'[r].seq
            BY <1>1, <1>2, <2>1 DEF Sound, Tree, Placed
        <3> QED
            BY <1>2, <2>1, <3>1
    <2>2. CASE c # b
        BY <1>2, <2>2 DEF Sound, Topped
    <2> QED
        BY <2>1, <2>2
<1> QED
    BY <1>6, <1>7, <1>8, <1>9, <1>10 DEF Sound, Tree

\* A branch that is opened is one row more, and the first message of it takes the number of
\* the one it replaces.
LEMMA TreeEdited ==
    ASSUME Sound, NEW old \in His!Requests, NEW r, NEW b \in Branch \ His!Branches,
           Asks(r, b, req[old].seq),
           branch' = [branch EXCEPT ![b] = [parent |-> req[old].branch, point |-> old]]
    PROVE  Tree' /\ Numbered' /\ Topped'
<1> DEFINE row == [parent |-> req[old].branch, point |-> old]
<1>1. PICK n : n = req[old].seq
    OBVIOUS
<1>2. PICK p : p = req[old].branch
    OBVIOUS
<1>3. n \in Nat /\ p \in His!Branches /\ p \in Branch /\ p # None /\ p # b /\ b # None /\ b # Primary
    BY <1>1, <1>2 DEF Sound, Tree, Placed, Rooted, His!PrimaryBranch, His!Branches
<1>4. /\ req' \in [RequestId -> His!RequestRow \cup {None}]
      /\ His!Requests' = His!Requests \cup {r} /\ r \notin His!Requests
      /\ req'[r].branch = b /\ req'[r].seq = n
      /\ \A q \in His!Requests : req'[q] = req[q]
    BY <1>1, <1>3, AskedRow DEF Sound
<1>5. row \in His!BranchRow /\ row.parent = p /\ row.point = old
    BY <1>2, <1>3 DEF His!BranchRow, His!Requests
<1>6. row # None
    BY <1>5 DEF Sound, Tree, His!NullIsNoRow
<1>7. branch' = [branch EXCEPT ![b] = row] /\ branch \in [Branch -> His!BranchRow \cup {None}]
    BY DEF Sound, Tree, Rooted
<1> HIDE DEF row
<1>8. /\ branch' \in [Branch -> His!BranchRow \cup {None}]
      /\ \A c \in Branch : branch'[c] = IF c = b THEN row ELSE branch[c]
    BY <1>5, <1>7
<1>9. His!Branches' = His!Branches \cup {b}
    BY <1>6, <1>8 DEF His!Branches
<1>10. \A c \in His!Branches : Parent(c)' = Parent(c) /\ branch'[c].point = branch[c].point
    BY <1>8 DEF Parent, His!Branches
<1>11. Parent(b)' = p /\ branch'[b].point = old /\ active' = b
    BY <1>5, <1>8 DEF Parent, Asks
<1>12. \A c \in His!Branches \ {Primary} : Cut(c)' = Cut(c)
    BY <1>4, <1>10, PointPlace DEF Cut, Sound
<1>13. Cut(b)' = n
    BY <1>1, <1>4, <1>11 DEF Cut
<1>14. Rooted'
    <2>1. Primary \in His!Branches' /\ active' \in His!Branches'
        BY <1>9, <1>11 DEF Sound, Tree, Rooted
    <2>2. \A c \in His!Branches' : Parent(c)' = None <=> c = Primary
        BY <1>3, <1>9, <1>10, <1>11 DEF Sound, Tree, Rooted
    <2>3. ASSUME NEW c \in His!Branches' \ {Primary}
          PROVE  /\ Parent(c)' \in His!Branches' /\ Parent(c)' # c
                 /\ branch'[c].point \in His!Requests' /\ req'[branch'[c].point].branch = Parent(c)'
        <3>1. CASE c = b
            BY <1>2, <1>3, <1>4, <1>9, <1>11, <3>1
        <3>2. CASE c \in His!Branches
            BY <1>4, <1>9, <1>10, <2>3, <3>2 DEF Sound, Tree, Rooted
        <3> QED
            BY <1>9, <3>1, <3>2
    <2> QED
        BY <1>8, <2>1, <2>2, <2>3 DEF Rooted
<1>15. Grounded'
    <2> SUFFICES ASSUME NEW S \in SUBSET (His!Branches \cup {b}), S # {}
                 PROVE  \E c \in S : Parent(c)' \notin S
        BY <1>9 DEF Grounded
    <2>1. CASE S \ {b} = {}
        BY <1>3, <1>11, <2>1
    <2>2. CASE S \ {b} # {}
        <3>1. S \ {b} \in SUBSET His!Branches
            OBVIOUS
        <3>2. PICK c \in S \ {b} : Parent(c) \notin S \ {b}
            BY <2>2, <3>1 DEF Sound, Tree, Grounded
        <3>3. c \in His!Branches
            BY <3>1, <3>2
        <3>4. Parent(c) # b
            BY <1>3, <3>3 DEF Sound, Tree, Rooted
        <3> QED
            BY <1>10, <3>2, <3>3, <3>4
    <2> QED
        BY <2>1, <2>2
<1>16. Placed'
    <2>1. \A q \in His!Requests : /\ req[q].branch \in His!Branches /\ req[q].seq \in Nat
                                  /\ req[q].branch # Primary => Cut(req[q].branch) <= req[q].seq
        BY DEF Sound, Tree, Placed
    <2>2. \A q \in His!Requests' : req'[q].branch \in His!Branches' /\ req'[q].seq \in Nat
        BY <1>3, <1>4, <1>9, <2>1
    <2>3. ASSUME NEW q \in His!Requests', req'[q].branch # Primary
          PROVE  Cut(req[q].branch)' <= req'[q].seq
        <3>1. CASE q = r
            <4>1. Cut(req[q].branch)' = n
                BY <1>4, <1>13, <3>1 DEF Cut
            <4> QED
                BY <1>3, <1>4, <3>1, <4>1
        <3>2. CASE q \in His!Requests
            <4>1. Cut(req[q].branch)' = Cut(req[q].branch)
                BY <1>4, <1>12, <2>1, <2>3, <3>2 DEF Cut
            <4> QED
                BY <1>4, <2>1, <2>3, <3>2, <4>1
        <3> QED
            BY <1>4, <3>1, <3>2
    <2>4. \A c \in His!Branches' \ {Primary} : \E q \in His!Requests' : req'[q].branch = c
        BY <1>4, <1>9 DEF Sound, Tree, Placed
    <2> QED
        BY <1>4, <2>2, <2>3, <2>4 DEF Placed
<1>17. \A q \in His!Requests : req[q].branch # b
    BY DEF Sound, Tree, Placed
<1>18. Numbered'
    BY <1>4, <1>17 DEF Sound, Numbered
<1>19. Topped'
    <2> SUFFICES ASSUME NEW c \in His!Branches'
                 PROVE  \/ \A q \in His!Requests' : req'[q].branch # c
                        \/ \E q \in His!Requests' :
                             /\ req'[q].branch = c
                             /\ \A x \in His!Requests' : req'[x].branch = c => req'[x].seq <= req'[q].seq
        BY DEF Topped
    <2>1. CASE c = b
        BY <1>3, <1>4, <1>17, <2>1
    <2>2. CASE c # b /\ c \in His!Branches
        BY <1>4, <2>2 DEF Sound, Topped
    <2> QED
        BY <1>9, <2>1, <2>2
<1> QED
    BY <1>14, <1>15, <1>16, <1>18, <1>19 DEF Sound, Tree

-----------------------------------------------------------------------------
(* His!Answers and attempts *)

LEMMA AnsweredRow ==
    ASSUME Tree, Attached, Counted, NEW r \in His!Requests, NEW a \in AnswerId \ His!Answers,
           ans' = [ans EXCEPT ![a] =
             [request |-> r, variant |-> 1 + Cardinality({x \in His!Answers : ans[x].request = r}),
              branch |-> req[r].branch, seq |-> req[r].seq]]
    PROVE  /\ ans' \in [AnswerId -> His!AnswerRow \cup {None}]
           /\ His!Answers' = His!Answers \cup {a}
           /\ ans'[a].request = r /\ ans'[a].branch = req[r].branch /\ ans'[a].seq = req[r].seq
           /\ ans'[a].variant = 1 + Cardinality({x \in His!Answers : ans[x].request = r})
           /\ ans'[a].variant \in Nat
           /\ \A x \in His!Answers : ans'[x] = ans[x]
<1>1. PICK n : n = 1 + Cardinality({x \in His!Answers : ans[x].request = r})
    OBVIOUS
<1>2. n \in Nat
    <2>1. {x \in His!Answers : ans[x].request = r} \in SUBSET His!Answers
        OBVIOUS
    <2>2. Cardinality({x \in His!Answers : ans[x].request = r}) \in Nat
        BY <2>1, FS_Subset, FS_CardinalityType DEF Counted
    <2> QED
        BY <1>1, <2>2
<1> DEFINE row == [request |-> r, variant |-> n, branch |-> req[r].branch, seq |-> req[r].seq]
<1>3. row \in His!AnswerRow
    BY <1>2 DEF His!AnswerRow, His!Requests, Tree, Placed, His!Branches
<1>4. /\ row.request = r /\ row.variant = n /\ row.branch = req[r].branch /\ row.seq = req[r].seq
    OBVIOUS
<1>5. ans' = [ans EXCEPT ![a] = row]
    BY <1>1
<1> HIDE DEF row
<1>6. row # None
    BY <1>3 DEF Tree, His!NullIsNoRow
<1>7. ans \in [AnswerId -> His!AnswerRow \cup {None}]
    BY DEF Attached
<1>8. /\ ans' \in [AnswerId -> His!AnswerRow \cup {None}]
      /\ \A x \in AnswerId : ans'[x] = IF x = a THEN row ELSE ans[x]
    BY <1>3, <1>5, <1>7
<1> QED
    BY <1>1, <1>2, <1>4, <1>6, <1>8 DEF His!Answers

LEMMA AttachedStays ==
    ASSUME Attached, BranchesGrow, ans' = ans
    PROVE  Attached'
<1>1. His!Answers' = His!Answers
    BY DEF His!Answers
<1>2. ASSUME NEW a \in His!Answers
      PROVE  /\ ans[a].request \in His!Requests' /\ ans[a].variant \in Nat
             /\ ans[a].branch = req'[ans[a].request].branch
             /\ ans[a].seq = req'[ans[a].request].seq
             /\ req'[ans[a].request].answered
    <2>1. PICK r : r = ans[a].request
        OBVIOUS
    <2>2. /\ r \in His!Requests /\ ans[a].variant \in Nat /\ ans[a].branch = req[r].branch
          /\ ans[a].seq = req[r].seq /\ req[r].answered
        BY <2>1 DEF Attached
    <2>3. /\ r \in His!Requests' /\ req'[r].branch = req[r].branch /\ req'[r].seq = req[r].seq
          /\ req'[r].answered
        BY <2>2 DEF BranchesGrow
    <2> QED
        BY <2>1, <2>2, <2>3
<1> QED
    BY <1>1, <1>2 DEF Attached

LEMMA AnswerAdded ==
    ASSUME Tree, Attached, Counted, BranchesGrow, Flags, NEW r \in His!Requests, NEW a \in AnswerId \ His!Answers,
           req'[r].answered,
           ans' = [ans EXCEPT ![a] =
             [request |-> r, variant |-> 1 + Cardinality({x \in His!Answers : ans[x].request = r}),
              branch |-> req[r].branch, seq |-> req[r].seq]]
    PROVE  Attached' /\ Counted'
<1> DEFINE For(q) == {x \in His!Answers : ans[x].request = q}
<1>1. /\ ans' \in [AnswerId -> His!AnswerRow \cup {None}]
      /\ His!Answers' = His!Answers \cup {a}
      /\ ans'[a].request = r /\ ans'[a].branch = req[r].branch /\ ans'[a].seq = req[r].seq
      /\ ans'[a].variant = 1 + Cardinality(For(r))
      /\ ans'[a].variant \in Nat
      /\ \A x \in His!Answers : ans'[x] = ans[x]
    BY AnsweredRow
<1>2. \A q \in His!Requests : /\ q \in His!Requests' /\ req'[q].branch = req[q].branch /\ req'[q].seq = req[q].seq
                              /\ req[q].answered => req'[q].answered
    BY DEF BranchesGrow
<1>3. ASSUME NEW x \in His!Answers'
      PROVE  /\ ans'[x].request \in His!Requests' /\ ans'[x].variant \in Nat
             /\ ans'[x].branch = req'[ans'[x].request].branch
             /\ ans'[x].seq = req'[ans'[x].request].seq
             /\ req'[ans'[x].request].answered
    <2>1. CASE x = a
        BY <1>1, <1>2, <2>1
    <2>2. CASE x \in His!Answers
        <3>1. PICK q : q = ans[x].request
            OBVIOUS
        <3>2. /\ q \in His!Requests /\ ans[x].variant \in Nat /\ ans[x].branch = req[q].branch
              /\ ans[x].seq = req[q].seq /\ req[q].answered
            BY <2>2, <3>1 DEF Attached
        <3> QED
            BY <1>1, <1>2, <2>2, <3>1, <3>2
    <2> QED
        BY <1>1, <2>1, <2>2
<1>4. Attached'
    BY <1>1, <1>3 DEF Attached
<1>5. \A q : For(q) \in SUBSET His!Answers /\ IsFiniteSet(For(q)) /\ Cardinality(For(q)) \in Nat
    <2>1. \A q : For(q) \in SUBSET His!Answers
        OBVIOUS
    <2> HIDE DEF For
    <2> QED
        BY <2>1, FS_Subset, FS_CardinalityType DEF Counted
<1>6. /\ For(r)' = For(r) \cup {a} /\ a \notin For(r)
      /\ \A q : q # r => {x \in His!Answers' : ans'[x].request = q} = For(q)
    BY <1>1
<1>7. Cardinality(For(r) \cup {a}) = Cardinality(For(r)) + 1
    <2> HIDE DEF For
    <2> QED
        BY <1>5, <1>6, FS_AddElement
<1>8. \A x \in His!Answers : ans[x].variant \in Nat /\ ans[x].variant <= Cardinality(For(ans[x].request))
    BY DEF Attached, Counted
<1>9. IsFiniteSet(His!Requests') /\ IsFiniteSet(His!Answers')
    BY <1>1, FS_AddElement DEF Counted, Flags
<1>10. ASSUME NEW x \in His!Answers', NEW y \in His!Answers',
              ans'[x].request = ans'[y].request, ans'[x].variant = ans'[y].variant
       PROVE  x = y
    <2>1. ASSUME NEW z \in His!Answers, ans[z].request = r
          PROVE  ans[z].variant < 1 + Cardinality(For(r))
        <3>1. ans[z].variant <= Cardinality(For(r)) /\ ans[z].variant \in Nat
            BY <1>8, <2>1
        <3> HIDE DEF For
        <3> QED
            BY <1>5, <3>1
    <2> HIDE DEF For
    <2>2. CASE x \in His!Answers /\ y \in His!Answers
        BY <1>1, <1>10, <2>2 DEF Counted
    <2>3. ASSUME NEW z \in His!Answers, ans'[z].request = r, ans'[z].variant = ans'[a].variant
          PROVE  FALSE
        BY <1>1, <1>5, <1>8, <2>1, <2>3
    <2> QED
        BY <1>1, <1>10, <2>2, <2>3
<1>11. ASSUME NEW x \in His!Answers'
       PROVE  ans'[x].variant <= Cardinality({y \in His!Answers' : ans'[y].request = ans'[x].request})
    <2>1. PICK q : q = ans'[x].request
        OBVIOUS
    <2> DEFINE Mine == {y \in His!Answers' : ans'[y].request = q}
    <2>2. CASE q = r
        <3>1. Mine = For(r) \cup {a}
            BY <1>6, <2>2
        <3>2. x \in His!Answers => ans'[x].variant <= Cardinality(For(r)) /\ ans'[x].variant \in Nat
            BY <1>1, <1>8, <2>1, <2>2
        <3> HIDE DEF For, Mine
        <3>3. ans'[x].variant <= Cardinality(Mine)
            BY <1>1, <1>5, <1>7, <3>1, <3>2
        <3> QED
            BY <2>1, <3>3 DEF Mine
    <2>3. CASE q # r
        <3>1. Mine = For(q) /\ x \in His!Answers /\ ans[x].request = q
            BY <1>1, <1>6, <2>1, <2>3
        <3>2. ans'[x].variant <= Cardinality(For(q))
            BY <1>1, <1>8, <3>1
        <3> HIDE DEF For, Mine
        <3>3. ans'[x].variant <= Cardinality(Mine)
            BY <3>1, <3>2
        <3> QED
            BY <2>1, <3>3 DEF Mine
    <2> QED
        BY <2>2, <2>3
<1>12. Counted'
    BY <1>9, <1>10, <1>11 DEF Counted
<1> QED
    BY <1>4, <1>12

-----------------------------------------------------------------------------
(* The attempts being worked on *)

LEMMA TakenRow ==
    ASSUME Tree, NEW r \in His!Requests, req' = [req EXCEPT ![r].busy = TRUE]
    PROVE  /\ req'[r].busy /\ req'[r].status = req[r].status /\ req'[r].answered = req[r].answered
           /\ \A q \in His!Requests \ {r} : req'[q] = req[q]
<1>1. r \in RequestId /\ req[r] \in His!RequestRow /\ req \in [RequestId -> His!RequestRow \cup {None}]
    BY DEF His!Requests, Tree, Placed
<1> QED
    BY <1>1 DEF His!RequestRow, His!Requests

LEMMA FailedRow ==
    ASSUME Tree, NEW h \in Handler, NEW r \in His!Requests, r = task[h].request, His!FailAttempt(h)
    PROVE  /\ ~req'[r].busy /\ req'[r].answered = req[r].answered
           /\ task[h].type = "ORIGINAL" => req'[r].status # "PROCESSING"
           /\ task[h].type # "ORIGINAL" => req'[r].status = req[r].status
           /\ \A q \in His!Requests \ {r} : req'[q] = req[q]
<1>1. r \in RequestId /\ req[r] \in His!RequestRow /\ req \in [RequestId -> His!RequestRow \cup {None}]
    BY DEF His!Requests, Tree, Placed
<1>2. req' = [req EXCEPT ![r] = FailedRequest(req[r], task[h].type)]
    BY FailEnds
<1>3. req'[r] = FailedRequest(req[r], task[h].type) /\ \A q \in His!Requests \ {r} : req'[q] = req[q]
    BY <1>1, <1>2 DEF His!Requests
<1> QED
    BY <1>1, <1>3, EndedRows

LEMMA CompletedRow ==
    ASSUME Tree, NEW h \in Handler, NEW r \in His!Requests, r = task[h].request, NEW a \in AnswerId, His!Complete(h, a)
    PROVE  /\ ~req'[r].busy /\ req'[r].answered
           /\ task[h].type = "ORIGINAL" => req'[r].status # "PROCESSING"
           /\ task[h].type # "ORIGINAL" => req'[r].status = req[r].status
           /\ \A q \in His!Requests \ {r} : req'[q] = req[q]
<1>1. r \in RequestId /\ req[r] \in His!RequestRow /\ req \in [RequestId -> His!RequestRow \cup {None}]
    BY DEF His!Requests, Tree, Placed
<1>2. req' = [req EXCEPT ![r] = Completed(req[r], task[h].type)]
    BY CompleteEnds
<1>3. req'[r] = Completed(req[r], task[h].type) /\ \A q \in His!Requests \ {r} : req'[q] = req[q]
    BY <1>1, <1>2 DEF His!Requests
<1> QED
    BY <1>1, <1>3, EndedRows

LEMMA Taken ==
    ASSUME Tree, Worked, NEW h \in Handler, NEW r \in RequestId, NEW type \in {"ORIGINAL", "RETRY", "REGENERATION"},
           NEW chosen \in AnswerId \cup {None}, His!Take(h, r, type, chosen)
    PROVE  /\ task' \in [Handler -> AttemptRow] /\ task[h] = His!Idle
           /\ task'[h].request = r /\ task'[h].type = type /\ task'[h].chosen = chosen
           /\ task'[h].context = None
           /\ \A g \in Handler \ {h} : task'[g] = task[g]
<1> DEFINE row == [request |-> r, type |-> type, chosen |-> chosen, context |-> None]
<1>1. row \in AttemptRow
    BY DEF AttemptRow
<1>2. /\ row.request = r /\ row.type = type /\ row.chosen = chosen /\ row.context = None
    OBVIOUS
<1>3. task' = [task EXCEPT ![h] = row] /\ task[h] = His!Idle
    BY DEF His!Take
<1> HIDE DEF row
<1> QED
    BY <1>1, <1>2, <1>3 DEF Worked

\* Someone takes an attempt: of a request that has none under way, or of a new one.
LEMMA WorkTaken ==
    ASSUME Tree, Worked, BranchesGrow, NEW h \in Handler, NEW r \in RequestId,
           NEW type \in {"ORIGINAL", "RETRY", "REGENERATION"}, NEW chosen \in His!Answers \cup {None},
           His!Take(h, r, type, chosen),
           His!Requests' = His!Requests \cup {r}, r \in His!Requests => ~req[r].busy,
           \A q \in His!Requests \ {r} : req'[q] = req[q],
           req'[r].busy, req'[r].answered => req'[r].status # "PROCESSING",
           type # "ORIGINAL" => req'[r].status # "PROCESSING",
           chosen # None => ans[chosen].request = r
    PROVE  Worked'
<1>1. /\ task' \in [Handler -> AttemptRow] /\ task[h] = His!Idle
      /\ task'[h].request = r /\ task'[h].type = type /\ task'[h].chosen = chosen
      /\ \A g \in Handler \ {h} : task'[g] = task[g]
    BY Taken DEF His!Answers
<1>2. \A q \in His!Requests' : req'[q].answered \/ ~req'[q].busy => req'[q].status # "PROCESSING"
    BY DEF Worked
<1>3. \A g \in Handler \ {h} : task[g] # His!Idle => task[g].request \in His!Requests \ {r}
    BY DEF Worked
<1>4. \A a \in His!Answers : a \in His!Answers' /\ ans'[a] = ans[a]
    BY DEF BranchesGrow
<1>5. ASSUME NEW g \in Handler, task'[g] # His!Idle
      PROVE  /\ task'[g].request \in His!Requests' /\ req'[task'[g].request].busy
             /\ task'[g].type \in {"ORIGINAL", "RETRY", "REGENERATION"}
             /\ task'[g].type # "ORIGINAL" => req'[task'[g].request].status # "PROCESSING"
             /\ task'[g].chosen # None =>
                  task'[g].chosen \in His!Answers' /\ ans'[task'[g].chosen].request = task'[g].request
    <2>1. CASE g = h
        BY <1>1, <1>4, <2>1
    <2>2. CASE g # h
        BY <1>1, <1>3, <1>4, <1>5, <2>2 DEF Worked
    <2> QED
        BY <2>1, <2>2
<1>6. ASSUME NEW g \in Handler, NEW k \in Handler, task'[g] # His!Idle, task'[k] # His!Idle,
             task'[g].request = task'[k].request
      PROVE  g = k
    <2>1. CASE g # h /\ k # h
        BY <1>1, <1>6, <2>1 DEF Worked
    <2>2. ASSUME NEW x \in Handler \ {h}, task'[x] # His!Idle, task'[x].request = r PROVE FALSE
        BY <1>1, <1>3, <2>2
    <2> QED
        BY <1>1, <1>6, <2>1, <2>2
<1> QED
    BY <1>1, <1>2, <1>5, <1>6 DEF Worked

\* Someone leaves an attempt, which has ended.
LEMMA WorkEnded ==
    ASSUME Tree, Worked, BranchesGrow, Flags, NEW h \in Handler, NEW r \in His!Requests, r = task[h].request,
           task[h] # His!Idle, task' = [task EXCEPT ![h] = His!Idle],
           \A q \in His!Requests \ {r} : req'[q] = req[q],
           ~req'[r].busy, task[h].type = "ORIGINAL" => req'[r].status # "PROCESSING",
           task[h].type # "ORIGINAL" => req'[r].status = req[r].status
    PROVE  Worked'
<1>1. His!Idle \in AttemptRow
    BY DEF His!Idle, AttemptRow
<1>2. /\ task' \in [Handler -> AttemptRow] /\ task'[h] = His!Idle
      /\ \A g \in Handler \ {h} : task'[g] = task[g]
    BY <1>1 DEF Worked
<1>3. req'[r].status # "PROCESSING"
    BY DEF Worked
<1>4. \A q \in His!Requests' : req'[q].answered \/ ~req'[q].busy => req'[q].status # "PROCESSING"
    BY <1>3 DEF Worked, Flags
<1>5. \A g \in Handler \ {h} : task[g] # His!Idle => task[g].request \in His!Requests \ {r}
    BY DEF Worked
<1>6. \A a \in His!Answers : a \in His!Answers' /\ ans'[a] = ans[a]
    BY DEF BranchesGrow
<1>7. ASSUME NEW g \in Handler, task'[g] # His!Idle
      PROVE  /\ task'[g].request \in His!Requests' /\ req'[task'[g].request].busy
             /\ task'[g].type \in {"ORIGINAL", "RETRY", "REGENERATION"}
             /\ task'[g].type # "ORIGINAL" => req'[task'[g].request].status # "PROCESSING"
             /\ task'[g].chosen # None =>
                  task'[g].chosen \in His!Answers' /\ ans'[task'[g].chosen].request = task'[g].request
    BY <1>2, <1>5, <1>6, <1>7 DEF Worked, Flags
<1>8. ASSUME NEW g \in Handler, NEW k \in Handler, task'[g] # His!Idle, task'[k] # His!Idle,
             task'[g].request = task'[k].request
      PROVE  g = k
    BY <1>2, <1>8 DEF Worked
<1> QED
    BY <1>2, <1>4, <1>7, <1>8 DEF Worked

\* A history that was read stays as it was: its rows are never changed.
LEMMA PairedStays ==
    ASSUME Tree, Attached, BranchesGrow, NEW c, NEW chosen, c \subseteq His!Messages, Paired(c, chosen)
    PROVE  c \subseteq His!Messages' /\ Paired(c, chosen)'
<1>1. /\ His!Requests \subseteq His!Requests' /\ \A r \in His!Requests : req'[r].seq = req[r].seq
      /\ His!Answers \subseteq His!Answers' /\ \A a \in His!Answers : ans'[a] = ans[a]
    BY DEF BranchesGrow
<1>2. c \subseteq His!Messages'
    BY <1>1 DEF His!Messages
<1>3. \A m \in c : IF m \in RequestId THEN m \in His!Requests ELSE m \in His!Answers
    BY DEF His!Messages, His!Requests, His!Answers, Tree, His!PrimaryBranch
<1>4. \A m \in c : His!SeqOf(m)' = His!SeqOf(m)
    BY <1>1, <1>3 DEF His!SeqOf
<1>5. \A a \in c \cap AnswerId : ans'[a] = ans[a]
    BY <1>1, <1>3 DEF Tree, His!PrimaryBranch
<1>6. \A m, n \in c : His!Before(m, n)' <=> His!Before(m, n)
    BY <1>4, <1>5 DEF His!Before
<1> QED
    BY <1>2, <1>5, <1>6 DEF Paired

LEMMA RememberedStays ==
    ASSUME Tree, Attached, BranchesGrow, Remembered, NEW h \in Handler,
           \A g \in Handler \ {h} : task'[g] = task[g],
           task'[h] # His!Idle /\ task'[h].context # None =>
             /\ task'[h].context \subseteq His!Messages /\ Paired(task'[h].context, task'[h].chosen)
    PROVE  Remembered'
<1> SUFFICES ASSUME NEW g \in Handler, task'[g] # His!Idle, task'[g].context # None
             PROVE  task'[g].context \subseteq His!Messages' /\ Paired(task[g].context, task[g].chosen)'
    BY DEF Remembered
<1>1. PICK c, chosen : c = task'[g].context /\ chosen = task'[g].chosen
    OBVIOUS
<1>2. c \subseteq His!Messages /\ Paired(c, chosen)
    BY <1>1 DEF Remembered
<1>3. c \subseteq His!Messages' /\ Paired(c, chosen)'
    BY <1>2, PairedStays
<1> QED
    BY <1>1, <1>3 DEF Paired

-----------------------------------------------------------------------------
(* The inductive invariant *)

Threaded == Tree /\ Numbered /\ Topped /\ Attached /\ Counted /\ Worked /\ Remembered

LEMMA CountedStays ==
    ASSUME Counted, ans' = ans, IsFiniteSet(His!Requests')
    PROVE  Counted'
<1>1. His!Answers' = His!Answers
    BY DEF His!Answers
<1> QED
    BY <1>1 DEF Counted

LEMMA AskStep ==
    ASSUME Threaded, NEW h \in Handler, NEW r \in RequestId, NEW b \in Branch, NEW n \in Nat,
           Asks(r, b, n), His!Take(h, r, "ORIGINAL", None)
    PROVE  Attached' /\ Counted' /\ Worked' /\ Remembered'
<1>1. /\ His!Requests' = His!Requests \cup {r} /\ r \notin His!Requests
      /\ req'[r].status = "PROCESSING" /\ req'[r].busy /\ ~req'[r].answered
      /\ \A q \in His!Requests : req'[q] = req[q]
    BY AskedRow DEF Threaded
<1>2. ans' = ans /\ His!Answers' = His!Answers
    BY DEF Asks, His!Answers
<1>3. BranchesGrow
    BY <1>1, <1>2 DEF BranchesGrow
<1>4. Attached'
    BY <1>2, <1>3, AttachedStays DEF Threaded
<1>5. Counted'
    <2>1. IsFiniteSet(His!Requests')
        BY <1>1, FS_AddElement DEF Threaded, Counted
    <2> QED
        BY <1>2, <2>1, CountedStays DEF Threaded
<1>6. Worked'
    BY <1>1, <1>3, WorkTaken DEF Threaded
<1>7. Remembered'
    <2>1. task'[h].context = None /\ \A g \in Handler \ {h} : task'[g] = task[g]
        BY Taken DEF Threaded
    <2> QED
        BY <1>3, <2>1, RememberedStays DEF Threaded
<1> QED
    BY <1>4, <1>5, <1>6, <1>7

LEMMA RetakeStep ==
    ASSUME Threaded, NEW h \in Handler, NEW r \in His!Requests, NEW type \in {"RETRY", "REGENERATION"},
           NEW chosen \in His!Answers \cup {None}, chosen # None => ans[chosen].request = r,
           ~req[r].busy, req' = [req EXCEPT ![r].busy = TRUE], His!Take(h, r, type, chosen),
           ans' = ans, Flags
    PROVE  Attached' /\ Counted' /\ Worked' /\ Remembered'
<1>1. /\ req'[r].busy /\ req'[r].status = req[r].status /\ req'[r].answered = req[r].answered
      /\ \A q \in His!Requests \ {r} : req'[q] = req[q]
    BY TakenRow DEF Threaded
<1>2. r \in RequestId /\ His!Requests' = His!Requests /\ His!Answers' = His!Answers
    BY DEF Flags, His!Requests, His!Answers
<1>3. BranchesGrow
    BY <1>1, <1>2 DEF BranchesGrow, Flags
<1>4. Attached' /\ Counted'
    BY <1>2, <1>3, AttachedStays, CountedStays DEF Threaded, Counted
<1>5. req[r].status # "PROCESSING"
    BY DEF Threaded, Worked
<1>6. Worked'
    BY <1>1, <1>2, <1>3, <1>5, WorkTaken DEF Threaded
<1>7. Remembered'
    <2>1. task'[h].context = None /\ \A g \in Handler \ {h} : task'[g] = task[g]
        BY <1>2, Taken DEF Threaded, His!Answers
    <2> QED
        BY <1>3, <2>1, RememberedStays DEF Threaded
<1> QED
    BY <1>4, <1>6, <1>7

LEMMA FailStep ==
    ASSUME Threaded, NEW h \in Handler, His!FailAttempt(h), Flags
    PROVE  Attached' /\ Counted' /\ Worked' /\ Remembered'
<1>1. PICK r : r = task[h].request
    OBVIOUS
<1>2. r \in His!Requests /\ task[h] # His!Idle /\ task' = [task EXCEPT ![h] = His!Idle] /\ ans' = ans
    BY <1>1 DEF His!FailAttempt, Threaded, Worked
<1>3. /\ ~req'[r].busy /\ req'[r].answered = req[r].answered
      /\ task[h].type = "ORIGINAL" => req'[r].status # "PROCESSING"
      /\ task[h].type # "ORIGINAL" => req'[r].status = req[r].status
      /\ \A q \in His!Requests \ {r} : req'[q] = req[q]
    BY <1>1, <1>2, FailedRow DEF Threaded
<1>4. His!Requests' = His!Requests /\ His!Answers' = His!Answers
    BY <1>2 DEF Flags, His!Answers
<1>5. BranchesGrow
    BY <1>2, <1>3, <1>4 DEF BranchesGrow, Flags
<1>6. Attached' /\ Counted'
    BY <1>2, <1>4, <1>5, AttachedStays, CountedStays DEF Threaded, Counted
<1>7. Worked'
    BY <1>1, <1>2, <1>3, <1>5, WorkEnded DEF Threaded
<1>8. Remembered'
    <2>1. task'[h] = His!Idle /\ \A g \in Handler \ {h} : task'[g] = task[g]
        BY <1>2 DEF Threaded, Worked
    <2> QED
        BY <1>5, <2>1, RememberedStays DEF Threaded
<1> QED
    BY <1>6, <1>7, <1>8

LEMMA CompleteStep ==
    ASSUME Threaded, NEW h \in Handler, NEW a \in AnswerId, His!Complete(h, a), Flags
    PROVE  Attached' /\ Counted' /\ Worked' /\ Remembered'
<1>1. PICK r : r = task[h].request
    OBVIOUS
<1>2. /\ r \in His!Requests /\ task[h] # His!Idle /\ task' = [task EXCEPT ![h] = His!Idle]
      /\ a \in AnswerId \ His!Answers
      /\ ans' = [ans EXCEPT ![a] =
           [request |-> r, variant |-> 1 + Cardinality({x \in His!Answers : ans[x].request = r}),
            branch |-> req[r].branch, seq |-> req[r].seq]]
    BY <1>1, BranchCardinal DEF His!Complete, Threaded, Worked, His!Answers
<1>3. /\ ~req'[r].busy /\ req'[r].answered
      /\ task[h].type = "ORIGINAL" => req'[r].status # "PROCESSING"
      /\ task[h].type # "ORIGINAL" => req'[r].status = req[r].status
      /\ \A q \in His!Requests \ {r} : req'[q] = req[q]
    BY <1>1, <1>2, CompletedRow DEF Threaded
<1>4. His!Answers' = His!Answers \cup {a} /\ \A x \in His!Answers : ans'[x] = ans[x]
    BY <1>2, AnsweredRow DEF Threaded
<1>5. BranchesGrow
    BY <1>3, <1>4 DEF BranchesGrow, Flags
<1>6. Attached' /\ Counted'
    BY <1>2, <1>3, <1>5, AnswerAdded DEF Threaded
<1>7. Worked'
    BY <1>1, <1>2, <1>3, <1>5, WorkEnded DEF Threaded
<1>8. Remembered'
    <2>1. task'[h] = His!Idle /\ \A g \in Handler \ {h} : task'[g] = task[g]
        BY <1>2 DEF Threaded, Worked
    <2> QED
        BY <1>5, <2>1, RememberedStays DEF Threaded
<1> QED
    BY <1>6, <1>7, <1>8

LEMMA ReadStep ==
    ASSUME Threaded, His!HistoryBound, NEW h \in Handler, His!ReadHistory(h)
    PROVE  Attached' /\ Counted' /\ Worked' /\ Remembered'
<1>1. PICK c : c = His!History(task[h].request, task[h].chosen)
    OBVIOUS
<1>2. /\ UNCHANGED <<branch, active, req, ans>> /\ task[h] # His!Idle /\ task[h] \in AttemptRow
      /\ task' = [task EXCEPT ![h].context = c] /\ task \in [Handler -> AttemptRow]
    BY <1>1 DEF His!ReadHistory, Threaded, Worked
<1>3. /\ task[h].request \in His!Requests /\ task[h].chosen \in His!Answers \cup {None}
      /\ task[h].chosen # None => ans[task[h].chosen].request = task[h].request
    BY <1>2 DEF Threaded, Worked
<1>4. c \subseteq His!Messages /\ Paired(c, task[h].chosen)
    <2>1. Earlier
        BY DEF Earlier, Threaded, Worked
    <2> QED
        BY <1>1, <1>3, <2>1, HistoryPaired DEF Threaded
<1>5. /\ task'[h].request = task[h].request /\ task'[h].type = task[h].type
      /\ task'[h].chosen = task[h].chosen /\ task'[h].context = c
      /\ task'[h] \in AttemptRow
      /\ \A g \in Handler \ {h} : task'[g] = task[g]
    <2> DEFINE row == [task[h] EXCEPT !.context = c]
    <2>1. c \in SUBSET (RequestId \cup AnswerId)
        BY <1>4 DEF His!Messages, His!Requests, His!Answers
    <2>2. /\ row.request = task[h].request /\ row.type = task[h].type
          /\ row.chosen = task[h].chosen /\ row.context = c /\ row \in AttemptRow
        BY <1>2, <2>1 DEF AttemptRow
    <2>3. task' = [task EXCEPT ![h] = row]
        BY <1>2
    <2> HIDE DEF row
    <2> QED
        BY <1>2, <2>2, <2>3
<1>6. task' \in [Handler -> AttemptRow]
    BY <1>2, <1>5
<1>7. His!Requests' = His!Requests /\ His!Answers' = His!Answers
    BY <1>2 DEF His!Requests, His!Answers
<1>8. BranchesGrow
    BY <1>2, <1>7 DEF BranchesGrow
<1>9. Attached' /\ Counted'
    BY <1>2, <1>7, <1>8, AttachedStays, CountedStays DEF Threaded, Counted
<1>10. Worked'
    <2>1. \A g \in Handler : /\ task'[g] # His!Idle => task[g] # His!Idle
                            /\ task'[g].request = task[g].request /\ task'[g].type = task[g].type
                            /\ task'[g].chosen = task[g].chosen
        BY <1>2, <1>5
    <2> QED
        BY <1>2, <1>6, <1>7, <2>1 DEF Threaded, Worked
<1>11. Remembered'
    BY <1>4, <1>5, <1>8, RememberedStays DEF Threaded
<1> QED
    BY <1>9, <1>10, <1>11

LEMMA ThreadedStep ==
    ASSUME Threaded, His!HistoryBound, His!Next
    PROVE  Threaded'
<1>1. Sound
    BY DEF Threaded, Sound
<1>2. ASSUME NEW b \in Branch, His!Activate(b) PROVE Threaded'
    <2>1. UNCHANGED <<branch, req, ans, task>>
        BY <1>2 DEF His!Activate
    <2>2. Tree' /\ Numbered' /\ Topped'
        BY <1>1, <1>2, FlagSteps, TreeStays DEF Threaded
    <2>3. Attached' /\ Counted' /\ Worked' /\ Remembered'
        BY <2>1 DEF Threaded, Attached, Counted, Worked, Remembered, Paired, His!Before, His!SeqOf,
            His!Messages, His!Requests, His!Answers
    <2> QED
        BY <2>2, <2>3 DEF Threaded
<1>3. ASSUME NEW h \in Handler, NEW r \in RequestId, NEW b \in Branch, His!Send(h, r, b)
      PROVE  Threaded'
    <2>1. Asks(r, b, His!NextSeq(b)) /\ b \in His!Branches /\ branch' = branch
        BY <1>3, SendAsks
    <2>2. Tree' /\ Numbered' /\ Topped'
        BY <1>1, <2>1, TreeSent
    <2>3. His!NextSeq(b) \in Nat /\ His!Take(h, r, "ORIGINAL", None)
        BY <1>1, <1>3, <2>1, NextHigher DEF His!Send
    <2> QED
        BY <2>1, <2>2, <2>3, AskStep DEF Threaded
<1>4. ASSUME NEW h \in Handler, NEW old \in RequestId, NEW r \in RequestId, NEW b \in Branch,
             His!Edit(h, old, r, b)
      PROVE  Threaded'
    <2>1. /\ Asks(r, b, req[old].seq) /\ old \in His!Requests /\ b \in Branch \ His!Branches
          /\ branch' = [branch EXCEPT ![b] = [parent |-> req[old].branch, point |-> old]]
        BY <1>4, EditAsks
    <2>2. Tree' /\ Numbered' /\ Topped'
        BY <1>1, <2>1, TreeEdited
    <2>3. req[old].seq \in Nat /\ His!Take(h, r, "ORIGINAL", None)
        BY <1>4, <2>1 DEF His!Edit, Threaded, Tree, Placed
    <2> QED
        BY <2>1, <2>2, <2>3, AskStep DEF Threaded
<1>5. ASSUME NEW h \in Handler, FlagStep(h) PROVE Threaded'
    <2>1. Flags
        BY <1>5, FlagSteps DEF Threaded
    <2>2. Tree' /\ Numbered' /\ Topped'
        BY <1>1, <2>1, TreeStays
    <2>3. ASSUME NEW r \in RequestId, His!Retry(h, r)
          PROVE  Attached' /\ Counted' /\ Worked' /\ Remembered'
        BY <2>1, <2>3, RetakeStep DEF His!Retry
    <2>4. ASSUME NEW r \in RequestId, NEW a \in His!Answers \cup {None}, His!Regenerate(h, r, a)
          PROVE  Attached' /\ Counted' /\ Worked' /\ Remembered'
        BY <2>1, <2>4, RetakeStep DEF His!Regenerate
    <2> QED
        BY <1>5, <2>1, <2>2, <2>3, <2>4, FailStep, CompleteStep, ReadStep DEF FlagStep, Threaded
<1> QED
    BY <1>2, <1>3, <1>4, <1>5 DEF His!Next, FlagStep
LEMMA ThreadedInit ==
    ASSUME His!Init, His!PrimaryBranch, His!NullIsNoRow
    PROVE  Threaded
<1>1. /\ His!Branches = {Primary} /\ Parent(Primary) = None /\ branch[Primary] \in His!BranchRow
      /\ branch \in [Branch -> His!BranchRow \cup {None}]
    <2>1. PICK row : row = [parent |-> None, point |-> None]
        OBVIOUS
    <2>2. row \in His!BranchRow /\ row # None /\ row.parent = None
        BY <2>1 DEF His!BranchRow, His!NullIsNoRow
    <2>3. branch = [b \in Branch |-> IF b = Primary THEN row ELSE None]
        BY <2>1 DEF His!Init
    <2> QED
        BY <2>2, <2>3 DEF His!Branches, Parent, His!PrimaryBranch
<1>2. His!Requests = {} /\ His!Answers = {}
    BY DEF His!Init, His!Requests, His!Answers
<1>3. Rooted
    BY <1>1 DEF Rooted, His!Init
<1>4. Grounded
    BY <1>1 DEF Grounded, His!PrimaryBranch
<1>5. Placed /\ Numbered /\ Topped /\ Attached
    BY <1>1, <1>2 DEF Placed, Numbered, Topped, Attached, His!Init
<1>6. Counted
    BY <1>2, FS_EmptySet DEF Counted
<1>7. Worked /\ Remembered
    <2>1. His!Idle \in AttemptRow
        BY DEF His!Idle, AttemptRow
    <2>2. task \in [Handler -> AttemptRow] /\ \A h \in Handler : task[h] = His!Idle
        BY <2>1 DEF His!Init
    <2> QED
        BY <1>2, <2>2 DEF Worked, Remembered
<1> QED
    BY <1>3, <1>4, <1>5, <1>6, <1>7 DEF Threaded, Tree

LEMMA ThreadedStutter ==
    ASSUME Threaded, UNCHANGED His!vars
    PROVE  Threaded'
BY DEF His!vars, Threaded, Tree, Rooted, Grounded, Placed, Numbered, Topped, Attached, Counted,
    Worked,
    Remembered, Paired, His!Before, His!SeqOf, Parent, Cut, His!Branches, His!Messages,
    His!Requests, His!Answers,
    His!PrimaryBranch, His!NullIsNoRow

\* What the branches are for, as far as no run contradicts it.
Faithful ==
    His!VisibleIsThread /\ His!ReplacedIsHidden /\ His!QuestionsNumbered /\ His!PreviewIsLast /\ His!ContextPaired

LEMMA FaithfulThread ==
    ASSUME Threaded
    PROVE  His!TypeOK /\ Faithful
<1>1. His!VisibleIsThread /\ His!ReplacedIsHidden /\ His!QuestionsNumbered /\ His!PreviewIsLast
    BY ThreadHolds, ReplacedHidden, QuestionsApart, PreviewEnds DEF Threaded
<1>2. His!ContextPaired
    <2>1. \A h \in Handler : task[h].context # None => task[h] # His!Idle
        BY DEF His!Idle
    <2> QED
        BY <2>1, BranchCardinal DEF His!ContextPaired, Threaded, Remembered, Paired
<1>3. His!TypeOK
    BY DEF His!TypeOK, Threaded, Tree, Rooted, Placed, Attached, Worked, Remembered
<1> QED
    BY <1>1, <1>2, <1>3 DEF Faithful

\* Whatever the limit of a history and however many branches, requests, answers and handlers
\* there are, every branch shows the thread it continues, without what its edit replaced; its
\* questions are numbered apart; the preview is the message the active branch ends with; and
\* the provider is given each answer with its question and one answer to it.
THEOREM ThreadsFaithful ==
    ASSUME His!PrimaryBranch, His!NullIsNoRow, His!HistoryBound
    PROVE  His!Spec => [](His!TypeOK /\ Faithful)
<1>1. His!Init => Threaded
    BY ThreadedInit
<1>2. Threaded /\ [His!Next]_(His!vars) => Threaded'
    BY ThreadedStep, ThreadedStutter
<1>3. Threaded => His!TypeOK /\ Faithful
    BY FaithfulThread
<1> QED
    BY <1>1, <1>2, <1>3, PTL DEF His!Spec
==============================================================================
