------------------------- MODULE ConversationProofs -------------------------
(***************************************************************************)
(* Theorems of module Conversation, for every number of conversations,     *)
(* requests, attempts, keys, handlers and faults.                          *)
(***************************************************************************)
EXTENDS Conversation, WellFoundedInduction, FiniteSetTheorems, TLAPS

(***************************************************************************)
(* COALESCE(MAX(n), 0) + 1 over a bounded set of naturals is a natural     *)
(* above all of them.                                                      *)
(***************************************************************************)
LEMMA SetMax ==
  ASSUME NEW S \in SUBSET Nat, S # {}, NEW b \in Nat, \A n \in S : n <= b
  PROVE  \E m \in S : \A n \in S : n <= m
<1> DEFINE T == {n \in Nat : \A x \in S : x <= n}
           R == OpToRel(<, Nat)
<1>1. T \subseteq Nat /\ b \in T
  OBVIOUS
<1>2. IsWellFoundedOn(R, Nat)
  BY NatLessThanWellFounded
<1> HIDE DEF R
<1>3. PICK m \in T : \A y \in T : <<y, m>> \notin R
  BY <1>1, <1>2, WFMin
<1>4. \A y \in T : ~ (y < m)
  BY <1>1, <1>3 DEF R, OpToRel
<1>5. CASE m \in S
  BY <1>5, <1>1
<1>6. CASE m \notin S
  <2>1. \A x \in S : x < m
    BY <1>6
  <2>2. m # 0 /\ m - 1 \in Nat
    <3>1. PICK x \in S : TRUE
      OBVIOUS
    <3>2. x \in Nat /\ x < m /\ m \in Nat
      BY <2>1, <3>1
    <3>3. QED
      BY <3>2
  <2>3. m - 1 \in T
    BY <2>1, <2>2, <1>1
  <2>4. QED
    BY <2>3, <2>2, <1>4
<1>7. QED
  BY <1>5, <1>6

LEMMA NextAfterBounded ==
  ASSUME NEW S \in SUBSET Nat, NEW b \in Nat, \A n \in S : n <= b
  PROVE  /\ NextAfter(S) \in Nat \ {0}
         /\ NextAfter(S) <= b + 1
         /\ \A n \in S : n < NextAfter(S)
<1> DEFINE Z == S \cup {0}
<1>1. Z \in SUBSET Nat /\ Z # {} /\ \A n \in Z : n <= b
  OBVIOUS
<1>2. \E m \in Z : \A n \in Z : n <= m
  BY <1>1, SetMax
<1> DEFINE top == CHOOSE m \in Z : \A n \in Z : n <= m
<1>3. top \in Z /\ \A n \in Z : n <= top
  BY <1>2
<1>4. NextAfter(S) = 1 + top
  BY DEF NextAfter
<1> HIDE DEF top
<1>5. top \in Nat /\ top <= b
  BY <1>1, <1>3
<1>6. \A n \in S : n \in Nat /\ n <= top
  BY <1>1, <1>3
<1>7. QED
  BY <1>4, <1>5, <1>6

-----------------------------------------------------------------------------
(***************************************************************************)
(* The inductive invariant.  One attempt in flight per request rests on    *)
(* fresh requests having no attempts (AttemptsLinked); one effect per key  *)
(* on keys being stored in the transaction that does the work (KeysLinked);*)
(* the numbers of attempts and variants are naturals because the ones in   *)
(* use are bounded.                                                        *)
(***************************************************************************)
Bounded ==
    \E b \in Nat : /\ \A a \in Attempt : atts[a].number <= b
                   /\ \A m \in responses : m.variant <= b

TableInv == AttemptsLinked /\ RequestsLinked /\ OneInFlightPerRequest /\ AnswerMatchesStatus /\ Bounded

IInv == TypeOK /\ TableInv /\ KeysLinked /\ OneEffectPerKey /\ TasksLinked /\ OneWorkerPerAttempt

LEMMA InitInv == Init => IInv
<1> SUFFICES ASSUME Init PROVE IInv
  OBVIOUS
<1>1. TypeOK
  BY FaultBound
  DEF Init, TypeOK, RequestRow, AttemptRow, Task, Stage, NoRequest, NoAttempt, Idle, MaxRecovery
<1>2. AttemptsLinked /\ RequestsLinked /\ KeysLinked
  BY DEF Init, AttemptsLinked, RequestsLinked, KeysLinked
<1>3. OneInFlightPerRequest /\ AnswerMatchesStatus
  BY NoneIsFresh DEF Init, OneInFlightPerRequest, AnswerMatchesStatus, NoAttempt, Status
<1>4. OneEffectPerKey /\ TasksLinked /\ OneWorkerPerAttempt
  BY DEF Init, OneEffectPerKey, TasksLinked, OneWorkerPerAttempt, Idle
<1>5. Bounded
  <2>1. \A a \in Attempt : atts[a].number <= 0
    BY DEF Init, NoAttempt
  <2>2. QED
    BY <2>1 DEF Init, Bounded
<1> QED
  BY <1>1, <1>2, <1>3, <1>4, <1>5 DEF IInv, TableInv

(***************************************************************************)
(* What transactions do to the tables.                                     *)
(***************************************************************************)
LEMMA AttemptNumberNat ==
  ASSUME IInv, NEW r \in Request
  PROVE  NextAttemptNumber(r) \in Nat
<1> DEFINE S == {atts[a].number : a \in {x \in Attempt : atts[x].request = r}}
<1>1. S \in SUBSET Nat
  BY DEF IInv, TypeOK, AttemptRow
<1>2. PICK b \in Nat : \A a \in Attempt : atts[a].number <= b
  BY DEF IInv, TableInv, Bounded
<1>3. \A n \in S : n <= b
  BY <1>2
<1> HIDE DEF S
<1>4. NextAfter(S) \in Nat
  BY <1>1, <1>3, NextAfterBounded
<1> QED
  BY <1>4 DEF S, NextAttemptNumber

LEMMA VariantNat ==
  ASSUME IInv, NEW r \in Request
  PROVE  NextVariant(r) \in Nat
<1> DEFINE S == {m.variant : m \in {x \in responses : x.request = r}}
<1>1. S \in SUBSET Nat
  BY DEF IInv, TypeOK, ResponseRow
<1>2. PICK b \in Nat : \A m \in responses : m.variant <= b
  BY DEF IInv, TableInv, Bounded
<1>3. \A n \in S : n <= b
  BY <1>2
<1> HIDE DEF S
<1>4. NextAfter(S) \in Nat
  BY <1>1, <1>3, NextAfterBounded
<1> QED
  BY <1>4 DEF S, NextVariant

LEMMA WithStatus == \A row : row.status \in Status => row # NoAttempt
BY NoneIsFresh DEF NoAttempt

\* The request of an attempt that exists is a request that exists.
LEMMA RequestExists ==
  ASSUME IInv, NEW a \in Attempt, atts[a] # NoAttempt
  PROVE  /\ atts[a].request \in Request /\ reqs[atts[a].request] # NoRequest
         /\ atts[a].status \in Status /\ atts[a].type \in AttemptType
         /\ ConvOf(a) \in Conversation /\ conv[ConvOf(a)] # "absent"
BY DEF IInv, TableInv, AttemptsLinked, RequestsLinked, ConvOf

\* A fresh attempt for a request with none in flight; the request may be fresh too.
LEMMA Inserted ==
  ASSUME IInv,
         NEW a \in Attempt, NEW r \in Request, NEW type \in AttemptType, NEW n \in Nat,
         InsertAttempt(a, r, type, n), ~InFlight(r), UNCHANGED responses,
         reqs'[r] # NoRequest, \A x \in Request : reqs[x] # NoRequest => reqs'[x] # NoRequest
  PROVE  /\ atts' \in [Attempt -> AttemptRow] /\ atts'[a] # NoAttempt
         /\ \A x \in Attempt : x # a => atts'[x] = atts[x]
         /\ AttemptsLinked' /\ OneInFlightPerRequest' /\ AnswerMatchesStatus' /\ Bounded'
<1> DEFINE row == [status |-> "PROCESSING", type |-> type, request |-> r, number |-> n, usage |-> None]
<1>1. atts \in [Attempt -> AttemptRow] /\ row \in AttemptRow
  BY DEF IInv, TypeOK, AttemptRow, Status
<1>2. atts' = [atts EXCEPT ![a] = row] /\ atts[a] = NoAttempt
  BY DEF InsertAttempt
<1>3. atts'[a] = row /\ \A x \in Attempt : x # a => atts'[x] = atts[x]
  BY <1>1, <1>2
<1>4. atts' \in [Attempt -> AttemptRow]
  BY <1>1, <1>2
<1>5. row # NoAttempt
  BY NoneIsFresh DEF NoAttempt, Status
<1>6. AttemptsLinked'
  <2> SUFFICES ASSUME NEW x \in Attempt, atts'[x] # NoAttempt
               PROVE  /\ atts'[x].status \in Status /\ atts'[x].type \in AttemptType
                      /\ atts'[x].request \in Request /\ reqs'[atts'[x].request] # NoRequest
    BY DEF AttemptsLinked
  <2>1. CASE x = a
    BY <2>1, <1>3 DEF Status
  <2>2. CASE x # a
    BY <2>2, <1>3 DEF IInv, TableInv, AttemptsLinked
  <2> QED
    BY <2>1, <2>2
<1>7. OneInFlightPerRequest'
  BY <1>3 DEF OneInFlightPerRequest, InFlight, IInv, TableInv
<1>8. AnswerMatchesStatus'
  <2>1. \A m \in responses : m.attempt # a
    BY <1>2, NoneIsFresh DEF IInv, TableInv, AnswerMatchesStatus, NoAttempt, Status
  <2> QED
    BY <2>1, <1>3 DEF IInv, TableInv, AnswerMatchesStatus
<1>9. Bounded'
  <2>1. PICK b \in Nat : /\ \A x \in Attempt : atts[x].number <= b
                         /\ \A m \in responses : m.variant <= b
    BY DEF IInv, TableInv, Bounded
  <2>2. \A x \in Attempt : atts[x].number \in Nat
    BY <1>1 DEF AttemptRow
  <2>3. \A m \in responses : m.variant \in Nat
    BY DEF IInv, TypeOK, ResponseRow
  <2>4. b + n \in Nat /\ \A x \in Attempt : atts'[x].number <= b + n
    BY <2>1, <2>2, <1>3
  <2>5. \A m \in responses' : m.variant <= b + n
    BY <2>1, <2>3
  <2> QED
    BY <2>4, <2>5 DEF Bounded
<1> QED
  BY <1>3, <1>4, <1>5, <1>6, <1>7, <1>8, <1>9

\* A PROCESSING attempt ends without an answer.
LEMMA Failed ==
  ASSUME IInv, NEW a \in Attempt, atts[a].status = "PROCESSING",
         NEW link \in UsageStatus \cup {None}, MarkFailed(a, link), UNCHANGED <<conv, responses>>
  PROVE  /\ atts' \in [Attempt -> AttemptRow] /\ reqs' \in [Request -> RequestRow]
         /\ \A x \in Attempt : /\ x # a => atts'[x] = atts[x]
                               /\ atts[x] # NoAttempt => atts'[x] # NoAttempt
         /\ \A x \in Request : /\ reqs'[x].conv = reqs[x].conv
                               /\ reqs[x] # NoRequest => reqs'[x] # NoRequest
         /\ TableInv'
<1>1. atts[a] # NoAttempt
  BY WithStatus DEF Status
<1> DEFINE r == atts[a].request
<1>2. r \in Request /\ reqs[r] # NoRequest
  BY <1>1, RequestExists
<1>3. atts \in [Attempt -> AttemptRow] /\ reqs \in [Request -> RequestRow]
  BY DEF IInv, TypeOK
<1>4. /\ atts' = [atts EXCEPT ![a].status = "FAILED", ![a].usage = link]
      /\ reqs' = IF atts[a].type = "ORIGINAL" THEN [reqs EXCEPT ![r].status = "FAILED"] ELSE reqs
  BY DEF MarkFailed, MirrorOriginal
<1>5. /\ atts' \in [Attempt -> AttemptRow]
      /\ atts'[a] = [atts[a] EXCEPT !.status = "FAILED", !.usage = link]
      /\ \A x \in Attempt : x # a => atts'[x] = atts[x]
  BY <1>3, <1>4 DEF AttemptRow, Status
<1>6. /\ reqs' \in [Request -> RequestRow]
      /\ \A x \in Request : /\ reqs'[x].conv = reqs[x].conv
                            /\ reqs'[x].status \in {reqs[x].status, "FAILED"}
                            /\ x # r => reqs'[x] = reqs[x]
  BY <1>2, <1>3, <1>4 DEF RequestRow, Status
<1>7. /\ atts'[a].status = "FAILED" /\ atts'[a].type = atts[a].type
      /\ atts'[a].request = r /\ atts'[a].number = atts[a].number
  BY <1>3, <1>5 DEF AttemptRow
<1>8. atts'[a] # NoAttempt
  BY <1>7, WithStatus DEF Status
<1>9. \A x \in Request : reqs[x] # NoRequest => reqs'[x] # NoRequest
  BY <1>2, <1>6, NoneIsFresh DEF NoRequest, IInv, TableInv, RequestsLinked
<1>10. \A x \in Attempt : x # a => atts'[x] = atts[x]
  BY <1>5
<1>11. AttemptsLinked'
  BY <1>1, <1>2, <1>10, <1>7, <1>9 DEF IInv, TableInv, AttemptsLinked, Status
<1>12. RequestsLinked'
  BY <1>2, <1>6 DEF IInv, TableInv, RequestsLinked, Status
<1>13. OneInFlightPerRequest'
  BY <1>10, <1>7 DEF IInv, TableInv, OneInFlightPerRequest
<1>14. AnswerMatchesStatus'
  BY <1>10, <1>7 DEF IInv, TableInv, AnswerMatchesStatus
<1>15. Bounded'
  BY <1>5, <1>7 DEF IInv, TableInv, Bounded
<1> QED
  BY <1>5, <1>6, <1>8, <1>9, <1>11, <1>12, <1>13, <1>14, <1>15 DEF TableInv

\* A PROCESSING attempt is answered.
LEMMA Answered ==
  ASSUME IInv, NEW a \in Attempt, atts[a].status = "PROCESSING",
         responses' = responses \cup {[attempt |-> a, request |-> atts[a].request,
                                       variant |-> NextVariant(atts[a].request)]},
         atts' = [atts EXCEPT ![a].status = "COMPLETED", ![a].usage = "SUCCESS"],
         MirrorOriginal(a, "COMPLETED"), UNCHANGED conv
  PROVE  /\ atts' \in [Attempt -> AttemptRow] /\ reqs' \in [Request -> RequestRow]
         /\ responses' \subseteq ResponseRow
         /\ \A x \in Attempt : /\ x # a => atts'[x] = atts[x]
                               /\ atts[x] # NoAttempt => atts'[x] # NoAttempt
         /\ \A x \in Request : /\ reqs'[x].conv = reqs[x].conv
                               /\ reqs[x] # NoRequest => reqs'[x] # NoRequest
         /\ TableInv'
<1>1. atts[a] # NoAttempt
  BY WithStatus DEF Status
<1> DEFINE r == atts[a].request
           answer == [attempt |-> a, request |-> r, variant |-> NextVariant(r)]
<1>2. r \in Request /\ reqs[r] # NoRequest
  BY <1>1, RequestExists
<1>3. NextVariant(r) \in Nat
  BY <1>2, VariantNat
<1>4. /\ atts \in [Attempt -> AttemptRow] /\ reqs \in [Request -> RequestRow]
      /\ responses \subseteq ResponseRow
  BY DEF IInv, TypeOK
<1>5. reqs' = IF atts[a].type = "ORIGINAL" THEN [reqs EXCEPT ![r].status = "COMPLETED"] ELSE reqs
  BY DEF MirrorOriginal
<1>6. /\ atts' \in [Attempt -> AttemptRow]
      /\ atts'[a] = [atts[a] EXCEPT !.status = "COMPLETED", !.usage = "SUCCESS"]
      /\ \A x \in Attempt : x # a => atts'[x] = atts[x]
  BY <1>4 DEF AttemptRow, Status, UsageStatus
<1>7. /\ reqs' \in [Request -> RequestRow]
      /\ \A x \in Request : /\ reqs'[x].conv = reqs[x].conv
                            /\ reqs'[x].status \in {reqs[x].status, "COMPLETED"}
                            /\ x # r => reqs'[x] = reqs[x]
  BY <1>2, <1>4, <1>5 DEF RequestRow, Status
<1>8. responses' = responses \cup {answer} /\ responses' \subseteq ResponseRow
  BY <1>2, <1>3, <1>4 DEF ResponseRow
<1>9. /\ atts'[a].status = "COMPLETED" /\ atts'[a].type = atts[a].type
      /\ atts'[a].request = r /\ atts'[a].number = atts[a].number
  BY <1>4, <1>6 DEF AttemptRow
<1>10. atts'[a] # NoAttempt
  <2> DEFINE row == atts'[a]
  <2>1. row.status \in Status
    BY <1>9 DEF Status
  <2> HIDE DEF row
  <2>2. row # NoAttempt
    BY <2>1, WithStatus
  <2> QED
    BY <2>2 DEF row
<1>11. \A x \in Request : reqs[x] # NoRequest => reqs'[x] # NoRequest
  BY <1>2, <1>7, NoneIsFresh DEF NoRequest, IInv, TableInv, RequestsLinked
<1>12. AttemptsLinked'
  BY <1>1, <1>2, <1>6, <1>9, <1>11 DEF IInv, TableInv, AttemptsLinked, Status
<1>13. RequestsLinked'
  BY <1>2, <1>7 DEF IInv, TableInv, RequestsLinked, Status
<1>14. OneInFlightPerRequest'
  BY <1>6, <1>9 DEF IInv, TableInv, OneInFlightPerRequest
<1>15. AnswerMatchesStatus'
  <2>1. \A m \in responses : m.attempt # a
    BY DEF IInv, TableInv, AnswerMatchesStatus
  <2>2. \A m \in responses' : m \in responses \/ m = answer
    BY <1>8
  <2>3. answer \in responses' /\ answer.attempt = a /\ answer.request = r
    BY <1>8
  <2> SUFFICES ASSUME NEW x \in Attempt
               PROVE  /\ atts'[x].status = "COMPLETED" <=> \E m \in responses' : m.attempt = x
                      /\ \A m, n \in responses' : m.attempt = x /\ n.attempt = x => m = n
                      /\ \A m \in responses' : m.attempt = x => m.request = atts'[x].request
    BY DEF AnswerMatchesStatus
  <2>4. CASE x = a
    BY <2>1, <2>2, <2>3, <2>4, <1>9
  <2>5. CASE x # a
    <3>1. \A m \in responses' : m.attempt = x <=> m \in responses /\ m.attempt = x
      BY <2>2, <2>3, <2>5
    <3>2. responses \subseteq responses'
      BY <1>8
    <3> QED
      BY <3>1, <3>2, <2>5, <1>6 DEF IInv, TableInv, AnswerMatchesStatus
  <2> QED
    BY <2>4, <2>5
<1>16. Bounded'
  <2>1. PICK b \in Nat : /\ \A x \in Attempt : atts[x].number <= b
                         /\ \A m \in responses : m.variant <= b
    BY DEF IInv, TableInv, Bounded
  <2>2. \A x \in Attempt : atts[x].number \in Nat
    BY <1>4 DEF AttemptRow
  <2>3. \A m \in responses : m.variant \in Nat
    BY <1>4 DEF ResponseRow
  <2>4. b + NextVariant(r) \in Nat /\ \A x \in Attempt : atts'[x].number <= b + NextVariant(r)
    BY <2>1, <2>2, <1>3, <1>6, <1>9
  <2>5. \A m \in responses' : m.variant <= b + NextVariant(r)
    BY <2>1, <2>3, <1>3, <1>8
  <2> QED
    BY <2>4, <2>5 DEF Bounded
<1> QED
  BY <1>6, <1>7, <1>8, <1>10, <1>11, <1>12, <1>13, <1>14, <1>15, <1>16 DEF TableInv

(***************************************************************************)
(* What the other parts of the invariant need from a step.                 *)
(***************************************************************************)
\* Nothing happened to conversations, requests, attempts and responses.
LEMMA TablesKept ==
  ASSUME IInv, UNCHANGED <<conv, reqs, atts, responses>>
  PROVE  TableInv'
BY DEF IInv, TableInv, AttemptsLinked, RequestsLinked, OneInFlightPerRequest, AnswerMatchesStatus, Bounded

\* Rows stay where they are, so keys keep leading to them.
LEMMA KeysKept ==
  ASSUME IInv, UNCHANGED <<idem, convKey, reqKey>>,
         \A c \in Conversation : conv[c] # "absent" => conv'[c] # "absent",
         \A r \in Request : reqs[r] # NoRequest => reqs'[r] # NoRequest,
         \A a \in Attempt : atts[a] # NoAttempt => atts'[a] # NoAttempt
  PROVE  KeysLinked' /\ OneEffectPerKey'
<1>1. KeysLinked'
  <2>1. \A s \in Slot : idem[s] # None /\ idem[s].attempt # None => idem[s].attempt \in Attempt
    BY DEF IInv, TypeOK, IdemRow
  <2> QED
    BY <2>1 DEF IInv, KeysLinked
<1>2. OneEffectPerKey'
  BY DEF IInv, OneEffectPerKey
<1> QED
  BY <1>1, <1>2

\* A handler starts to generate for an attempt that was just inserted.
LEMMA Started ==
  ASSUME IInv, NEW h \in Handler, NEW a \in Attempt, Generate(h, a), atts[a] = NoAttempt,
         atts'[a] # NoAttempt, \A x \in Attempt : x # a => atts'[x] = atts[x]
  PROVE  /\ task' \in [Handler -> Task] /\ reply' \in [Handler -> Reply \cup {None}]
         /\ TasksLinked' /\ OneWorkerPerAttempt'
<1> DEFINE new == [Idle EXCEPT !.pc = "context", !.attempt = a]
<1>1. task \in [Handler -> Task] /\ reply \in [Handler -> Reply \cup {None}]
  BY DEF IInv, TypeOK
<1>2. /\ new \in Task /\ new.pc = "context" /\ new.attempt = a
  <2>1. Idle \in Task
    <3>1. 0 \in 0..MaxRecovery /\ "idle" \in Stage
      BY DEF MaxRecovery, Stage
    <3> QED
      BY <3>1 DEF Idle, Task
  <2>2. "context" \in Stage
    BY DEF Stage
  <2> QED
    BY <2>1, <2>2 DEF Task
<1>3. task' = [task EXCEPT ![h] = new] /\ reply' = [reply EXCEPT ![h] = None]
  BY DEF Generate
<1> HIDE DEF new
<1>4. task'[h] = new /\ \A g \in Handler : g # h => task'[g] = task[g]
  BY <1>1, <1>3
<1>5. \A g \in Handler : task[g].pc # "idle" => task[g].attempt # a
  BY DEF IInv, TasksLinked
<1>6. TasksLinked'
  <2> SUFFICES ASSUME NEW g \in Handler
               PROVE  /\ task'[g].pc = "idle" => task'[g] = Idle
                      /\ task'[g].pc # "idle" =>
                           task'[g].attempt \in Attempt /\ atts'[task'[g].attempt] # NoAttempt
                      /\ task'[g].pc = "replay" =>
                           task'[g].seen \in Status
                           /\ (task'[g].seen = "COMPLETED" =>
                               atts'[task'[g].attempt].status = "COMPLETED")
    BY DEF TasksLinked
  <2>1. CASE g = h
    BY <2>1, <1>2, <1>4
  <2>2. CASE g # h
    BY <2>2, <1>4, <1>5 DEF IInv, TasksLinked
  <2> QED
    BY <2>1, <2>2
<1>7. OneWorkerPerAttempt'
  BY <1>2, <1>4, <1>5 DEF IInv, OneWorkerPerAttempt
<1> QED
  BY <1>1, <1>2, <1>3, <1>6, <1>7

\* Handlers go on with their attempt or become idle; attempts stay, completed
\* ones completed.
LEMMA TasksMoved ==
  ASSUME IInv,
         \A g \in Handler :
            \/ task'[g] = task[g]
            \/ task'[g] = Idle
            \/ /\ task'[g].attempt = task[g].attempt
               /\ task[g].pc \notin {"idle", "replay"} /\ task'[g].pc \notin {"idle", "replay"},
         \A a \in Attempt : /\ atts[a] # NoAttempt => atts'[a] # NoAttempt
                            /\ atts[a].status = "COMPLETED" => atts'[a].status = "COMPLETED"
  PROVE  TasksLinked' /\ OneWorkerPerAttempt'
<1>1. TasksLinked'
  BY DEF IInv, TasksLinked, Idle
<1>2. OneWorkerPerAttempt'
  BY DEF IInv, OneWorkerPerAttempt, Idle
<1> QED
  BY <1>1, <1>2

\* A transaction that creates rows under an unused key, or without a key.
LEMMA KeyTakesEffect ==
  ASSUME IInv, NEW s \in Slot \cup {None}, NEW operation, NEW hash \in Hash,
         NEW c \in Conversation, NEW q \in Request \cup {None}, NEW a \in Attempt \cup {None},
         KeyUnused(s, operation), LinkIdempotency(s, hash, c, q, a),
         a # None => atts'[a] # NoAttempt,
         \A x \in Attempt : atts[x] # NoAttempt => atts'[x] # NoAttempt,
         \A d \in Conversation : conv[d] # "absent" => conv'[d] # "absent",
         \A r \in Request : reqs[r] # NoRequest => reqs'[r] # NoRequest,
         \/ UNCHANGED convKey
         \/ /\ conv[c] = "absent" /\ conv'[c] # "absent"
            /\ convKey' = [convKey EXCEPT ![c] = s],
         \/ UNCHANGED reqKey
         \/ \E r \in Request : /\ reqs[r] = NoRequest /\ reqs'[r] # NoRequest
                               /\ reqKey' = [reqKey EXCEPT ![r] = s]
  PROVE  /\ idem' \in [Slot -> IdemRow \cup {None}]
         /\ convKey' \in [Conversation -> Slot \cup {None}]
         /\ reqKey' \in [Request -> Slot \cup {None}]
         /\ KeysLinked' /\ OneEffectPerKey'
<1> DEFINE row == [hash |-> hash, conv |-> c, request |-> q, attempt |-> a]
<1>1. /\ idem \in [Slot -> IdemRow \cup {None}]
      /\ convKey \in [Conversation -> Slot \cup {None}]
      /\ reqKey \in [Request -> Slot \cup {None}]
  BY DEF IInv, TypeOK
<1>2. row \in IdemRow /\ row.attempt = a
  BY DEF IdemRow
<1>3. row # None
  BY <1>2, NoneIsFresh
<1> HIDE DEF row
<1>4. idem' = IF s = None THEN idem ELSE [idem EXCEPT ![s] = row]
  BY DEF LinkIdempotency, row
<1>5. /\ idem' \in [Slot -> IdemRow \cup {None}]
      /\ \A t \in Slot : t # s => idem'[t] = idem[t]
      /\ s # None => s \in Slot /\ idem[s] = None /\ idem'[s] = row
  BY <1>1, <1>2, <1>4 DEF KeyUnused
<1>6. /\ convKey' \in [Conversation -> Slot \cup {None}]
      /\ reqKey' \in [Request -> Slot \cup {None}]
  BY <1>1
<1>7. \A d \in Conversation :
        \/ convKey'[d] = convKey[d]
        \/ convKey'[d] = s /\ conv'[d] # "absent" /\ conv[d] = "absent" /\ d = c
  BY <1>1
<1>8. \A r, t \in Request :
        \/ reqKey'[r] = reqKey[r]
        \/ /\ reqKey'[r] = s /\ reqs'[r] # NoRequest /\ reqs[r] = NoRequest
           /\ t # r => reqKey'[t] = reqKey[t]
  BY <1>1
<1>9. \A t \in Slot : idem[t] # None => idem'[t] # None
  <2>1. \A t \in Slot : t # None
    BY NoneIsFresh
  <2> QED
    BY <2>1, <1>3, <1>5
<1>10. KeysLinked'
  <2>1. ASSUME NEW d \in Conversation, convKey'[d] # None
        PROVE  conv'[d] # "absent" /\ idem'[convKey'[d]] # None
    BY <2>1, <1>1, <1>3, <1>5, <1>7, <1>9 DEF IInv, KeysLinked
  <2>2. ASSUME NEW r \in Request, reqKey'[r] # None
        PROVE  reqs'[r] # NoRequest /\ idem'[reqKey'[r]] # None
    BY <2>2, <1>1, <1>3, <1>5, <1>8, <1>9 DEF IInv, KeysLinked
  <2>3. ASSUME NEW t \in Slot, idem'[t] # None, idem'[t].attempt # None
        PROVE  atts'[idem'[t].attempt] # NoAttempt
    <3>1. CASE t = s
      BY <3>1, <2>3, <1>2, <1>5, NoneIsFresh
    <3>2. CASE t # s
      <4>1. idem[t].attempt \in Attempt
        BY <3>2, <2>3, <1>1, <1>5 DEF IdemRow
      <4> QED
        BY <4>1, <3>2, <2>3, <1>5 DEF IInv, KeysLinked
    <3> QED
      BY <3>1, <3>2
  <2> QED
    BY <2>1, <2>2, <2>3 DEF KeysLinked
<1>11. s # None => /\ \A d \in Conversation : convKey[d] # s
                   /\ \A r \in Request : reqKey[r] # s
  BY <1>5 DEF IInv, KeysLinked
<1>12. OneEffectPerKey'
  <2>1. ASSUME NEW d \in Conversation, NEW e \in Conversation,
               convKey'[d] # None, convKey'[d] = convKey'[e]
        PROVE  d = e
    BY <2>1, <1>7, <1>11 DEF IInv, OneEffectPerKey
  <2>2. ASSUME NEW r \in Request, NEW t \in Request, reqKey'[r] # None, reqKey'[r] = reqKey'[t]
        PROVE  r = t
    BY <2>2, <1>8, <1>11 DEF IInv, OneEffectPerKey
  <2> QED
    BY <2>1, <2>2 DEF OneEffectPerKey
<1> QED
  BY <1>5, <1>6, <1>10, <1>12

(***************************************************************************)
(* The calls of the API.                                                   *)
(***************************************************************************)
LEMMA CreateEmptyStep ==
  ASSUME IInv, NEW h \in Handler, NEW s \in Slot \cup {None}, NEW c \in Conversation,
         CreateEmpty(h, s, c)
  PROVE  IInv'
<1> DEFINE hash == [conv |-> None, question |-> None]
<1>1. conv \in [Conversation -> {"absent", "live", "deleted"}]
  BY DEF IInv, TypeOK
<1>2. conv[c] = "absent" /\ conv'[c] = "live" /\ \A d \in Conversation : d # c => conv'[d] = conv[d]
  BY <1>1 DEF CreateEmpty
<1>3. UNCHANGED <<reqs, atts, responses, task, reqKey>>
  BY DEF CreateEmpty
<1>4. hash \in Hash
  BY DEF Hash
<1>5. /\ idem' \in [Slot -> IdemRow \cup {None}]
      /\ convKey' \in [Conversation -> Slot \cup {None}]
      /\ reqKey' \in [Request -> Slot \cup {None}]
      /\ KeysLinked' /\ OneEffectPerKey'
  <2>1. KeyUnused(s, "CREATE_CONVERSATION") /\ LinkIdempotency(s, hash, c, None, None)
    BY DEF CreateEmpty
  <2>2. convKey' = [convKey EXCEPT ![c] = s]
    BY DEF CreateEmpty
  <2> HIDE DEF hash
  <2> QED
    BY <1>2, <1>3, <1>4, <2>1, <2>2, KeyTakesEffect
<1>6. TypeOK'
  BY <1>5 DEF CreateEmpty, IInv, TypeOK
<1>7. TableInv'
  BY <1>2, <1>3 DEF IInv, TableInv, AttemptsLinked, RequestsLinked, OneInFlightPerRequest,
                    AnswerMatchesStatus, Bounded
<1>8. TasksLinked' /\ OneWorkerPerAttempt'
  BY <1>3, TasksMoved
<1> QED
  BY <1>5, <1>6, <1>7, <1>8 DEF IInv

LEMMA CreateWithQuestionStep ==
  ASSUME IInv, NEW h \in Handler, NEW s \in Slot \cup {None}, NEW q \in Question,
         NEW c \in Conversation, NEW r \in Request, NEW a \in Attempt,
         CreateWithQuestion(h, s, q, c, r, a)
  PROVE  IInv'
<1> DEFINE hash == [conv |-> None, question |-> q]
<1>1. /\ conv \in [Conversation -> {"absent", "live", "deleted"}]
      /\ reqs \in [Request -> RequestRow]
  BY DEF IInv, TypeOK
<1>2. conv[c] = "absent" /\ conv'[c] = "live" /\ \A d \in Conversation : d # c => conv'[d] = conv[d]
  BY <1>1 DEF CreateWithQuestion
<1>3. UNCHANGED <<responses, usage, faults>> /\ InsertAttempt(a, r, "ORIGINAL", 1) /\ Generate(h, a)
  BY DEF CreateWithQuestion
<1>4. /\ reqs[r] = NoRequest /\ reqs' \in [Request -> RequestRow]
      /\ reqs'[r] = [conv |-> c, status |-> "PROCESSING"]
      /\ \A x \in Request : x # r => reqs'[x] = reqs[x]
  BY <1>1 DEF CreateWithQuestion, InsertRequest, RequestRow, Status
<1>5. reqs'[r] # NoRequest
  BY <1>4, NoneIsFresh DEF NoRequest
<1>6. ~InFlight(r)
  BY <1>4, NoneIsFresh DEF InFlight, IInv, TableInv, AttemptsLinked, NoAttempt, Status
<1>7. /\ atts' \in [Attempt -> AttemptRow] /\ atts'[a] # NoAttempt
      /\ \A x \in Attempt : x # a => atts'[x] = atts[x]
      /\ AttemptsLinked' /\ OneInFlightPerRequest' /\ AnswerMatchesStatus' /\ Bounded'
  <2>1. "ORIGINAL" \in AttemptType /\ 1 \in Nat
    BY DEF AttemptType
  <2> QED
    BY <1>3, <1>4, <1>5, <1>6, <2>1, Inserted
<1>8. RequestsLinked'
  BY <1>2, <1>4 DEF RequestsLinked, IInv, TableInv, Status
<1>9. /\ task' \in [Handler -> Task] /\ reply' \in [Handler -> Reply \cup {None}]
      /\ TasksLinked' /\ OneWorkerPerAttempt'
  BY <1>3, <1>7, Started DEF InsertAttempt
<1>10. /\ idem' \in [Slot -> IdemRow \cup {None}]
       /\ convKey' \in [Conversation -> Slot \cup {None}]
       /\ reqKey' \in [Request -> Slot \cup {None}]
       /\ KeysLinked' /\ OneEffectPerKey'
  <2>1. KeyUnused(s, "CREATE_CONVERSATION") /\ LinkIdempotency(s, hash, c, r, a)
    BY DEF CreateWithQuestion
  <2>2. convKey' = [convKey EXCEPT ![c] = s] /\ reqKey' = [reqKey EXCEPT ![r] = s]
    BY DEF CreateWithQuestion, InsertRequest
  <2>3. hash \in Hash
    BY DEF Hash
  <2>4. \A x \in Attempt : atts[x] # NoAttempt => atts'[x] # NoAttempt
    BY <1>7
  <2>5. \A d \in Conversation : conv[d] # "absent" => conv'[d] # "absent"
    BY <1>2
  <2>6. \A x \in Request : reqs[x] # NoRequest => reqs'[x] # NoRequest
    BY <1>4
  <2> HIDE DEF hash
  <2> QED
    BY <1>2, <1>4, <1>5, <1>7, <2>1, <2>2, <2>3, <2>4, <2>5, <2>6, KeyTakesEffect
<1>11. conv' \in [Conversation -> {"absent", "live", "deleted"}]
  BY <1>1 DEF CreateWithQuestion
<1>12. TypeOK'
  BY <1>3, <1>4, <1>7, <1>9, <1>10, <1>11 DEF IInv, TypeOK
<1> QED
  BY <1>7, <1>8, <1>9, <1>10, <1>12 DEF IInv, TableInv

LEMMA SendMessageStep ==
  ASSUME IInv, NEW h \in Handler, NEW s \in Slot \cup {None}, NEW q \in Question,
         NEW c \in Conversation, NEW r \in Request, NEW a \in Attempt,
         SendMessage(h, s, q, c, r, a)
  PROVE  IInv'
<1> DEFINE hash == [conv |-> c, question |-> q]
           n == NextAttemptNumber(r)
<1>1. reqs \in [Request -> RequestRow]
  BY DEF IInv, TypeOK
<1>2. conv[c] = "live" /\ UNCHANGED <<conv, responses, usage, faults, convKey>>
  BY DEF SendMessage
<1>3. InsertAttempt(a, r, "ORIGINAL", n) /\ Generate(h, a) /\ n \in Nat
  BY AttemptNumberNat DEF SendMessage
<1>4. /\ reqs[r] = NoRequest /\ reqs' \in [Request -> RequestRow]
      /\ reqs'[r] = [conv |-> c, status |-> "PROCESSING"]
      /\ \A x \in Request : x # r => reqs'[x] = reqs[x]
  BY <1>1 DEF SendMessage, InsertRequest, RequestRow, Status
<1> HIDE DEF n
<1>5. reqs'[r] # NoRequest
  BY <1>4, NoneIsFresh DEF NoRequest
<1>6. ~InFlight(r)
  BY <1>4, NoneIsFresh DEF InFlight, IInv, TableInv, AttemptsLinked, NoAttempt, Status
<1>7. /\ atts' \in [Attempt -> AttemptRow] /\ atts'[a] # NoAttempt
      /\ \A x \in Attempt : x # a => atts'[x] = atts[x]
      /\ AttemptsLinked' /\ OneInFlightPerRequest' /\ AnswerMatchesStatus' /\ Bounded'
  <2>1. "ORIGINAL" \in AttemptType
    BY DEF AttemptType
  <2> QED
    BY <1>2, <1>3, <1>4, <1>5, <1>6, <2>1, Inserted
<1>8. RequestsLinked'
  BY <1>2, <1>4 DEF RequestsLinked, IInv, TableInv, Status
<1>9. /\ task' \in [Handler -> Task] /\ reply' \in [Handler -> Reply \cup {None}]
      /\ TasksLinked' /\ OneWorkerPerAttempt'
  BY <1>3, <1>7, Started DEF InsertAttempt
<1>10. /\ idem' \in [Slot -> IdemRow \cup {None}]
       /\ convKey' \in [Conversation -> Slot \cup {None}]
       /\ reqKey' \in [Request -> Slot \cup {None}]
       /\ KeysLinked' /\ OneEffectPerKey'
  <2>1. KeyUnused(s, "SEND_MESSAGE") /\ LinkIdempotency(s, hash, c, r, a)
    BY DEF SendMessage
  <2>2. reqKey' = [reqKey EXCEPT ![r] = s]
    BY DEF SendMessage, InsertRequest
  <2>3. hash \in Hash
    BY DEF Hash
  <2>4. \A x \in Attempt : atts[x] # NoAttempt => atts'[x] # NoAttempt
    BY <1>7
  <2>5. \A x \in Request : reqs[x] # NoRequest => reqs'[x] # NoRequest
    BY <1>4
  <2> HIDE DEF hash
  <2> QED
    BY <1>2, <1>4, <1>5, <1>7, <2>1, <2>2, <2>3, <2>4, <2>5, KeyTakesEffect
<1>11. TypeOK'
  BY <1>2, <1>4, <1>7, <1>9, <1>10 DEF IInv, TypeOK
<1> QED
  BY <1>7, <1>8, <1>9, <1>10, <1>11 DEF IInv, TableInv

\* Retry and regenerate: one more attempt for a request that exists.
LEMMA AgainStep ==
  ASSUME IInv, NEW h \in Handler, NEW r \in Request, NEW a \in Attempt, NEW type \in AttemptType,
         reqs[r] # NoRequest, ~InFlight(r), Generate(h, a),
         InsertAttempt(a, r, type, NextAttemptNumber(r)),
         UNCHANGED <<conv, reqs, responses, usage, idem, faults, convKey, reqKey>>
  PROVE  IInv'
<1>1. NextAttemptNumber(r) \in Nat
  BY AttemptNumberNat
<1>2. /\ atts' \in [Attempt -> AttemptRow] /\ atts'[a] # NoAttempt
      /\ \A x \in Attempt : x # a => atts'[x] = atts[x]
      /\ AttemptsLinked' /\ OneInFlightPerRequest' /\ AnswerMatchesStatus' /\ Bounded'
  BY <1>1, Inserted
<1>3. RequestsLinked'
  BY DEF RequestsLinked, IInv, TableInv
<1>4. /\ task' \in [Handler -> Task] /\ reply' \in [Handler -> Reply \cup {None}]
      /\ TasksLinked' /\ OneWorkerPerAttempt'
  BY <1>2, Started DEF InsertAttempt
<1>5. KeysLinked' /\ OneEffectPerKey'
  BY <1>2, KeysKept
<1>6. TypeOK'
  BY <1>2, <1>4 DEF IInv, TypeOK
<1> QED
  BY <1>2, <1>3, <1>4, <1>5, <1>6 DEF IInv, TableInv

LEMMA RetryStep ==
  ASSUME IInv, NEW h \in Handler, NEW failed \in Attempt, NEW a \in Attempt, Retry(h, failed, a)
  PROVE  IInv'
<1>1. atts[failed] # NoAttempt
  BY WithStatus DEF Retry, Status
<1>2. atts[failed].request \in Request /\ reqs[atts[failed].request] # NoRequest
  BY <1>1, RequestExists
<1>3. "RETRY" \in AttemptType
  BY DEF AttemptType
<1> QED
  BY <1>2, <1>3, AgainStep DEF Retry

LEMMA RegenerateStep ==
  ASSUME IInv, NEW h \in Handler, NEW r \in Request, NEW a \in Attempt, Regenerate(h, r, a)
  PROVE  IInv'
<1>1. "REGENERATION" \in AttemptType
  BY DEF AttemptType
<1> QED
  BY <1>1, AgainStep DEF Regenerate

LEMMA DeleteStep ==
  ASSUME IInv, NEW c \in Conversation, DeleteConversation(c)
  PROVE  IInv'
<1>1. conv \in [Conversation -> {"absent", "live", "deleted"}]
  BY DEF IInv, TypeOK
<1>2. /\ UNCHANGED <<reqs, atts, responses, usage, idem, task, reply, faults, convKey, reqKey>>
      /\ conv' \in [Conversation -> {"absent", "live", "deleted"}]
      /\ \A d \in Conversation : conv[d] # "absent" => conv'[d] # "absent"
  BY <1>1 DEF DeleteConversation
<1>3. TypeOK'
  BY <1>2 DEF IInv, TypeOK
<1>4. TableInv'
  BY <1>2 DEF IInv, TableInv, AttemptsLinked, RequestsLinked, OneInFlightPerRequest,
              AnswerMatchesStatus, Bounded
<1>5. KeysLinked' /\ OneEffectPerKey'
  BY <1>2, KeysKept
<1>6. TasksLinked' /\ OneWorkerPerAttempt'
  BY <1>2, TasksMoved
<1> QED
  BY <1>3, <1>4, <1>5, <1>6 DEF IInv

(***************************************************************************)
(* The steps of a handler under way.                                       *)
(***************************************************************************)
\* Only the handlers moved; usage events may have been stored and a fault counted.
LEMMA HandlersOnly ==
  ASSUME IInv, UNCHANGED <<conv, reqs, atts, responses, idem, convKey, reqKey>>,
         usage' \in [Attempt -> SUBSET UsageStatus], task' \in [Handler -> Task],
         reply' \in [Handler -> Reply \cup {None}], faults' \in 0..MaxFaults,
         TasksLinked', OneWorkerPerAttempt'
  PROVE  IInv'
<1>1. TypeOK'
  BY DEF IInv, TypeOK
<1>2. TableInv'
  BY TablesKept
<1>3. KeysLinked' /\ OneEffectPerKey'
  BY KeysKept
<1> QED
  BY <1>1, <1>2, <1>3 DEF IInv

\* A handler that generates goes on to another stage.
LEMMA GotoStep ==
  ASSUME IInv, NEW h \in Handler, task[h].pc \notin {"idle", "replay"},
         NEW stage \in Stage \ {"idle", "replay"}, Goto(h, stage)
  PROVE  /\ task' \in [Handler -> Task]
         /\ \A g \in Handler :
              \/ task'[g] = task[g]
              \/ /\ task'[g].attempt = task[g].attempt
                 /\ task[g].pc \notin {"idle", "replay"} /\ task'[g].pc \notin {"idle", "replay"}
<1>1. task \in [Handler -> Task]
  BY DEF IInv, TypeOK
<1>2. /\ task' \in [Handler -> Task]
      /\ task'[h] = [task[h] EXCEPT !.pc = stage]
      /\ \A g \in Handler : g # h => task'[g] = task[g]
  BY <1>1 DEF Task, Goto
<1>3. task'[h].pc = stage /\ task'[h].attempt = task[h].attempt
  BY <1>1, <1>2 DEF Task
<1> QED
  BY <1>2, <1>3

LEMMA GotoOnly ==
  ASSUME IInv, NEW h \in Handler, task[h].pc \notin {"idle", "replay"},
         NEW stage \in Stage \ {"idle", "replay"}, Goto(h, stage),
         UNCHANGED <<conv, reqs, atts, responses, idem, convKey, reqKey, reply>>,
         usage' \in [Attempt -> SUBSET UsageStatus], faults' \in 0..MaxFaults
  PROVE  IInv'
<1>1. task' \in [Handler -> Task] /\ TasksLinked' /\ OneWorkerPerAttempt'
  BY GotoStep, TasksMoved
<1>2. reply' \in [Handler -> Reply \cup {None}]
  BY DEF IInv, TypeOK
<1> QED
  BY <1>1, <1>2, HandlersOnly

\* A handler becomes idle and leaves a reply.
LEMMA ReplyOnly ==
  ASSUME IInv, NEW h \in Handler, UNCHANGED <<tables, faults>>,
         NEW answer \in Reply, reply' = [reply EXCEPT ![h] = answer],
         task' = [task EXCEPT ![h] = Idle]
  PROVE  IInv'
<1>1. /\ task \in [Handler -> Task] /\ reply \in [Handler -> Reply \cup {None}]
      /\ usage \in [Attempt -> SUBSET UsageStatus] /\ faults \in 0..MaxFaults
  BY DEF IInv, TypeOK
<1>2. Idle \in Task
  BY DEF Idle, Task, Stage, MaxRecovery
<1>3. /\ task' \in [Handler -> Task] /\ reply' \in [Handler -> Reply \cup {None}]
      /\ \A g \in Handler : task'[g] = task[g] \/ task'[g] = Idle
  BY <1>1, <1>2
<1>4. TasksLinked' /\ OneWorkerPerAttempt'
  BY <1>3, TasksMoved DEF tables
<1> QED
  BY <1>1, <1>3, <1>4, HandlersOnly DEF tables

\* What the completion and the failure transactions leave behind.
Ended ==
  /\ UNCHANGED <<conv, usage, idem, convKey, reqKey>>
  /\ atts' \in [Attempt -> AttemptRow] /\ reqs' \in [Request -> RequestRow]
  /\ responses' \subseteq ResponseRow
  /\ \A x \in Attempt : /\ atts[x].status \in Final => atts'[x] = atts[x]
                        /\ atts[x] # NoAttempt => atts'[x] # NoAttempt
  /\ TableInv' /\ KeysLinked' /\ OneEffectPerKey'

LEMMA FailEnds ==
  ASSUME IInv, NEW a \in Attempt, NEW link \in UsageStatus \cup {None}, FailIfProcessing(a, link)
  PROVE  Ended
<1>1. UNCHANGED <<conv, responses, usage, idem, convKey, reqKey>>
  BY DEF FailIfProcessing
<1>2. /\ atts \in [Attempt -> AttemptRow] /\ reqs \in [Request -> RequestRow]
      /\ responses \subseteq ResponseRow
  BY DEF IInv, TypeOK
<1>3. CASE atts[a].status = "PROCESSING"
  <2>1. MarkFailed(a, link)
    BY <1>3 DEF FailIfProcessing
  <2>2. /\ atts' \in [Attempt -> AttemptRow] /\ reqs' \in [Request -> RequestRow]
        /\ \A x \in Attempt : /\ x # a => atts'[x] = atts[x]
                              /\ atts[x] # NoAttempt => atts'[x] # NoAttempt
        /\ \A x \in Request : reqs[x] # NoRequest => reqs'[x] # NoRequest
        /\ TableInv'
    BY <1>1, <1>3, <2>1, Failed
  <2>3. KeysLinked' /\ OneEffectPerKey'
    BY <1>1, <2>2, KeysKept
  <2> QED
    BY <1>1, <1>2, <1>3, <2>2, <2>3 DEF Ended, Final
<1>4. CASE atts[a].status # "PROCESSING"
  <2>1. UNCHANGED <<reqs, atts>>
    BY <1>4 DEF FailIfProcessing
  <2>2. TableInv' /\ KeysLinked' /\ OneEffectPerKey'
    BY <1>1, <2>1, TablesKept, KeysKept
  <2> QED
    BY <1>1, <1>2, <2>1, <2>2 DEF Ended
<1> QED
  BY <1>3, <1>4

LEMMA CommitEnds ==
  ASSUME IInv, NEW a \in Attempt, atts[a].status = "PROCESSING", CommitCompletion(a)
  PROVE  Ended /\ atts'[a].status \in Final
<1>1. UNCHANGED <<conv, usage, idem, convKey, reqKey>>
  BY DEF CommitCompletion
<1>2. atts \in [Attempt -> AttemptRow] /\ responses \subseteq ResponseRow
  BY DEF IInv, TypeOK
<1> DEFINE Kept == /\ atts' \in [Attempt -> AttemptRow] /\ reqs' \in [Request -> RequestRow]
                   /\ responses' \subseteq ResponseRow
                   /\ \A x \in Attempt : /\ x # a => atts'[x] = atts[x]
                                         /\ atts[x] # NoAttempt => atts'[x] # NoAttempt
                   /\ \A x \in Request : reqs[x] # NoRequest => reqs'[x] # NoRequest
                   /\ TableInv'
<1>3. Kept /\ atts'[a].status \in Final
  <2>1. CASE conv[ConvOf(a)] = "deleted"
    <3>1. MarkFailed(a, "SUCCESS") /\ UNCHANGED responses
      BY <2>1 DEF CommitCompletion
    <3>2. "SUCCESS" \in UsageStatus \cup {None}
      BY DEF UsageStatus
    <3>3. atts'[a].status = "FAILED"
      BY <3>1, <1>2 DEF MarkFailed, AttemptRow
    <3> QED
      BY <1>1, <1>2, <3>1, <3>2, <3>3, Failed DEF Final
  <2>2. CASE conv[ConvOf(a)] # "deleted"
    <3>1. /\ responses' = responses \cup {[attempt |-> a, request |-> atts[a].request,
                                           variant |-> NextVariant(atts[a].request)]}
          /\ atts' = [atts EXCEPT ![a].status = "COMPLETED", ![a].usage = "SUCCESS"]
          /\ MirrorOriginal(a, "COMPLETED")
      BY <2>2 DEF CommitCompletion
    <3>2. atts'[a].status = "COMPLETED"
      BY <3>1, <1>2 DEF AttemptRow
    <3> QED
      BY <1>1, <3>1, <3>2, Answered DEF Final
  <2> QED
    BY <2>1, <2>2
<1>4. KeysLinked' /\ OneEffectPerKey'
  BY <1>1, <1>3, KeysKept
<1> QED
  BY <1>1, <1>3, <1>4 DEF Ended, Final

\* A handler whose transaction ended its attempt goes on to another stage.
LEMMA EndedGoto ==
  ASSUME IInv, NEW h \in Handler, task[h].pc \notin {"idle", "replay"},
         NEW stage \in Stage \ {"idle", "replay"}, Goto(h, stage),
         Ended, UNCHANGED reply, faults' \in 0..MaxFaults
  PROVE  IInv'
<1>1. task' \in [Handler -> Task] /\ TasksLinked' /\ OneWorkerPerAttempt'
  BY GotoStep, TasksMoved DEF Ended, Final
<1>2. TypeOK'
  BY <1>1 DEF Ended, IInv, TypeOK
<1> QED
  BY <1>1, <1>2 DEF Ended, IInv

\* A handler under way works for an attempt that exists.
LEMMA WorkingFor ==
  ASSUME IInv, NEW h \in Handler, task[h].pc # "idle"
  PROVE  task[h].attempt \in Attempt /\ atts[task[h].attempt] # NoAttempt
BY DEF IInv, TasksLinked

LEMMA ReplayStep ==
  ASSUME IInv, NEW h \in Handler, NEW s \in Slot, NEW hash \in Hash, Replay(h, s, hash)
  PROVE  IInv'
<1> DEFINE a == idem[s].attempt
           new == [Idle EXCEPT !.pc = "replay", !.attempt = a, !.seen = atts[a].status]
<1>1. /\ task \in [Handler -> Task] /\ reply \in [Handler -> Reply \cup {None}]
      /\ usage \in [Attempt -> SUBSET UsageStatus] /\ faults \in 0..MaxFaults
  BY DEF IInv, TypeOK
<1>2. a \in Attempt /\ atts[a] # NoAttempt
  <2>1. idem[s] \in IdemRow /\ a # None
    BY DEF Replay, IInv, TypeOK
  <2> QED
    BY <2>1 DEF Replay, IInv, KeysLinked, IdemRow
<1>3. atts[a].status \in Status
  BY <1>2, RequestExists
<1>4. /\ task' = [task EXCEPT ![h] = new] /\ reply' = [reply EXCEPT ![h] = None]
      /\ UNCHANGED <<conv, reqs, atts, responses, usage, idem, convKey, reqKey, faults>>
  BY DEF Replay, tables
<1> HIDE DEF a
<1>5. new \in Task /\ new.pc = "replay" /\ new.attempt = a /\ new.seen = atts[a].status
  <2>1. Idle \in Task
    BY DEF Idle, Task, Stage, MaxRecovery
  <2>2. "replay" \in Stage
    BY DEF Stage
  <2> QED
    BY <2>1, <2>2, <1>2, <1>3 DEF Task
<1> HIDE DEF new
<1>6. task'[h] = new /\ \A g \in Handler : g # h => task'[g] = task[g]
  BY <1>1, <1>4
<1>7. TasksLinked'
  <2> SUFFICES ASSUME NEW g \in Handler
               PROVE  /\ task'[g].pc = "idle" => task'[g] = Idle
                      /\ task'[g].pc # "idle" =>
                           task'[g].attempt \in Attempt /\ atts'[task'[g].attempt] # NoAttempt
                      /\ task'[g].pc = "replay" =>
                           task'[g].seen \in Status
                           /\ (task'[g].seen = "COMPLETED" =>
                               atts'[task'[g].attempt].status = "COMPLETED")
    BY DEF TasksLinked
  <2>1. CASE g = h
    BY <2>1, <1>2, <1>3, <1>4, <1>5, <1>6
  <2>2. CASE g # h
    BY <2>2, <1>4, <1>6 DEF IInv, TasksLinked
  <2> QED
    BY <2>1, <2>2
<1>8. OneWorkerPerAttempt'
  BY <1>5, <1>6 DEF IInv, OneWorkerPerAttempt
<1> QED
  BY <1>1, <1>4, <1>5, <1>7, <1>8, HandlersOnly

LEMMA ReplayRespondStep ==
  ASSUME IInv, NEW h \in Handler, ReplayRespond(h)
  PROVE  IInv'
<1> DEFINE a == task[h].attempt
           answer == [attempt  |-> a,
                      status   |-> IF conv[ConvOf(a)] = "live" THEN atts[a].status ELSE task[h].seen,
                      response |-> task[h].seen = "COMPLETED"]
<1>1. a \in Attempt /\ atts[a] # NoAttempt /\ task[h].seen \in Status
  BY DEF ReplayRespond, IInv, TasksLinked
<1>2. atts[a].status \in Status
  BY <1>1, RequestExists
<1>3. answer \in Reply
  BY <1>1, <1>2 DEF Reply
<1>4. /\ reply' = [reply EXCEPT ![h] = answer] /\ task' = [task EXCEPT ![h] = Idle]
      /\ UNCHANGED <<tables, faults>>
  BY DEF ReplayRespond
<1> HIDE DEF answer
<1> QED
  BY <1>3, <1>4, ReplyOnly

LEMMA ContextStep ==
  ASSUME IInv, NEW h \in Handler, AssembleContext(h) \/ ContextFails(h)
  PROVE  IInv'
<1>1. PICK stage \in {"provider", "finalize"} : Goto(h, stage)
  BY DEF AssembleContext, ContextFails
<1>2. stage \in Stage \ {"idle", "replay"}
  BY DEF Stage
<1>3. task[h].pc = "context" /\ UNCHANGED <<tables, reply, faults>>
  BY DEF AssembleContext, ContextFails
<1> QED
  BY <1>1, <1>2, <1>3, GotoOnly DEF tables, IInv, TypeOK

LEMMA ProviderAnswersStep ==
  ASSUME IInv, NEW h \in Handler, ProviderAnswers(h)
  PROVE  IInv'
<1>1. usage' \in [Attempt -> SUBSET UsageStatus]
  BY DEF ProviderAnswers, IInv, TypeOK, UsageStatus
<1>2. /\ task[h].pc = "provider" /\ Goto(h, "complete")
      /\ UNCHANGED <<conv, reqs, atts, responses, idem, reply, faults, convKey, reqKey>>
  BY DEF ProviderAnswers
<1>3. "complete" \in Stage \ {"idle", "replay"}
  BY DEF Stage
<1> QED
  BY <1>1, <1>2, <1>3, GotoOnly DEF IInv, TypeOK

LEMMA ProviderFailsStep ==
  ASSUME IInv, NEW h \in Handler, ProviderFails(h)
  PROVE  IInv'
<1>0. PICK stored \in SUBSET UsageStatus : \E link \in {None} \cup (stored \cap {"FAILURE"}) :
         /\ usage' = [usage EXCEPT ![task[h].attempt] = @ \cup stored]
         /\ task' = [task EXCEPT ![h].pc = "record_failure", ![h].usage = link]
  BY DEF ProviderFails
<1>1. PICK link \in {None} \cup (stored \cap {"FAILURE"}) :
         /\ usage' = [usage EXCEPT ![task[h].attempt] = @ \cup stored]
         /\ task' = [task EXCEPT ![h].pc = "record_failure", ![h].usage = link]
  BY <1>0
<1>2. /\ task \in [Handler -> Task] /\ reply \in [Handler -> Reply \cup {None}]
      /\ usage \in [Attempt -> SUBSET UsageStatus] /\ faults \in 0..MaxFaults
  BY DEF IInv, TypeOK
<1>3. /\ UNCHANGED <<conv, reqs, atts, responses, idem, reply, faults, convKey, reqKey>>
      /\ task[h].pc = "provider"
  BY DEF ProviderFails
<1>4. usage' \in [Attempt -> SUBSET UsageStatus]
  BY <1>1, <1>2
<1>5. link \in UsageStatus \cup {None} /\ "record_failure" \in Stage
  BY <1>1 DEF UsageStatus, Stage
<1>6. /\ task' \in [Handler -> Task]
      /\ task'[h] = [task[h] EXCEPT !.pc = "record_failure", !.usage = link]
      /\ \A g \in Handler : g # h => task'[g] = task[g]
  BY <1>1, <1>2, <1>5 DEF Task
<1>7. task'[h].pc = "record_failure" /\ task'[h].attempt = task[h].attempt
  BY <1>2, <1>6 DEF Task
<1>8. TasksLinked' /\ OneWorkerPerAttempt'
  BY <1>3, <1>6, <1>7, TasksMoved
<1> QED
  BY <1>2, <1>3, <1>4, <1>6, <1>8, HandlersOnly

LEMMA CompleteStep ==
  ASSUME IInv, NEW h \in Handler, Complete(h)
  PROVE  IInv'
<1> DEFINE a == task[h].attempt
<1>1. a \in Attempt /\ task[h].pc = "complete" /\ UNCHANGED faults
  BY WorkingFor DEF Complete
<1>2. CASE atts[a].status = "PROCESSING"
  <2> DEFINE answer == [attempt |-> a, status |-> atts'[a].status,
                        response |-> atts'[a].status = "COMPLETED"]
  <2>1. /\ CommitCompletion(a) /\ reply' = [reply EXCEPT ![h] = answer]
        /\ task' = [task EXCEPT ![h] = Idle]
    BY <1>2 DEF Complete
  <2>2. Ended /\ atts'[a].status \in Final
    BY <1>1, <1>2, <2>1, CommitEnds
  <2>3. answer \in Reply
    BY <1>1, <2>2 DEF Reply, Final, Status
  <2> HIDE DEF answer
  <2>4. task \in [Handler -> Task] /\ reply \in [Handler -> Reply \cup {None}]
    BY DEF IInv, TypeOK
  <2>5. Idle \in Task
    BY DEF Idle, Task, Stage, MaxRecovery
  <2>6. /\ task' \in [Handler -> Task] /\ reply' \in [Handler -> Reply \cup {None}]
        /\ \A g \in Handler : task'[g] = task[g] \/ task'[g] = Idle
    BY <2>1, <2>3, <2>4, <2>5
  <2>7. TasksLinked' /\ OneWorkerPerAttempt'
    BY <2>2, <2>6, TasksMoved DEF Ended, Final
  <2>8. TypeOK'
    BY <1>1, <2>2, <2>6 DEF Ended, IInv, TypeOK
  <2> QED
    BY <2>2, <2>7, <2>8 DEF Ended, IInv
<1>3. CASE atts[a].status # "PROCESSING"
  <2>1. Goto(h, "record_failure") /\ UNCHANGED <<tables, reply>>
    BY <1>3 DEF Complete
  <2>2. "record_failure" \in Stage \ {"idle", "replay"}
    BY DEF Stage
  <2> QED
    BY <1>1, <2>1, <2>2, GotoOnly DEF tables, IInv, TypeOK
<1> QED
  BY <1>2, <1>3

LEMMA CompletionErrorStep ==
  ASSUME IInv, NEW h \in Handler, CompletionError(h)
  PROVE  IInv'
<1> DEFINE a == task[h].attempt
<1>1. /\ a \in Attempt /\ task[h].pc = "complete" /\ Goto(h, "record_failure") /\ UNCHANGED reply
      /\ faults' \in 0..MaxFaults
  BY WorkingFor, FaultBound DEF CompletionError, IInv, TypeOK
<1>2. "record_failure" \in Stage \ {"idle", "replay"}
  BY DEF Stage
<1>3. CASE UNCHANGED tables
  BY <1>1, <1>2, <1>3, GotoOnly DEF tables, IInv, TypeOK
<1>4. CASE atts[a].status = "PROCESSING" /\ CommitCompletion(a)
  BY <1>1, <1>2, <1>4, CommitEnds, EndedGoto
<1> QED
  BY <1>3, <1>4 DEF CompletionError

LEMMA FailureStep ==
  ASSUME IInv, NEW h \in Handler, RecordFailure(h) \/ Finalize(h)
  PROVE  IInv'
<1>1. /\ task[h].pc \in {"record_failure", "finalize"}
      /\ Goto(h, "respond") /\ UNCHANGED <<reply, faults>>
  BY DEF RecordFailure, Finalize
<1>2. PICK link \in {task[h].usage, None} : FailIfProcessing(task[h].attempt, link)
  BY DEF RecordFailure, Finalize
<1>3. task[h].attempt \in Attempt
  BY <1>1, WorkingFor
<1>4. link \in UsageStatus \cup {None}
  BY <1>2 DEF IInv, TypeOK, Task
<1>5. Ended
  BY <1>2, <1>3, <1>4, FailEnds
<1>6. "respond" \in Stage \ {"idle", "replay"}
  BY DEF Stage
<1> QED
  BY <1>1, <1>5, <1>6, EndedGoto DEF IInv, TypeOK

LEMMA RecordFailureErrorStep ==
  ASSUME IInv, NEW h \in Handler, RecordFailureError(h)
  PROVE  IInv'
<1>1. /\ task[h].pc = "record_failure" /\ Goto(h, "respond") /\ UNCHANGED <<tables, reply>>
      /\ faults' \in 0..MaxFaults
  BY FaultBound DEF RecordFailureError, IInv, TypeOK
<1>2. "respond" \in Stage \ {"idle", "replay"}
  BY DEF Stage
<1> QED
  BY <1>1, <1>2, GotoOnly DEF tables, IInv, TypeOK

LEMMA FinalizeErrorStep ==
  ASSUME IInv, NEW h \in Handler, FinalizeError(h)
  PROVE  IInv'
<1> DEFINE tries == task[h].tries + 1
           stage == IF tries = MaxRecovery THEN "respond" ELSE "finalize"
<1>1. /\ task \in [Handler -> Task] /\ reply \in [Handler -> Reply \cup {None}]
      /\ usage \in [Attempt -> SUBSET UsageStatus]
  BY DEF IInv, TypeOK
<1>2. /\ task[h].pc = "finalize" /\ UNCHANGED <<tables, reply>> /\ faults' \in 0..MaxFaults
  BY FaultBound DEF FinalizeError, IInv, TypeOK
<1>3. task' = [task EXCEPT ![h].tries = tries, ![h].pc = stage]
  BY <1>2 DEF FinalizeError
<1>4. tries \in 0..MaxRecovery
  BY <1>1, <1>2 DEF FinalizeError, Task, MaxRecovery
<1>5. stage \in Stage \ {"idle", "replay"}
  BY DEF Stage
<1> HIDE DEF tries, stage
<1>6. /\ task' \in [Handler -> Task]
      /\ task'[h] = [task[h] EXCEPT !.tries = tries, !.pc = stage]
      /\ \A g \in Handler : g # h => task'[g] = task[g]
  BY <1>1, <1>3, <1>4, <1>5 DEF Task
<1>7. task'[h].pc = stage /\ task'[h].attempt = task[h].attempt
  BY <1>1, <1>6 DEF Task
<1>8. TasksLinked' /\ OneWorkerPerAttempt'
  BY <1>2, <1>5, <1>6, <1>7, TasksMoved DEF tables
<1> QED
  BY <1>1, <1>2, <1>6, <1>8, HandlersOnly DEF tables

LEMMA RespondStep ==
  ASSUME IInv, NEW h \in Handler, Respond(h)
  PROVE  IInv'
<1> DEFINE a == task[h].attempt
<1>1. PICK status \in {"FAILED"} \cup (IF conv[ConvOf(a)] = "live" THEN {atts[a].status} ELSE {}) :
         reply' = [reply EXCEPT ![h] = [attempt |-> a, status |-> status, response |-> FALSE]]
  BY DEF Respond
<1>2. a \in Attempt /\ atts[a] # NoAttempt
  BY WorkingFor DEF Respond
<1>3. status \in Status
  BY <1>1, <1>2, RequestExists DEF Status
<1>4. [attempt |-> a, status |-> status, response |-> FALSE] \in Reply
  BY <1>2, <1>3 DEF Reply
<1>5. task' = [task EXCEPT ![h] = Idle] /\ UNCHANGED <<tables, faults>>
  BY DEF Respond
<1> QED
  BY <1>1, <1>4, <1>5, ReplyOnly

LEMMA CrashStep ==
  ASSUME IInv, Crash
  PROVE  IInv'
<1>1. /\ task' = [h \in Handler |-> Idle] /\ reply' = [h \in Handler |-> None]
      /\ UNCHANGED tables /\ faults' \in 0..MaxFaults
  BY FaultBound DEF Crash, IInv, TypeOK
<1>2. Idle \in Task
  BY DEF Idle, Task, Stage, MaxRecovery
<1>3. task' \in [Handler -> Task] /\ reply' \in [Handler -> Reply \cup {None}]
  BY <1>1, <1>2
<1>4. TasksLinked' /\ OneWorkerPerAttempt'
  BY <1>1, TasksMoved DEF tables
<1>5. usage' \in [Attempt -> SUBSET UsageStatus]
  BY <1>1 DEF tables, IInv, TypeOK
<1> QED
  BY <1>1, <1>3, <1>4, <1>5, HandlersOnly DEF tables

LEMMA StutterStep ==
  ASSUME IInv, UNCHANGED vars
  PROVE  IInv'
<1>1. UNCHANGED <<conv, reqs, atts, responses, idem, convKey, reqKey, usage, task, reply, faults>>
  BY DEF vars
<1>2. TypeOK'
  BY <1>1 DEF IInv, TypeOK
<1>3. TableInv' /\ KeysLinked' /\ OneEffectPerKey'
  BY <1>1, TablesKept, KeysKept
<1>4. TasksLinked' /\ OneWorkerPerAttempt'
  BY <1>1, TasksMoved
<1> QED
  BY <1>2, <1>3, <1>4 DEF IInv

-----------------------------------------------------------------------------
LEMMA NextInv ==
  ASSUME IInv, [Next]_vars
  PROVE  IInv'
<1>1. ASSUME NEW h \in Handler, ClientCall(h) PROVE IInv'
  <2>1. ASSUME NEW s \in Slot \cup {None}, NEW c \in Conversation, CreateEmpty(h, s, c)
        PROVE  IInv'
    BY <2>1, CreateEmptyStep
  <2>2. ASSUME NEW s \in Slot \cup {None}, NEW c \in Conversation, NEW q \in Question,
               NEW r \in Request, NEW a \in Attempt,
               CreateWithQuestion(h, s, q, c, r, a) \/ SendMessage(h, s, q, c, r, a)
        PROVE  IInv'
    BY <2>2, CreateWithQuestionStep, SendMessageStep
  <2>3. ASSUME NEW s \in Slot, NEW hash \in Hash, Replay(h, s, hash) PROVE IInv'
    BY <2>3, ReplayStep
  <2>4. ASSUME NEW a \in Attempt, NEW b \in Attempt, Retry(h, a, b) PROVE IInv'
    BY <2>4, RetryStep
  <2>5. ASSUME NEW r \in Request, NEW a \in Attempt, Regenerate(h, r, a) PROVE IInv'
    BY <2>5, RegenerateStep
  <2> QED
    BY <1>1, <2>1, <2>2, <2>3, <2>4, <2>5 DEF ClientCall
<1>2. ASSUME NEW h \in Handler, Work(h) PROVE IInv'
  BY <1>2, ContextStep, ProviderAnswersStep, ProviderFailsStep, CompleteStep, FailureStep,
     RespondStep, ReplayRespondStep DEF Work
<1>3. ASSUME NEW h \in Handler, Fault(h) PROVE IInv'
  BY <1>3, CompletionErrorStep, RecordFailureErrorStep, FinalizeErrorStep DEF Fault
<1>4. ASSUME NEW c \in Conversation, DeleteConversation(c) PROVE IInv'
  BY <1>4, DeleteStep
<1>5. CASE Crash
  BY <1>5, CrashStep
<1>6. CASE UNCHANGED vars
  BY <1>6, StutterStep
<1> QED
  BY <1>1, <1>2, <1>3, <1>4, <1>5, <1>6 DEF Next

\* Everything below is a consequence of this.
THEOREM Invariance == Spec => []IInv
<1>1. Init => IInv
  BY InitInv
<1>2. IInv /\ [Next]_vars => IInv'
  BY NextInv
<1> QED
  BY <1>1, <1>2, PTL DEF Spec

\* The variables of the model keep their types: numbers of attempts and variants
\* stay natural, statuses are the ones of MESSAGE_STATUSES.
THEOREM TypeCorrect == Spec => []TypeOK
<1>1. IInv => TypeOK
  BY DEF IInv
<1> QED
  BY <1>1, Invariance, PTL

\* Foreign keys hold and an idempotency key is stored with its effect.
THEOREM LinkedCorrect == Spec => []Linked
<1>1. IInv => Linked
  BY DEF IInv, TableInv, Linked
<1> QED
  BY <1>1, Invariance, PTL

\* Retries and regenerations never put two attempts of a request in flight.
THEOREM OneInFlightCorrect == Spec => []OneInFlightPerRequest
<1>1. IInv => OneInFlightPerRequest
  BY DEF IInv, TableInv
<1> QED
  BY <1>1, Invariance, PTL

\* An idempotency key takes effect at most once.
THEOREM IdempotencyCorrect == Spec => []OneEffectPerKey
<1>1. IInv => OneEffectPerKey
  BY DEF IInv
<1> QED
  BY <1>1, Invariance, PTL

\* An attempt is COMPLETED exactly when one response is stored for it.
THEOREM AnswersCorrect == Spec => []AnswerMatchesStatus
<1>1. IInv => AnswerMatchesStatus
  BY DEF IInv, TableInv
<1> QED
  BY <1>1, Invariance, PTL

\* An attempt is generated by the handler that inserted it and no other.
THEOREM OneWorkerCorrect == Spec => []OneWorkerPerAttempt
<1>1. IInv => OneWorkerPerAttempt
  BY DEF IInv
<1> QED
  BY <1>1, Invariance, PTL

(***************************************************************************)
(* An ended attempt is never touched again.                                *)
(***************************************************************************)
LEMMA InsertKeepsEnded ==
  ASSUME IInv, NEW a \in Attempt, NEW r, NEW type, NEW n, InsertAttempt(a, r, type, n),
         NEW x \in Attempt, atts[x].status \in Final
  PROVE  atts'[x] = atts[x]
<1>1. atts[a] = NoAttempt /\ atts \in [Attempt -> AttemptRow]
  BY DEF InsertAttempt, IInv, TypeOK
<1>2. atts[x] # NoAttempt
  BY WithStatus DEF Final, Status
<1> QED
  BY <1>1, <1>2 DEF InsertAttempt

LEMMA NextKeepsEnded ==
  ASSUME IInv, Next, NEW x \in Attempt, atts[x].status \in Final
  PROVE  atts'[x] = atts[x]
<1>1. ASSUME NEW h \in Handler, ClientCall(h) PROVE atts'[x] = atts[x]
  <2>1. ASSUME NEW s, NEW c, CreateEmpty(h, s, c) PROVE atts'[x] = atts[x]
    BY <2>1 DEF CreateEmpty
  <2>2. ASSUME NEW s, NEW c, NEW q, NEW r, NEW a \in Attempt,
               CreateWithQuestion(h, s, q, c, r, a) \/ SendMessage(h, s, q, c, r, a)
        PROVE  atts'[x] = atts[x]
    <3>1. PICK n : InsertAttempt(a, r, "ORIGINAL", n)
      BY <2>2 DEF CreateWithQuestion, SendMessage
    <3> QED
      BY <3>1, InsertKeepsEnded
  <2>3. ASSUME NEW s, NEW hash, Replay(h, s, hash) PROVE atts'[x] = atts[x]
    BY <2>3 DEF Replay, tables
  <2>4. ASSUME NEW failed, NEW a \in Attempt, Retry(h, failed, a) PROVE atts'[x] = atts[x]
    BY <2>4, InsertKeepsEnded DEF Retry
  <2>5. ASSUME NEW r, NEW a \in Attempt, Regenerate(h, r, a) PROVE atts'[x] = atts[x]
    BY <2>5, InsertKeepsEnded DEF Regenerate
  <2> QED
    BY <1>1, <2>1, <2>2, <2>3, <2>4, <2>5 DEF ClientCall
<1>2. ASSUME NEW h \in Handler, Work(h) PROVE atts'[x] = atts[x]
  <2>1. CASE AssembleContext(h) \/ ContextFails(h) \/ Respond(h) \/ ReplayRespond(h)
    BY <2>1 DEF AssembleContext, ContextFails, Respond, ReplayRespond, tables
  <2>2. CASE ProviderAnswers(h) \/ ProviderFails(h)
    BY <2>2 DEF ProviderAnswers, ProviderFails
  <2>3. CASE Complete(h)
    <3>1. task[h].attempt \in Attempt
      BY <2>3, WorkingFor DEF Complete
    <3> QED
      BY <2>3, <3>1, CommitEnds DEF Complete, tables, Ended
  <2>4. CASE RecordFailure(h) \/ Finalize(h)
    <3>1. PICK link \in {task[h].usage, None} : FailIfProcessing(task[h].attempt, link)
      BY <2>4 DEF RecordFailure, Finalize
    <3>2. task[h].attempt \in Attempt /\ link \in UsageStatus \cup {None}
      BY <2>4, <3>1, WorkingFor DEF RecordFailure, Finalize, IInv, TypeOK, Task
    <3> QED
      BY <3>1, <3>2, FailEnds DEF Ended
  <2> QED
    BY <1>2, <2>1, <2>2, <2>3, <2>4 DEF Work
<1>3. ASSUME NEW h \in Handler, Fault(h) PROVE atts'[x] = atts[x]
  <2>1. CASE CompletionError(h)
    <3>1. task[h].attempt \in Attempt
      BY <2>1, WorkingFor DEF CompletionError
    <3> QED
      BY <2>1, <3>1, CommitEnds DEF CompletionError, tables, Ended
  <2>2. CASE RecordFailureError(h) \/ FinalizeError(h)
    BY <2>2 DEF RecordFailureError, FinalizeError, tables
  <2> QED
    BY <1>3, <2>1, <2>2 DEF Fault
<1>4. ASSUME NEW c \in Conversation, DeleteConversation(c) PROVE atts'[x] = atts[x]
  BY <1>4 DEF DeleteConversation
<1>5. CASE Crash
  BY <1>5 DEF Crash, tables
<1> QED
  BY <1>1, <1>2, <1>3, <1>4, <1>5 DEF Next

\* A late failure never undoes a completion whose acknowledgement was lost.
THEOREM EndedCorrect == Spec => EndedIsFinal
<1>1. IInv /\ [Next]_vars => [\A a \in Attempt : atts[a].status \in Final => atts'[a] = atts[a]]_vars
  BY NextKeepsEnded
<1> QED
  BY <1>1, Invariance, PTL DEF Spec, EndedIsFinal

-----------------------------------------------------------------------------
(***************************************************************************)
(* What the conversation service promises, for any number of rows,         *)
(* handlers and faults: a deleted conversation gains nothing, no reply     *)
(* claims what is not stored, the protocol implements GenerationPromise,   *)
(* and its rows agree with one another.                                    *)
(*                                                                         *)
(* All of them need to know of a step only what it does to the tables.     *)
(* StepKind sorts the steps by that: a call that inserts rows, a delete,   *)
(* an attempt that fails or is answered, and all the others, which leave   *)
(* the tables as they are.                                                 *)
(***************************************************************************)

Still == UNCHANGED <<conv, reqs, atts, responses, idem>>

EndsAs(a, status) ==
    /\ atts[a].status = "PROCESSING" /\ atts'[a].status = status
    /\ \A x \in Attempt : /\ x # a => atts'[x] = atts[x]
                          /\ atts'[x].request = atts[x].request
    /\ \A r \in Request : reqs'[r].conv = reqs[r].conv
    /\ UNCHANGED <<conv, idem>>

Fails(a) == EndsAs(a, "FAILED") /\ UNCHANGED responses

Answers(a) ==
    /\ EndsAs(a, "COMPLETED") /\ conv[ConvOf(a)] # "deleted"
    /\ \E n : responses' = responses \cup {[attempt |-> a, request |-> atts[a].request, variant |-> n]}

\* The transactions that insert an attempt, and those that open a conversation.
Inserts(h) ==
    \/ \E s \in Slot \cup {None}, q \in Question, c \in Conversation, r \in Request, a \in Attempt :
          CreateWithQuestion(h, s, q, c, r, a) \/ SendMessage(h, s, q, c, r, a)
    \/ \E failed, a \in Attempt : Retry(h, failed, a)
    \/ \E r \in Request, a \in Attempt : Regenerate(h, r, a)

OpensEmpty(h) == \E s \in Slot \cup {None}, c \in Conversation : CreateEmpty(h, s, c)

Deletes == \E c \in Conversation : DeleteConversation(c)

-----------------------------------------------------------------------------
LEMMA MarkFailedKind ==
  ASSUME IInv, NEW a \in Attempt, atts[a].status = "PROCESSING",
         NEW link \in UsageStatus \cup {None}, MarkFailed(a, link), UNCHANGED <<conv, responses, idem>>
  PROVE  Fails(a)
<1>1. atts \in [Attempt -> AttemptRow]
  BY DEF IInv, TypeOK
<1>2. atts' = [atts EXCEPT ![a].status = "FAILED", ![a].usage = link]
  BY DEF MarkFailed
<1>3. atts'[a].status = "FAILED" /\ atts'[a].request = atts[a].request
  BY <1>1, <1>2 DEF AttemptRow
<1>4. /\ \A x \in Attempt : x # a => atts'[x] = atts[x]
      /\ \A r \in Request : reqs'[r].conv = reqs[r].conv
  BY Failed
<1> QED
  BY <1>3, <1>4 DEF Fails, EndsAs

LEMMA FailKind ==
  ASSUME IInv, NEW a \in Attempt, NEW link \in UsageStatus \cup {None}, FailIfProcessing(a, link)
  PROVE  Still \/ Fails(a)
<1>1. CASE atts[a].status = "PROCESSING"
  BY <1>1, MarkFailedKind DEF FailIfProcessing
<1>2. CASE atts[a].status # "PROCESSING"
  BY <1>2 DEF FailIfProcessing, Still
<1> QED
  BY <1>1, <1>2

LEMMA CommitKind ==
  ASSUME IInv, NEW a \in Attempt, atts[a].status = "PROCESSING", CommitCompletion(a)
  PROVE  Fails(a) \/ Answers(a)
<1>1. UNCHANGED <<conv, idem>>
  BY DEF CommitCompletion
<1>2. CASE conv[ConvOf(a)] = "deleted"
  <2>1. MarkFailed(a, "SUCCESS") /\ UNCHANGED responses
    BY <1>2 DEF CommitCompletion
  <2>2. "SUCCESS" \in UsageStatus \cup {None}
    BY DEF UsageStatus
  <2> QED
    BY <1>1, <2>1, <2>2, MarkFailedKind
<1>3. CASE conv[ConvOf(a)] # "deleted"
  <2>1. /\ responses' = responses \cup {[attempt |-> a, request |-> atts[a].request,
                                         variant |-> NextVariant(atts[a].request)]}
        /\ atts' = [atts EXCEPT ![a].status = "COMPLETED", ![a].usage = "SUCCESS"]
        /\ MirrorOriginal(a, "COMPLETED")
    BY <1>3 DEF CommitCompletion
  <2>2. atts \in [Attempt -> AttemptRow]
    BY DEF IInv, TypeOK
  <2>3. atts'[a].status = "COMPLETED" /\ atts'[a].request = atts[a].request
    BY <2>1, <2>2 DEF AttemptRow
  <2>4. /\ \A x \in Attempt : x # a => atts'[x] = atts[x]
        /\ \A r \in Request : reqs'[r].conv = reqs[r].conv
    BY <1>1, <2>1, Answered
  <2>5. EndsAs(a, "COMPLETED")
    BY <1>1, <2>3, <2>4 DEF EndsAs
  <2> QED
    BY <1>3, <2>1, <2>5 DEF Answers
<1> QED
  BY <1>2, <1>3

\* What a step does to the tables.
LEMMA StepKind ==
  ASSUME IInv, [Next]_vars
  PROVE  \/ Still
         \/ \E a \in Attempt : Fails(a) \/ Answers(a)
         \/ \E h \in Handler : Inserts(h) \/ OpensEmpty(h)
         \/ Deletes
<1> DEFINE Sorted == \/ Still
                     \/ \E a \in Attempt : Fails(a) \/ Answers(a)
                     \/ \E h \in Handler : Inserts(h) \/ OpensEmpty(h)
                     \/ Deletes
<1>1. ASSUME NEW h \in Handler, ClientCall(h) PROVE Sorted
  <2>1. CASE \E s \in Slot, hash \in Hash : Replay(h, s, hash)
    BY <2>1 DEF Replay, tables, Still
  <2>2. CASE Inserts(h) \/ OpensEmpty(h)
    BY <2>2
  <2> QED
    BY <1>1, <2>1, <2>2 DEF ClientCall, Inserts, OpensEmpty
<1>2. ASSUME NEW h \in Handler, Work(h) PROVE Sorted
  <2>1. CASE AssembleContext(h) \/ ContextFails(h) \/ Respond(h) \/ ReplayRespond(h)
    BY <2>1 DEF AssembleContext, ContextFails, Respond, ReplayRespond, tables, Still
  <2>2. CASE ProviderAnswers(h) \/ ProviderFails(h)
    BY <2>2 DEF ProviderAnswers, ProviderFails, Still
  <2>3. CASE Complete(h)
    <3>1. task[h].attempt \in Attempt
      BY <2>3, WorkingFor DEF Complete
    <3>2. CASE atts[task[h].attempt].status = "PROCESSING"
      BY <2>3, <3>1, <3>2, CommitKind DEF Complete
    <3>3. CASE atts[task[h].attempt].status # "PROCESSING"
      BY <2>3, <3>3 DEF Complete, tables, Still
    <3> QED
      BY <3>2, <3>3
  <2>4. CASE RecordFailure(h) \/ Finalize(h)
    <3>1. PICK link \in {task[h].usage, None} : FailIfProcessing(task[h].attempt, link)
      BY <2>4 DEF RecordFailure, Finalize
    <3>2. task[h].attempt \in Attempt /\ link \in UsageStatus \cup {None}
      BY <2>4, <3>1, WorkingFor DEF RecordFailure, Finalize, IInv, TypeOK, Task
    <3> QED
      BY <3>1, <3>2, FailKind
  <2> QED
    BY <1>2, <2>1, <2>2, <2>3, <2>4 DEF Work
<1>3. ASSUME NEW h \in Handler, Fault(h) PROVE Sorted
  <2>1. CASE CompletionError(h)
    <3>1. task[h].attempt \in Attempt
      BY <2>1, WorkingFor DEF CompletionError
    <3>2. CASE UNCHANGED tables
      BY <3>2 DEF tables, Still
    <3>3. CASE atts[task[h].attempt].status = "PROCESSING" /\ CommitCompletion(task[h].attempt)
      BY <3>1, <3>3, CommitKind
    <3> QED
      BY <2>1, <3>2, <3>3 DEF CompletionError
  <2>2. CASE RecordFailureError(h) \/ FinalizeError(h)
    BY <2>2 DEF RecordFailureError, FinalizeError, tables, Still
  <2> QED
    BY <1>3, <2>1, <2>2 DEF Fault
<1>4. CASE Deletes
  BY <1>4
<1>5. CASE Crash \/ UNCHANGED vars
  BY <1>5 DEF Crash, vars, tables, Still
<1> QED
  BY <1>1, <1>2, <1>3, <1>4, <1>5 DEF Next, Deletes

-----------------------------------------------------------------------------
(* A deleted conversation gains nothing. *)

Frozen(c) ==
    /\ conv'[c] = "deleted"
    /\ \A r \in Request : reqs'[r].conv = c => reqs[r].conv = c
    /\ \A a \in Attempt : atts'[a].request # atts[a].request => reqs'[atts'[a].request].conv # c
    /\ \A m \in responses' \ responses : reqs[m.request].conv # c

\* A new attempt is for a request of another conversation, one that is live or new.
LEMMA InsertsElsewhere ==
  ASSUME IInv, NEW c \in Conversation, conv[c] = "deleted", NEW h \in Handler, Inserts(h)
  PROVE  Frozen(c)
<1>1. /\ atts \in [Attempt -> AttemptRow] /\ reqs \in [Request -> RequestRow]
      /\ conv \in [Conversation -> {"absent", "live", "deleted"}]
  BY DEF IInv, TypeOK
<1>2. ASSUME NEW s, NEW q, NEW d \in Conversation, NEW r \in Request, NEW a \in Attempt,
             CreateWithQuestion(h, s, q, d, r, a) \/ SendMessage(h, s, q, d, r, a)
      PROVE  Frozen(c)
  <2>1. d # c /\ conv'[c] = "deleted" /\ UNCHANGED responses
    BY <1>1, <1>2 DEF CreateWithQuestion, SendMessage
  <2>2. /\ reqs' = [reqs EXCEPT ![r] = [conv |-> d, status |-> "PROCESSING"]]
        /\ \E n : atts' = [atts EXCEPT ![a] = [status |-> "PROCESSING", type |-> "ORIGINAL",
                                               request |-> r, number |-> n, usage |-> None]]
    BY <1>2 DEF CreateWithQuestion, SendMessage, InsertRequest, InsertAttempt
  <2>3. reqs'[r].conv = d /\ \A x \in Request : x # r => reqs'[x] = reqs[x]
    BY <1>1, <2>2
  <2>4. \A x \in Attempt : atts'[x].request \in {atts[x].request, r}
    BY <1>1, <2>2
  <2> QED
    BY <2>1, <2>3, <2>4 DEF Frozen
<1>3. ASSUME NEW r \in Request, NEW a \in Attempt, NEW type, NEW n, InsertAttempt(a, r, type, n),
             conv[reqs[r].conv] = "live", UNCHANGED <<conv, reqs, responses>>
      PROVE  Frozen(c)
  <2>1. reqs[r].conv # c
    BY <1>3
  <2>2. \A x \in Attempt : atts'[x].request \in {atts[x].request, r}
    BY <1>1, <1>3 DEF InsertAttempt
  <2> QED
    BY <1>3, <2>1, <2>2 DEF Frozen
<1>4. ASSUME NEW failed \in Attempt, NEW a \in Attempt, Retry(h, failed, a) PROVE Frozen(c)
  <2>1. atts[failed] # NoAttempt
    BY <1>4, WithStatus DEF Retry, Status
  <2>2. atts[failed].request \in Request
    BY <2>1, RequestExists
  <2> QED
    BY <1>3, <1>4, <2>2 DEF Retry, ConvOf
<1>5. ASSUME NEW r \in Request, NEW a \in Attempt, Regenerate(h, r, a) PROVE Frozen(c)
  BY <1>3, <1>5 DEF Regenerate
<1> QED
  BY <1>2, <1>4, <1>5 DEF Inserts

LEMMA DeletedFrozen ==
  ASSUME IInv, [Next]_vars, NEW c \in Conversation, conv[c] = "deleted"
  PROVE  Frozen(c)
<1>1. conv \in [Conversation -> {"absent", "live", "deleted"}]
  BY DEF IInv, TypeOK
<1>2. CASE Still
  BY <1>2 DEF Still, Frozen
<1>3. ASSUME NEW a \in Attempt, Fails(a) PROVE Frozen(c)
  BY <1>3 DEF Fails, EndsAs, Frozen
<1>4. ASSUME NEW a \in Attempt, Answers(a) PROVE Frozen(c)
  <2>1. \A m \in responses' \ responses : m.request = atts[a].request
    BY <1>4 DEF Answers
  <2> QED
    BY <1>4, <2>1 DEF Answers, EndsAs, Frozen, ConvOf
<1>5. ASSUME NEW h \in Handler, OpensEmpty(h) PROVE Frozen(c)
  BY <1>1, <1>5 DEF OpensEmpty, CreateEmpty, Frozen
<1>6. CASE Deletes
  BY <1>1, <1>6 DEF Deletes, DeleteConversation, Frozen
<1> QED
  BY StepKind, InsertsElsewhere, <1>2, <1>3, <1>4, <1>5, <1>6

\* Nothing is written to a deleted conversation, though generations still run in it.
THEOREM DeletedCorrect == Spec => DeletedIsFrozen
<1>1. IInv /\ [Next]_vars => [\A c \in Conversation : conv[c] = "deleted" =>
         /\ conv'[c] = "deleted"
         /\ \A r \in Request : reqs'[r].conv = c => reqs[r].conv = c
         /\ \A a \in Attempt : atts'[a].request # atts[a].request => reqs'[atts'[a].request].conv # c
         /\ \A m \in responses' \ responses : reqs[m.request].conv # c]_vars
  BY DeletedFrozen DEF Frozen
<1> QED
  BY <1>1, Invariance, PTL DEF Spec, DeletedIsFrozen

-----------------------------------------------------------------------------
(* No reply claims what is not stored. *)

Truthful(h) ==
    reply[h] # None =>
        /\ reply[h].status = "COMPLETED" => atts[reply[h].attempt].status = "COMPLETED"
        /\ reply[h].response => \E m \in responses : m.attempt = reply[h].attempt

LEMMA AnswersStay == ASSUME IInv, [Next]_vars PROVE responses \subseteq responses'
<1>1. ASSUME NEW h \in Handler, Inserts(h) PROVE UNCHANGED responses
  <2>1. ASSUME NEW s, NEW q, NEW c, NEW r, NEW a, CreateWithQuestion(h, s, q, c, r, a)
        PROVE  UNCHANGED responses
    BY <2>1 DEF CreateWithQuestion
  <2>2. ASSUME NEW s, NEW q, NEW c, NEW r, NEW a, SendMessage(h, s, q, c, r, a)
        PROVE  UNCHANGED responses
    BY <2>2 DEF SendMessage
  <2>3. ASSUME NEW failed, NEW a, Retry(h, failed, a) PROVE UNCHANGED responses
    BY <2>3 DEF Retry
  <2>4. ASSUME NEW r, NEW a, Regenerate(h, r, a) PROVE UNCHANGED responses
    BY <2>4 DEF Regenerate
  <2> QED
    BY <1>1, <2>1, <2>2, <2>3, <2>4 DEF Inserts
<1>2. ASSUME NEW h \in Handler, OpensEmpty(h) PROVE UNCHANGED responses
  BY <1>2 DEF OpensEmpty, CreateEmpty
<1>3. CASE Deletes
  BY <1>3 DEF Deletes, DeleteConversation
<1>4. CASE Still \/ \E a \in Attempt : Fails(a) \/ Answers(a)
  BY <1>4 DEF Still, Fails, Answers
<1> QED
  BY StepKind, <1>1, <1>2, <1>3, <1>4

\* What was true of a reply stays true: completions are final and answers are kept.
LEMMA TruthStays ==
  ASSUME IInv, [Next]_vars, NEW h \in Handler, Truthful(h), reply'[h] = reply[h] \/ reply'[h] = None
  PROVE  Truthful(h)'
<1>1. CASE reply'[h] = None
  BY <1>1 DEF Truthful
<1>2. CASE reply'[h] = reply[h] /\ reply[h] # None
  <2>1. reply[h].attempt \in Attempt
    BY <1>2 DEF IInv, TypeOK, Reply
  <2>2. atts[reply[h].attempt].status = "COMPLETED" => atts'[reply[h].attempt] = atts[reply[h].attempt]
    BY <2>1, NextKeepsEnded DEF Final, vars
  <2> QED
    BY <1>2, <2>2, AnswersStay DEF Truthful
<1> QED
  BY <1>1, <1>2

\* A reply given in this step: COMPLETED is what the attempt is after it, and an answer
\* is only named for an attempt that is COMPLETED, which has one.
LEMMA NewTruth ==
  ASSUME IInv, IInv', NEW h \in Handler, NEW a \in Attempt, NEW status, NEW response \in BOOLEAN,
         reply' = [reply EXCEPT ![h] = [attempt |-> a, status |-> status, response |-> response]],
         status = "COMPLETED" \/ response => atts'[a].status = "COMPLETED",
         NEW g \in Handler, g = h
  PROVE  Truthful(g)'
<1>1. reply'[g] = [attempt |-> a, status |-> status, response |-> response]
  BY DEF IInv, TypeOK
<1>2. atts'[a].status = "COMPLETED" => \E m \in responses' : m.attempt = a
  BY DEF IInv, TableInv, AnswerMatchesStatus
<1> QED
  BY <1>1, <1>2 DEF Truthful

LEMMA RepliesStep ==
  ASSUME IInv, RepliesTruthful, [Next]_vars
  PROVE  RepliesTruthful'
<1> USE DEF Truthful
<1>0. IInv'
  BY NextInv
<1>a. \A g \in Handler : Truthful(g)
  BY DEF RepliesTruthful
<1> SUFFICES ASSUME NEW g \in Handler PROVE Truthful(g)'
  BY DEF RepliesTruthful
<1> HIDE DEF Truthful
<1>k. reply \in [Handler -> Reply \cup {None}]
  BY DEF IInv, TypeOK
<1>1. CASE reply'[g] = reply[g] \/ reply'[g] = None
  BY <1>1, <1>a, TruthStays
<1>2. ASSUME NEW h \in Handler, ClientCall(h) PROVE reply'[g] = reply[g] \/ reply'[g] = None
  <2>1. reply' = [reply EXCEPT ![h] = None]
    <3>1. ASSUME NEW s, NEW c, CreateEmpty(h, s, c) PROVE reply' = [reply EXCEPT ![h] = None]
      BY <3>1 DEF CreateEmpty
    <3>2. ASSUME NEW s, NEW q, NEW c, NEW r, NEW a,
                 CreateWithQuestion(h, s, q, c, r, a) \/ SendMessage(h, s, q, c, r, a)
          PROVE  reply' = [reply EXCEPT ![h] = None]
      BY <3>2 DEF CreateWithQuestion, SendMessage, Generate
    <3>3. ASSUME NEW s, NEW hash, Replay(h, s, hash) PROVE reply' = [reply EXCEPT ![h] = None]
      BY <3>3 DEF Replay
    <3>4. ASSUME NEW failed, NEW a, Retry(h, failed, a) PROVE reply' = [reply EXCEPT ![h] = None]
      BY <3>4 DEF Retry, Generate
    <3>5. ASSUME NEW r, NEW a, Regenerate(h, r, a) PROVE reply' = [reply EXCEPT ![h] = None]
      BY <3>5 DEF Regenerate, Generate
    <3> QED
      BY <1>2, <3>1, <3>2, <3>3, <3>4, <3>5 DEF ClientCall
  <2> QED
    BY <2>1, <1>k
<1>3. ASSUME NEW h \in Handler, Complete(h) PROVE Truthful(g)'
  <2>1. task[h].attempt \in Attempt
    BY <1>3, WorkingFor DEF Complete
  <2>2. CASE atts[task[h].attempt].status # "PROCESSING"
    BY <1>3, <2>2, <1>1 DEF Complete
  <2>3. CASE atts[task[h].attempt].status = "PROCESSING"
    <3> DEFINE a == task[h].attempt
               status == atts'[a].status
    <3>1. reply' = [reply EXCEPT ![h] = [attempt |-> a, status |-> status,
                                         response |-> status = "COMPLETED"]]
      BY <1>3, <2>3 DEF Complete
    <3>2. CASE g = h
      BY <1>0, <2>1, <3>1, <3>2, NewTruth
    <3>3. CASE g # h
      BY <1>1, <1>k, <3>1, <3>3
    <3> QED
      BY <3>2, <3>3
  <2> QED
    BY <2>2, <2>3
<1>4. ASSUME NEW h \in Handler, ReplayRespond(h) PROVE Truthful(g)'
  <2> DEFINE a == task[h].attempt
             status == IF conv[ConvOf(a)] = "live" THEN atts[a].status ELSE task[h].seen
             response == task[h].seen = "COMPLETED"
  <2>1. a \in Attempt /\ (task[h].seen = "COMPLETED" => atts[a].status = "COMPLETED")
    BY <1>4 DEF ReplayRespond, IInv, TasksLinked
  <2>2. reply' = [reply EXCEPT ![h] = [attempt |-> a, status |-> status, response |-> response]]
    BY <1>4 DEF ReplayRespond
  <2>3. status = "COMPLETED" \/ response => atts'[a].status = "COMPLETED"
    BY <1>4, <2>1 DEF ReplayRespond, tables
  <2>4. response \in BOOLEAN
    OBVIOUS
  <2> HIDE DEF a, status, response
  <2>5. CASE g = h
    BY <1>0, <2>1, <2>2, <2>3, <2>4, <2>5, NewTruth
  <2>6. CASE g # h
    BY <1>1, <1>k, <2>2, <2>6
  <2> QED
    BY <2>5, <2>6
<1>5. ASSUME NEW h \in Handler, Respond(h) PROVE Truthful(g)'
  <2> DEFINE a == task[h].attempt
  <2>1. a \in Attempt
    BY <1>5, WorkingFor DEF Respond
  <2>2. PICK status \in {"FAILED", atts[a].status} :
          reply' = [reply EXCEPT ![h] = [attempt |-> a, status |-> status, response |-> FALSE]]
    BY <1>5 DEF Respond
  <2>3. status = "COMPLETED" => atts'[a].status = "COMPLETED"
    BY <1>5, <2>2 DEF Respond, tables
  <2>4. CASE g = h
    BY <1>0, <2>1, <2>2, <2>3, <2>4, NewTruth
  <2>5. CASE g # h
    BY <1>1, <1>k, <2>2, <2>5
  <2> QED
    BY <2>4, <2>5
<1>6. ASSUME NEW h \in Handler, Work(h) PROVE Truthful(g)'
  <2>1. CASE \/ AssembleContext(h) \/ ContextFails(h) \/ ProviderAnswers(h) \/ ProviderFails(h)
             \/ RecordFailure(h) \/ Finalize(h)
    BY <2>1, <1>1 DEF AssembleContext, ContextFails, ProviderAnswers, ProviderFails, RecordFailure, Finalize
  <2> QED
    BY <1>6, <2>1, <1>3, <1>4, <1>5 DEF Work
<1>7. ASSUME NEW h \in Handler, Fault(h) PROVE Truthful(g)'
  BY <1>7, <1>1 DEF Fault, CompletionError, RecordFailureError, FinalizeError
<1>8. ASSUME NEW c \in Conversation, DeleteConversation(c) PROVE Truthful(g)'
  BY <1>8, <1>1 DEF DeleteConversation
<1>9. CASE Crash
  BY <1>9, <1>1 DEF Crash
<1>10. CASE UNCHANGED vars
  BY <1>10, <1>1 DEF vars
<1> QED
  BY <1>1, <1>2, <1>6, <1>7, <1>8, <1>9, <1>10 DEF Next

\* Whatever a client was told is COMPLETED is COMPLETED, and an answer it was told of is
\* stored, across deletes, replays, lost acknowledgements and recoveries.
THEOREM RepliesCorrect == Spec => []RepliesTruthful
<1>1. Init => RepliesTruthful
  BY DEF Init, RepliesTruthful
<1>2. IInv /\ RepliesTruthful /\ [Next]_vars => RepliesTruthful'
  BY RepliesStep
<1> QED
  BY <1>1, <1>2, Invariance, PTL DEF Spec

-----------------------------------------------------------------------------
(* The protocol implements GenerationPromise.  Its variables are read off the *)
(* tables: Used, Asked, Of and Outcomes, with conv itself.                    *)

Used  == {s \in Slot : idem[s] # None}
Asked == [r \in Request |-> reqs[r].conv]
Of    == [a \in Attempt |-> atts[a].request]
OutcomeOf(status) == CASE status = "PROCESSING" -> "open"
                       [] status = "COMPLETED"  -> "answered"
                       [] status = "FAILED"     -> "failed"
                       [] OTHER                 -> "none"
Outcomes == [a \in Attempt |-> OutcomeOf(atts[a].status)]

LEMMA OutcomeCases ==
  /\ OutcomeOf("PROCESSING") = "open" /\ OutcomeOf("COMPLETED") = "answered"
  /\ OutcomeOf("FAILED") = "failed" /\ OutcomeOf(None) = "none"
  /\ \A status : OutcomeOf(status) = "open" => status = "PROCESSING"
BY NoneIsFresh DEF OutcomeOf, Status

LEMMA PromiseInit == Init => Promise!Init
<1> SUFFICES ASSUME Init PROVE Promise!Init
  OBVIOUS
<1>1. Used = {} /\ Asked = [r \in Request |-> None] /\ Of = [a \in Attempt |-> None]
  BY DEF Init, Used, Asked, Of, NoRequest, NoAttempt
<1>2. Outcomes = [a \in Attempt |-> "none"]
  BY OutcomeCases DEF Init, Outcomes, NoAttempt
<1> QED
  BY <1>1, <1>2 DEF Promise!Init, Init, Used, Asked, Of, Outcomes, OutcomeOf

LEMMA PromiseStill == Still => UNCHANGED Promise!vars
BY DEF Still, Promise!vars

LEMMA PromiseEnds ==
  ASSUME IInv, NEW a \in Attempt, NEW status, EndsAs(a, status)
  PROVE  /\ Outcomes[a] = "open" /\ Outcomes' = [Outcomes EXCEPT ![a] = OutcomeOf(status)]
         /\ Asked' = Asked /\ Of' = Of /\ Used' = Used
<1>1. Outcomes[a] = "open"
  BY OutcomeCases DEF EndsAs, Outcomes
<1>2. Outcomes' = [Outcomes EXCEPT ![a] = OutcomeOf(status)]
  BY DEF EndsAs, Outcomes
<1>3. Asked' = Asked /\ Of' = Of /\ Used' = Used
  BY DEF EndsAs, Asked, Of, Used
<1> QED
  BY <1>1, <1>2, <1>3

LEMMA PromiseGivesUp ==
  ASSUME IInv, NEW a \in Attempt, Fails(a)
  PROVE  Promise!GiveUp(a)
<1>1. /\ Outcomes[a] = "open" /\ Outcomes' = [Outcomes EXCEPT ![a] = "failed"]
      /\ Asked' = Asked /\ Of' = Of /\ Used' = Used
  BY PromiseEnds, OutcomeCases DEF Fails
<1>2. UNCHANGED conv
  BY DEF Fails, EndsAs
<1> QED
  BY <1>1, <1>2 DEF Promise!GiveUp, Outcomes, OutcomeOf, Asked, Of, Used

LEMMA PromiseAnswers ==
  ASSUME IInv, NEW a \in Attempt, Answers(a)
  PROVE  Promise!Answer(a)
<1>1. /\ Outcomes[a] = "open" /\ Outcomes' = [Outcomes EXCEPT ![a] = "answered"]
      /\ Asked' = Asked /\ Of' = Of /\ Used' = Used
  BY PromiseEnds, OutcomeCases DEF Answers
<1>2. UNCHANGED conv
  BY DEF Answers, EndsAs
<1>3. atts[a] # NoAttempt
  BY WithStatus DEF Answers, EndsAs, Status
<1>4. atts[a].request \in Request /\ ConvOf(a) \in Conversation /\ conv[ConvOf(a)] # "absent"
  BY <1>3, RequestExists
<1>5. conv[Asked[Of[a]]] = "live"
  BY <1>4 DEF Answers, IInv, TypeOK, Asked, Of, ConvOf
<1> QED
  BY <1>1, <1>2, <1>5 DEF Promise!Answer, Outcomes, OutcomeOf, Asked, Of, Used

\* A transaction that stores an unused key, or works without one.
LEMMA PromiseUse ==
  ASSUME IInv, NEW s \in Slot \cup {None}, NEW operation, NEW hash \in Hash,
         NEW c \in Conversation, NEW r \in Request \cup {None}, NEW a \in Attempt \cup {None},
         KeyUnused(s, operation), LinkIdempotency(s, hash, c, r, a)
  PROVE  Promise!Use(s)
<1> DEFINE row == [hash |-> hash, conv |-> c, request |-> r, attempt |-> a]
<1>1. row # None
  BY NoneIsFresh DEF IdemRow
<1> HIDE DEF row
<1>2. idem' = IF s = None THEN idem ELSE [idem EXCEPT ![s] = row]
  BY DEF LinkIdempotency, row
<1>3. idem \in [Slot -> IdemRow \cup {None}]
  BY DEF IInv, TypeOK
<1>4. CASE s = None
  BY <1>2, <1>4 DEF Promise!Use
<1>5. CASE s # None
  <2>1. s \in Slot \ Used
    BY <1>5 DEF KeyUnused, Used
  <2>2. Used' = Used \cup {s}
    BY <1>1, <1>2, <1>3, <1>5, <2>1 DEF Used
  <2> QED
    BY <2>1, <2>2 DEF Promise!Use, Used
<1> QED
  BY <1>4, <1>5

LEMMA PromiseBegins ==
  ASSUME IInv, NEW a \in Attempt, NEW r \in Request, NEW type, NEW n,
         InsertAttempt(a, r, type, n), ~InFlight(r)
  PROVE  Promise!Begin(a, r)
<1> DEFINE row == [status |-> "PROCESSING", type |-> type, request |-> r, number |-> n, usage |-> None]
<1>1. atts \in [Attempt -> AttemptRow] /\ atts[a] = NoAttempt /\ atts' = [atts EXCEPT ![a] = row]
  BY DEF InsertAttempt, IInv, TypeOK
<1>2. Outcomes[a] = "none"
  BY <1>1, OutcomeCases DEF Outcomes, NoAttempt
<1>3. \A b \in Attempt : Of[b] = r => Outcomes[b] # "open"
  BY OutcomeCases DEF InFlight, Of, Outcomes
<1>4. row.status = "PROCESSING" /\ row.request = r
  OBVIOUS
<1>5. Of' = [Of EXCEPT ![a] = r]
  BY <1>1, <1>4 DEF Of
<1>6. Outcomes' = [Outcomes EXCEPT ![a] = "open"]
  BY <1>1, <1>4, OutcomeCases DEF Outcomes
<1> QED
  BY <1>2, <1>3, <1>5, <1>6 DEF Promise!Begin, Of, Outcomes, OutcomeOf

LEMMA PromiseAsks ==
  ASSUME IInv, NEW r \in Request, NEW c \in Conversation, NEW s, InsertRequest(r, c, s)
  PROVE  Promise!Ask(r, c) /\ ~InFlight(r)
<1> DEFINE row == [conv |-> c, status |-> "PROCESSING"]
<1>1. /\ reqs \in [Request -> RequestRow] /\ reqs[r] = NoRequest
      /\ reqs' = [reqs EXCEPT ![r] = row]
  BY DEF InsertRequest, IInv, TypeOK
<1>2. Asked[r] = None /\ Asked' = [Asked EXCEPT ![r] = c]
  <2>1. row.conv = c
    OBVIOUS
  <2> HIDE DEF row
  <2>2. reqs'[r].conv = c /\ \A x \in Request \ {r} : reqs'[x].conv = reqs[x].conv
    BY <1>1, <2>1
  <2>3. Asked[r] = None
    BY <1>1 DEF Asked, NoRequest
  <2>4. Asked' = [Asked EXCEPT ![r] = c]
    BY <2>2 DEF Asked
  <2> QED
    BY <2>3, <2>4
<1>3. ~InFlight(r)
  BY <1>1, NoneIsFresh DEF InFlight, IInv, TableInv, AttemptsLinked, NoAttempt, Status
<1> QED
  BY <1>2, <1>3 DEF Promise!Ask, Asked

LEMMA PromiseOpens ==
  ASSUME IInv, NEW h \in Handler, OpensEmpty(h)
  PROVE  \E s \in Slot \cup {None}, c \in Conversation : Promise!OpenThread(s, c)
<1>1. PICK s \in Slot \cup {None}, c \in Conversation : CreateEmpty(h, s, c)
  BY DEF OpensEmpty
<1> DEFINE hash == [conv |-> None, question |-> None]
<1>2. hash \in Hash
  BY DEF Hash
<1>3. KeyUnused(s, "CREATE_CONVERSATION") /\ LinkIdempotency(s, hash, c, None, None)
  BY <1>1 DEF CreateEmpty
<1> HIDE DEF hash
<1>4. Promise!Use(s)
  BY <1>2, <1>3, PromiseUse
<1>5. Promise!Open(c)
  BY <1>1 DEF CreateEmpty, Promise!Open
<1>6. UNCHANGED <<Asked, Of, Outcomes>>
  BY <1>1 DEF CreateEmpty, Asked, Of, Outcomes
<1> QED
  BY <1>4, <1>5, <1>6 DEF Promise!OpenThread, Asked, Of, Outcomes, OutcomeOf

LEMMA PromiseInserts ==
  ASSUME IInv, NEW h \in Handler, Inserts(h)
  PROVE  Promise!Next
<1>1. ASSUME NEW s \in Slot \cup {None}, NEW q \in Question, NEW c \in Conversation,
             NEW r \in Request, NEW a \in Attempt, CreateWithQuestion(h, s, q, c, r, a)
      PROVE  Promise!OpenAsking(s, c, r, a)
  <2> DEFINE hash == [conv |-> None, question |-> q]
  <2>1. hash \in Hash
    BY DEF Hash
  <2>2. KeyUnused(s, "CREATE_CONVERSATION") /\ LinkIdempotency(s, hash, c, r, a)
    BY <1>1 DEF CreateWithQuestion
  <2> HIDE DEF hash
  <2>3. Promise!Use(s)
    BY <2>1, <2>2, PromiseUse
  <2>4. Promise!Open(c) /\ InsertRequest(r, c, s) /\ InsertAttempt(a, r, "ORIGINAL", 1)
    BY <1>1 DEF CreateWithQuestion, Promise!Open
  <2> QED
    BY <2>3, <2>4, PromiseAsks, PromiseBegins DEF Promise!OpenAsking
<1>2. ASSUME NEW s \in Slot \cup {None}, NEW q \in Question, NEW c \in Conversation,
             NEW r \in Request, NEW a \in Attempt, SendMessage(h, s, q, c, r, a)
      PROVE  Promise!AskIn(s, c, r, a)
  <2> DEFINE hash == [conv |-> c, question |-> q]
  <2>1. hash \in Hash
    BY DEF Hash
  <2>2. KeyUnused(s, "SEND_MESSAGE") /\ LinkIdempotency(s, hash, c, r, a)
    BY <1>2 DEF SendMessage
  <2> HIDE DEF hash
  <2>3. Promise!Use(s)
    BY <2>1, <2>2, PromiseUse
  <2>4. /\ conv[c] = "live" /\ UNCHANGED conv
        /\ InsertRequest(r, c, s) /\ InsertAttempt(a, r, "ORIGINAL", NextAttemptNumber(r))
    BY <1>2 DEF SendMessage
  <2> QED
    BY <2>3, <2>4, PromiseAsks, PromiseBegins DEF Promise!AskIn
<1>3. ASSUME NEW r \in Request, NEW a \in Attempt, NEW type, NEW n, reqs[r] # NoRequest,
             conv[reqs[r].conv] = "live", InsertAttempt(a, r, type, n), ~InFlight(r),
             UNCHANGED <<conv, reqs, idem>>
      PROVE  Promise!AskAgain(r, a)
  <2>1. Asked[r] # None /\ conv[Asked[r]] = "live" /\ Asked' = Asked /\ Used' = Used
    BY <1>3, NoneIsFresh DEF IInv, TableInv, RequestsLinked, Asked, Used
  <2>2. Promise!Begin(a, r)
    BY <1>3, PromiseBegins
  <2> QED
    BY <1>3, <2>1, <2>2 DEF Promise!AskAgain, Asked, Used
<1>4. ASSUME NEW failed \in Attempt, NEW a \in Attempt, Retry(h, failed, a)
      PROVE  Promise!AskAgain(atts[failed].request, a) /\ atts[failed].request \in Request
  <2>1. atts[failed] # NoAttempt
    BY <1>4, WithStatus DEF Retry, Status
  <2>2. atts[failed].request \in Request /\ reqs[atts[failed].request] # NoRequest
    BY <2>1, RequestExists
  <2> QED
    BY <1>3, <1>4, <2>2 DEF Retry, ConvOf
<1>5. ASSUME NEW r \in Request, NEW a \in Attempt, Regenerate(h, r, a)
      PROVE  Promise!AskAgain(r, a)
  BY <1>3, <1>5 DEF Regenerate
<1> QED
  BY <1>1, <1>2, <1>4, <1>5 DEF Inserts, Promise!Next

LEMMA PromiseStep ==
  ASSUME IInv, [Next]_vars
  PROVE  [Promise!Next]_(Promise!vars)
<1>1. CASE Still
  BY <1>1, PromiseStill
<1>2. ASSUME NEW a \in Attempt, Fails(a) \/ Answers(a) PROVE Promise!Next
  BY <1>2, PromiseGivesUp, PromiseAnswers DEF Promise!Next
<1>3. ASSUME NEW h \in Handler, Inserts(h) \/ OpensEmpty(h) PROVE Promise!Next
  BY <1>3, PromiseInserts, PromiseOpens DEF Promise!Next
<1>4. CASE Deletes
  <2>1. PICK c \in Conversation : DeleteConversation(c)
    BY <1>4 DEF Deletes
  <2>2. Promise!Close(c)
    BY <2>1 DEF DeleteConversation, Promise!Close
  <2> QED
    BY <2>2 DEF Promise!Next
<1> QED
  BY StepKind, <1>1, <1>2, <1>3, <1>4

\* To a student the service is GenerationPromise, however handlers, faults and replays
\* interleave: every step is a step of the promise or changes nothing in it.
THEOREM PromiseKept == Spec => KeepsPromise
<1>1. Init => Promise!Init
  BY PromiseInit
<1>2. IInv /\ [Next]_vars => [Promise!Next]_(Promise!vars)
  BY PromiseStep
<1>3. Promise!Spec <=> Promise!Init /\ [][Promise!Next]_(Promise!vars)
  BY DEF Promise!Spec
<1>4. Spec => Promise!Spec
  BY <1>1, <1>2, <1>3, Invariance, PTL DEF Spec
<1> QED
  BY <1>4 DEF KeepsPromise

-----------------------------------------------------------------------------
(***************************************************************************)
(* RowsAgree.  NumberedDensely and OriginalMirrored see of a step only the *)
(* rows it inserts and the attempt it ends (RowKind).  That numbers stay   *)
(* dense rests on the next number being one above a set 1..k, and that a   *)
(* RETRY or REGENERATION is never number 1 on the ORIGINAL being there.    *)
(***************************************************************************)
RowsStill == UNCHANGED <<reqs, atts, responses>>

Ending(a, status) ==
    /\ atts[a].status = "PROCESSING" /\ atts'[a].status = status
    /\ atts'[a].type = atts[a].type /\ atts'[a].request = atts[a].request
    /\ atts'[a].number = atts[a].number
    /\ \A x \in Attempt : x # a => atts'[x] = atts[x]
    /\ MirrorOriginal(a, status)
    /\ \/ UNCHANGED responses
       \/ responses' = responses \cup {[attempt |-> a, request |-> atts[a].request,
                                        variant |-> NextVariant(atts[a].request)]}

FirstAttempt(r, n) ==
    /\ reqs[r] = NoRequest /\ n \in {1, NextAttemptNumber(r)}
    /\ reqs'[r].status = "PROCESSING" /\ \A x \in Request : x # r => reqs'[x] = reqs[x]

FurtherAttempt(r, n) == reqs[r] # NoRequest /\ n = NextAttemptNumber(r) /\ UNCHANGED reqs

Inserting(a, r, type, n) ==
    /\ InsertAttempt(a, r, type, n) /\ UNCHANGED responses
    /\ \/ type = "ORIGINAL" /\ FirstAttempt(r, n)
       \/ type \in {"RETRY", "REGENERATION"} /\ FurtherAttempt(r, n)

InsertingOne ==
    \E a \in Attempt, r \in Request, type \in AttemptType, n \in Nat : Inserting(a, r, type, n)

LEMMA MarkFailedEnding ==
  ASSUME IInv, NEW a \in Attempt, atts[a].status = "PROCESSING", NEW link,
         MarkFailed(a, link), UNCHANGED responses
  PROVE  Ending(a, "FAILED")
<1>1. atts \in [Attempt -> AttemptRow]
  BY DEF IInv, TypeOK
<1>2. atts' = [atts EXCEPT ![a].status = "FAILED", ![a].usage = link] /\ MirrorOriginal(a, "FAILED")
  BY DEF MarkFailed
<1>3. /\ atts'[a] = [atts[a] EXCEPT !.status = "FAILED", !.usage = link]
      /\ \A x \in Attempt : x # a => atts'[x] = atts[x]
  BY <1>1, <1>2
<1>4. /\ atts'[a].status = "FAILED" /\ atts'[a].type = atts[a].type
      /\ atts'[a].request = atts[a].request /\ atts'[a].number = atts[a].number
  BY <1>1, <1>3 DEF AttemptRow
<1> QED
  BY <1>2, <1>3, <1>4 DEF Ending

LEMMA CommitEnding ==
  ASSUME IInv, NEW a \in Attempt, atts[a].status = "PROCESSING", CommitCompletion(a)
  PROVE  \E status \in Final : Ending(a, status)
<1>1. CASE conv[ConvOf(a)] = "deleted"
  BY <1>1, MarkFailedEnding DEF CommitCompletion, Final
<1>2. CASE conv[ConvOf(a)] # "deleted"
  <2>1. atts \in [Attempt -> AttemptRow]
    BY DEF IInv, TypeOK
  <2>2. /\ responses' = responses \cup {[attempt |-> a, request |-> atts[a].request,
                                         variant |-> NextVariant(atts[a].request)]}
        /\ atts' = [atts EXCEPT ![a].status = "COMPLETED", ![a].usage = "SUCCESS"]
        /\ MirrorOriginal(a, "COMPLETED")
    BY <1>2 DEF CommitCompletion
  <2>3. /\ atts'[a] = [atts[a] EXCEPT !.status = "COMPLETED", !.usage = "SUCCESS"]
        /\ \A x \in Attempt : x # a => atts'[x] = atts[x]
    BY <2>1, <2>2
  <2>4. /\ atts'[a].status = "COMPLETED" /\ atts'[a].type = atts[a].type
        /\ atts'[a].request = atts[a].request /\ atts'[a].number = atts[a].number
    BY <2>1, <2>3 DEF AttemptRow
  <2>5. Ending(a, "COMPLETED")
    BY <2>2, <2>3, <2>4 DEF Ending
  <2> QED
    BY <2>5 DEF Final
<1> QED
  BY <1>1, <1>2

LEMMA FailEnding ==
  ASSUME IInv, NEW a \in Attempt, NEW link, FailIfProcessing(a, link)
  PROVE  RowsStill \/ Ending(a, "FAILED")
<1>1. CASE atts[a].status = "PROCESSING"
  BY <1>1, MarkFailedEnding DEF FailIfProcessing
<1>2. CASE atts[a].status # "PROCESSING"
  BY <1>2 DEF FailIfProcessing, RowsStill
<1> QED
  BY <1>1, <1>2

LEMMA InsertsOne ==
  ASSUME IInv, NEW h \in Handler, Inserts(h)
  PROVE  InsertingOne
<1>1. reqs \in [Request -> RequestRow]
  BY DEF IInv, TypeOK
<1>2. ASSUME NEW s, NEW q, NEW c \in Conversation, NEW r \in Request, NEW a \in Attempt,
             CreateWithQuestion(h, s, q, c, r, a) \/ SendMessage(h, s, q, c, r, a)
      PROVE  InsertingOne
  <2>1. PICK n \in {1, NextAttemptNumber(r)} : InsertAttempt(a, r, "ORIGINAL", n)
    BY <1>2 DEF CreateWithQuestion, SendMessage
  <2>2. InsertRequest(r, c, s) /\ UNCHANGED responses
    BY <1>2 DEF CreateWithQuestion, SendMessage
  <2>3. FirstAttempt(r, n)
    BY <1>1, <2>1, <2>2 DEF InsertRequest, FirstAttempt
  <2>4. n \in Nat /\ "ORIGINAL" \in AttemptType
    BY <2>1, AttemptNumberNat DEF AttemptType
  <2>5. Inserting(a, r, "ORIGINAL", n)
    BY <2>1, <2>2, <2>3 DEF Inserting
  <2> QED
    BY <2>4, <2>5 DEF InsertingOne
<1>3. ASSUME NEW r \in Request, NEW a \in Attempt, NEW type \in {"RETRY", "REGENERATION"},
             reqs[r] # NoRequest, InsertAttempt(a, r, type, NextAttemptNumber(r)),
             UNCHANGED <<reqs, responses>>
      PROVE  InsertingOne
  <2>1. NextAttemptNumber(r) \in Nat /\ type \in AttemptType
    BY AttemptNumberNat DEF AttemptType
  <2>2. Inserting(a, r, type, NextAttemptNumber(r))
    BY <1>3 DEF Inserting, FurtherAttempt
  <2> QED
    BY <2>1, <2>2 DEF InsertingOne
<1>4. ASSUME NEW failed \in Attempt, NEW a \in Attempt, Retry(h, failed, a) PROVE InsertingOne
  <2>1. atts[failed] # NoAttempt
    BY <1>4, WithStatus DEF Retry, Status
  <2>2. atts[failed].request \in Request /\ reqs[atts[failed].request] # NoRequest
    BY <2>1, RequestExists
  <2> QED
    BY <1>3, <1>4, <2>2 DEF Retry
<1>5. ASSUME NEW r \in Request, NEW a \in Attempt, Regenerate(h, r, a) PROVE InsertingOne
  BY <1>3, <1>5 DEF Regenerate
<1> QED
  BY <1>2, <1>4, <1>5 DEF Inserts

\* What a step does to the rows of requests, attempts and responses.
LEMMA RowKind ==
  ASSUME IInv, [Next]_vars
  PROVE  RowsStill \/ InsertingOne \/ \E a \in Attempt, status \in Final : Ending(a, status)
<1> DEFINE Sorted == RowsStill \/ InsertingOne \/ \E a \in Attempt, status \in Final : Ending(a, status)
<1>1. ASSUME NEW h \in Handler, ClientCall(h) PROVE Sorted
  <2>1. CASE \E s \in Slot, hash \in Hash : Replay(h, s, hash)
    BY <2>1 DEF Replay, tables, RowsStill
  <2>2. CASE OpensEmpty(h)
    BY <2>2 DEF OpensEmpty, CreateEmpty, RowsStill
  <2>3. CASE Inserts(h)
    BY <2>3, InsertsOne
  <2> QED
    BY <1>1, <2>1, <2>2, <2>3 DEF ClientCall, Inserts, OpensEmpty
<1>2. ASSUME NEW h \in Handler, Work(h) PROVE Sorted
  <2>1. CASE AssembleContext(h) \/ ContextFails(h) \/ Respond(h) \/ ReplayRespond(h)
    BY <2>1 DEF AssembleContext, ContextFails, Respond, ReplayRespond, tables, RowsStill
  <2>2. CASE ProviderAnswers(h) \/ ProviderFails(h)
    BY <2>2 DEF ProviderAnswers, ProviderFails, RowsStill
  <2>3. CASE Complete(h)
    <3>1. task[h].attempt \in Attempt
      BY <2>3, WorkingFor DEF Complete
    <3>2. CASE atts[task[h].attempt].status = "PROCESSING"
      BY <2>3, <3>1, <3>2, CommitEnding DEF Complete
    <3>3. CASE atts[task[h].attempt].status # "PROCESSING"
      BY <2>3, <3>3 DEF Complete, tables, RowsStill
    <3> QED
      BY <3>2, <3>3
  <2>4. CASE RecordFailure(h) \/ Finalize(h)
    <3>1. PICK link : FailIfProcessing(task[h].attempt, link)
      BY <2>4 DEF RecordFailure, Finalize
    <3>2. task[h].attempt \in Attempt
      BY <2>4, WorkingFor DEF RecordFailure, Finalize
    <3> QED
      BY <3>1, <3>2, FailEnding DEF Final
  <2> QED
    BY <1>2, <2>1, <2>2, <2>3, <2>4 DEF Work
<1>3. ASSUME NEW h \in Handler, Fault(h) PROVE Sorted
  <2>1. CASE CompletionError(h)
    <3>1. task[h].attempt \in Attempt
      BY <2>1, WorkingFor DEF CompletionError
    <3>2. CASE UNCHANGED tables
      BY <3>2 DEF tables, RowsStill
    <3>3. CASE atts[task[h].attempt].status = "PROCESSING" /\ CommitCompletion(task[h].attempt)
      BY <3>1, <3>3, CommitEnding
    <3> QED
      BY <2>1, <3>2, <3>3 DEF CompletionError
  <2>2. CASE RecordFailureError(h) \/ FinalizeError(h)
    BY <2>2 DEF RecordFailureError, FinalizeError, tables, RowsStill
  <2> QED
    BY <1>3, <2>1, <2>2 DEF Fault
<1>4. ASSUME NEW c \in Conversation, DeleteConversation(c) PROVE Sorted
  BY <1>4 DEF DeleteConversation, RowsStill
<1>5. CASE Crash \/ UNCHANGED vars
  BY <1>5 DEF Crash, vars, tables, RowsStill
<1> QED
  BY <1>1, <1>2, <1>3, <1>4, <1>5 DEF Next

-----------------------------------------------------------------------------
(* A request shows its original attempt. *)

LEMMA OriginalStep ==
  ASSUME IInv, OriginalMirrored, [Next]_vars
  PROVE  OriginalMirrored'
<1>0. atts \in [Attempt -> AttemptRow] /\ reqs \in [Request -> RequestRow]
  BY DEF IInv, TypeOK
<1>1. CASE RowsStill
  BY <1>1 DEF RowsStill, OriginalMirrored
<1>2. ASSUME NEW a \in Attempt, NEW status \in Final, Ending(a, status) PROVE OriginalMirrored'
  <2> DEFINE t == atts[a].request
  <2>1. t \in Request /\ reqs[t] # NoRequest
    BY <1>2, WithStatus, RequestExists DEF Ending, Status
  <2>2. \A x \in Attempt : atts'[x].request = atts[x].request /\ atts'[x].type = atts[x].type
    BY <1>2 DEF Ending
  <2> SUFFICES ASSUME NEW r \in Request, reqs'[r] # NoRequest
               PROVE  \E b \in Attempt :
                        /\ atts'[b].request = r /\ atts'[b].type = "ORIGINAL"
                        /\ atts'[b].status = reqs'[r].status
                        /\ \A c \in Attempt : atts'[c].request = r /\ atts'[c].type = "ORIGINAL" => c = b
    BY DEF OriginalMirrored
  <2>3. reqs[r] # NoRequest
    BY <1>0, <1>2, <2>1 DEF Ending, MirrorOriginal
  <2>4. PICK b \in Attempt : /\ atts[b].request = r /\ atts[b].type = "ORIGINAL"
                             /\ atts[b].status = reqs[r].status
                             /\ \A c \in Attempt : atts[c].request = r /\ atts[c].type = "ORIGINAL" => c = b
    BY <2>3 DEF OriginalMirrored
  <2>5. CASE b = a
    <3>1. reqs' = [reqs EXCEPT ![r].status = status]
      BY <1>2, <2>4, <2>5 DEF Ending, MirrorOriginal
    <3>2. reqs'[r].status = status
      BY <1>0, <3>1 DEF RequestRow
    <3> QED
      BY <1>2, <2>2, <2>4, <2>5, <3>2 DEF Ending
  <2>6. CASE b # a
    <3>1. reqs'[r] = reqs[r]
      <4>1. CASE atts[a].type # "ORIGINAL"
        BY <1>2, <4>1 DEF Ending, MirrorOriginal
      <4>2. CASE atts[a].type = "ORIGINAL"
        <5>1. t # r
          BY <2>4, <2>6, <4>2
        <5> QED
          BY <1>0, <1>2, <2>1, <5>1 DEF Ending, MirrorOriginal
      <4> QED
        BY <4>1, <4>2
    <3>2. atts'[b] = atts[b]
      BY <1>2, <2>6 DEF Ending
    <3> QED
      BY <2>2, <2>4, <3>1, <3>2
  <2> QED
    BY <2>5, <2>6
<1>3. ASSUME NEW a \in Attempt, NEW t \in Request, NEW type \in AttemptType, NEW n \in Nat,
             Inserting(a, t, type, n)
      PROVE  OriginalMirrored'
  <2> DEFINE row == [status |-> "PROCESSING", type |-> type, request |-> t, number |-> n, usage |-> None]
  <2>1. atts[a] = NoAttempt /\ atts' = [atts EXCEPT ![a] = row]
    BY <1>3 DEF Inserting, InsertAttempt
  <2>2. row.status = "PROCESSING" /\ row.type = type /\ row.request = t
    OBVIOUS
  <2> HIDE DEF row
  <2>3. atts'[a] = row /\ \A x \in Attempt : x # a => atts'[x] = atts[x]
    BY <1>0, <2>1
  <2> SUFFICES ASSUME NEW r \in Request, reqs'[r] # NoRequest
               PROVE  \E b \in Attempt :
                        /\ atts'[b].request = r /\ atts'[b].type = "ORIGINAL"
                        /\ atts'[b].status = reqs'[r].status
                        /\ \A c \in Attempt : atts'[c].request = r /\ atts'[c].type = "ORIGINAL" => c = b
    BY DEF OriginalMirrored
  <2>4. CASE reqs[r] = NoRequest
    <3>1. r = t /\ type = "ORIGINAL" /\ reqs'[r].status = "PROCESSING"
      BY <1>3, <2>4 DEF Inserting, FirstAttempt, FurtherAttempt
    <3>2. \A c \in Attempt : atts[c].request # r
      BY <2>4, NoneIsFresh DEF IInv, TableInv, AttemptsLinked, NoAttempt
    <3> QED
      BY <2>2, <2>3, <3>1, <3>2
  <2>5. CASE reqs[r] # NoRequest
    <3>1. PICK b \in Attempt : /\ atts[b].request = r /\ atts[b].type = "ORIGINAL"
                               /\ atts[b].status = reqs[r].status
                               /\ \A c \in Attempt : atts[c].request = r /\ atts[c].type = "ORIGINAL" => c = b
      BY <2>5 DEF OriginalMirrored
    <3>2. reqs'[r] = reqs[r] /\ (r = t => type # "ORIGINAL")
      BY <1>3, <2>5 DEF Inserting, FirstAttempt, FurtherAttempt
    <3>3. b # a
      BY <2>1, <3>1, NoneIsFresh DEF NoAttempt
    <3> QED
      BY <2>2, <2>3, <3>1, <3>2, <3>3
  <2> QED
    BY <2>4, <2>5
<1> QED
  BY <1>1, <1>2, <1>3, RowKind DEF InsertingOne

-----------------------------------------------------------------------------
(* Attempts and variants are numbered densely. *)

Own(r) == {a \in Attempt : atts[a].request = r}
Ans(r) == {m \in responses : m.request = r}
Numbers(r) == {atts[a].number : a \in Own(r)}
Variants(r) == {m.variant : m \in Ans(r)}

Dense ==
    \A r \in Request :
        /\ IsFiniteSet(Own(r)) /\ Numbers(r) = 1..Cardinality(Own(r))
        /\ IsFiniteSet(Ans(r)) /\ Variants(r) = 1..Cardinality(Ans(r))
        /\ \A a \in Own(r) : atts[a].type = "ORIGINAL" <=> atts[a].number = 1

\* MAX + 1 of a dense numbering is the next number.
LEMMA NextAfterDense ==
  ASSUME NEW k \in Nat
  PROVE  NextAfter(1..k) = k + 1
<1>1. 1..k \in SUBSET Nat /\ \A n \in 1..k : n <= k
  OBVIOUS
<1>2. /\ NextAfter(1..k) \in Nat \ {0} /\ NextAfter(1..k) <= k + 1
      /\ \A n \in 1..k : n < NextAfter(1..k)
  BY <1>1, NextAfterBounded
<1> QED
  BY <1>2

\* One more element, numbered one above the others, keeps a numbering dense.
LEMMA DenseGrows ==
  ASSUME NEW S, NEW x, x \notin S, IsFiniteSet(S)
  PROVE  /\ IsFiniteSet(S \cup {x}) /\ Cardinality(S) \in Nat
         /\ Cardinality(S \cup {x}) = Cardinality(S) + 1
         /\ 1..Cardinality(S \cup {x}) = 1..Cardinality(S) \cup {Cardinality(S) + 1}
<1>1. IsFiniteSet(S \cup {x}) /\ Cardinality(S \cup {x}) = Cardinality(S) + 1
  BY FS_AddElement
<1>2. Cardinality(S) \in Nat
  BY FS_CardinalityType
<1>3. \A k \in Nat : 1..(k + 1) = 1..k \cup {k + 1}
  OBVIOUS
<1> QED
  BY <1>1, <1>2, <1>3

\* Nothing was asked of a request that does not exist, and everything else has its ORIGINAL.
LEMMA OwnOfRequest ==
  ASSUME IInv, NEW r \in Request
  PROVE  /\ reqs[r] = NoRequest => Own(r) = {}
         /\ reqs[r] # NoRequest /\ OriginalMirrored => Own(r) # {}
<1>1. ASSUME reqs[r] = NoRequest PROVE Own(r) = {}
  BY <1>1, NoneIsFresh DEF IInv, TableInv, AttemptsLinked, NoAttempt, Own
<1>2. ASSUME reqs[r] # NoRequest, OriginalMirrored PROVE Own(r) # {}
  BY <1>2 DEF OriginalMirrored, Own
<1> QED
  BY <1>1, <1>2

LEMMA DenseInsert ==
  ASSUME IInv, OriginalMirrored, Dense, NEW a \in Attempt, NEW t \in Request,
         NEW type \in AttemptType, NEW n \in Nat, Inserting(a, t, type, n)
  PROVE  Dense'
<1> DEFINE row == [status |-> "PROCESSING", type |-> type, request |-> t, number |-> n, usage |-> None]
<1>0. atts \in [Attempt -> AttemptRow]
  BY DEF IInv, TypeOK
<1>1. atts[a] = NoAttempt /\ atts' = [atts EXCEPT ![a] = row] /\ UNCHANGED responses
  BY DEF Inserting, InsertAttempt
<1>2. row.type = type /\ row.request = t /\ row.number = n
  OBVIOUS
<1> HIDE DEF row
<1>3. atts'[a] = row /\ \A x \in Attempt : x # a => atts'[x] = atts[x]
  BY <1>0, <1>1
<1>4. \A r \in Request : a \notin Own(r)
  BY <1>1, NoneIsFresh DEF NoAttempt, Own
<1> SUFFICES ASSUME NEW r \in Request
             PROVE  /\ IsFiniteSet(Own(r)') /\ Numbers(r)' = 1..Cardinality(Own(r)')
                    /\ IsFiniteSet(Ans(r)') /\ Variants(r)' = 1..Cardinality(Ans(r)')
                    /\ \A x \in Own(r)' : atts'[x].type = "ORIGINAL" <=> atts'[x].number = 1
  BY DEF Dense
<1>5. Ans(r)' = Ans(r) /\ Variants(r)' = Variants(r)
  BY <1>1 DEF Ans, Variants
<1>6. CASE r # t
  <2>1. Own(r)' = Own(r)
    BY <1>2, <1>3, <1>4, <1>6 DEF Own
  <2>2. \A x \in Own(r) : atts'[x] = atts[x]
    BY <1>3, <1>4 DEF Own
  <2>3. Numbers(r)' = Numbers(r)
    BY <2>1, <2>2 DEF Numbers
  <2> QED
    BY <1>5, <2>1, <2>2, <2>3 DEF Dense
<1>7. CASE r = t
  <2> DEFINE k == Cardinality(Own(r))
  <2>1. Own(r)' = Own(r) \cup {a}
    BY <1>2, <1>3, <1>4, <1>7 DEF Own
  <2>2. \A x \in Own(r) : atts'[x] = atts[x]
    BY <1>3, <1>4 DEF Own
  <2>3. Numbers(r)' = Numbers(r) \cup {n}
    BY <1>2, <1>3, <2>1, <2>2 DEF Numbers
  <2>4. /\ IsFiniteSet(Own(r) \cup {a}) /\ k \in Nat
        /\ 1..Cardinality(Own(r) \cup {a}) = 1..k \cup {k + 1}
    BY <1>4, DenseGrows DEF Dense
  <2>5. NextAttemptNumber(r) = k + 1
    <3>1. NextAttemptNumber(r) = NextAfter(Numbers(r))
      BY DEF NextAttemptNumber, Numbers, Own
    <3> QED
      BY <2>4, <3>1, NextAfterDense DEF Dense
  <2>6. /\ n = k + 1
        /\ type = "ORIGINAL" <=> n = 1
    <3>1. CASE type = "ORIGINAL" /\ FirstAttempt(r, n)
      <4>1. k = 0
        BY <3>1, OwnOfRequest, FS_EmptySet DEF FirstAttempt
      <4> QED
        BY <2>5, <3>1, <4>1 DEF FirstAttempt
    <3>2. CASE type \in {"RETRY", "REGENERATION"} /\ FurtherAttempt(r, n)
      <4>1. k # 0
        BY <3>2, OwnOfRequest, FS_EmptySet DEF FurtherAttempt, Dense
      <4> QED
        BY <2>4, <2>5, <3>2, <4>1 DEF FurtherAttempt
    <3> QED
      BY <1>7, <3>1, <3>2 DEF Inserting
  <2>7. IsFiniteSet(Own(r)') /\ Numbers(r)' = 1..Cardinality(Own(r)')
    BY <2>1, <2>3, <2>4, <2>6 DEF Dense
  <2>8. \A x \in Own(r)' : atts'[x].type = "ORIGINAL" <=> atts'[x].number = 1
    BY <1>2, <1>3, <2>1, <2>2, <2>6 DEF Dense
  <2> QED
    BY <1>5, <2>7, <2>8 DEF Dense
<1> QED
  BY <1>6, <1>7

LEMMA DenseEnding ==
  ASSUME IInv, Dense, NEW a \in Attempt, NEW status, Ending(a, status)
  PROVE  Dense'
<1> DEFINE t == atts[a].request
           answer == [attempt |-> a, request |-> t, variant |-> NextVariant(t)]
<1>1. /\ t \in Request
      /\ \A m \in responses : m.attempt # a
  BY WithStatus, RequestExists DEF Ending, Status, IInv, TableInv, AnswerMatchesStatus
<1>2. \A x \in Attempt : /\ atts'[x].request = atts[x].request /\ atts'[x].type = atts[x].type
                         /\ atts'[x].number = atts[x].number
  BY DEF Ending
<1>3. answer.attempt = a /\ answer.request = t /\ answer.variant = NextVariant(t)
  OBVIOUS
<1>4. responses' = responses \/ responses' = responses \cup {answer}
  BY DEF Ending
<1> HIDE DEF answer, t
<1> SUFFICES ASSUME NEW r \in Request
             PROVE  /\ IsFiniteSet(Own(r)') /\ Numbers(r)' = 1..Cardinality(Own(r)')
                    /\ IsFiniteSet(Ans(r)') /\ Variants(r)' = 1..Cardinality(Ans(r)')
                    /\ \A x \in Own(r)' : atts'[x].type = "ORIGINAL" <=> atts'[x].number = 1
  BY DEF Dense
<1>5. Own(r)' = Own(r) /\ Own(r) \subseteq Attempt
  BY <1>2 DEF Own
<1>6. Numbers(r)' = Numbers(r)
  BY <1>2, <1>5 DEF Numbers
<1>7. IsFiniteSet(Ans(r)') /\ Variants(r)' = 1..Cardinality(Ans(r)')
  <2>1. CASE Ans(r)' = Ans(r)
    BY <2>1 DEF Dense, Variants
  <2>2. CASE r = t /\ responses' = responses \cup {answer}
    <3> DEFINE k == Cardinality(Ans(r))
    <3>1. answer \notin Ans(r) /\ Ans(r)' = Ans(r) \cup {answer}
      BY <1>1, <1>3, <2>2 DEF Ans
    <3>2. Variants(r)' = Variants(r) \cup {NextVariant(r)}
      BY <1>3, <2>2, <3>1 DEF Variants
    <3>3. /\ IsFiniteSet(Ans(r) \cup {answer}) /\ k \in Nat
          /\ 1..Cardinality(Ans(r) \cup {answer}) = 1..k \cup {k + 1}
      BY <3>1, DenseGrows DEF Dense
    <3>4. NextVariant(r) = k + 1
      <4>1. NextVariant(r) = NextAfter(Variants(r))
        BY DEF NextVariant, Variants, Ans
      <4> QED
        BY <3>3, <4>1, NextAfterDense DEF Dense
    <3> QED
      BY <3>1, <3>2, <3>3, <3>4 DEF Dense
  <2>3. Ans(r)' = Ans(r) \/ (r = t /\ responses' = responses \cup {answer})
    BY <1>3, <1>4 DEF Ans
  <2> QED
    BY <2>1, <2>2, <2>3
<1>8. \A x \in Own(r)' : atts'[x].type = "ORIGINAL" <=> atts'[x].number = 1
  BY <1>2, <1>5 DEF Dense
<1> QED
  BY <1>5, <1>6, <1>7, <1>8 DEF Dense

LEMMA DenseStep ==
  ASSUME IInv, OriginalMirrored, Dense, [Next]_vars
  PROVE  Dense'
<1>1. CASE RowsStill
  <2>1. \A r \in Request : Own(r)' = Own(r) /\ Ans(r)' = Ans(r)
    BY <1>1 DEF RowsStill, Own, Ans
  <2>2. \A r \in Request : Numbers(r)' = Numbers(r) /\ Variants(r)' = Variants(r)
    BY <1>1, <2>1 DEF RowsStill, Numbers, Variants
  <2> QED
    BY <1>1, <2>1, <2>2 DEF RowsStill, Dense
<1> QED
  BY <1>1, RowKind, DenseInsert, DenseEnding DEF InsertingOne

LEMMA DenseInit == Init => OriginalMirrored /\ Dense
<1> SUFFICES ASSUME Init PROVE OriginalMirrored /\ Dense
  OBVIOUS
<1>1. \A r \in Request : Own(r) = {} /\ Ans(r) = {}
  BY NoneIsFresh DEF Init, Own, Ans, NoAttempt
<1>2. \A r \in Request : Numbers(r) = {} /\ Variants(r) = {}
  BY <1>1 DEF Numbers, Variants
<1>3. IsFiniteSet({}) /\ Cardinality({}) = 0 /\ 1..0 = {}
  BY FS_EmptySet
<1>4. Dense
  BY <1>1, <1>2, <1>3 DEF Dense
<1>5. OriginalMirrored
  BY DEF Init, OriginalMirrored
<1> QED
  BY <1>4, <1>5

LEMMA DenseMeansNumbered == Dense => NumberedDensely
BY DEF Dense, NumberedDensely, Own, Ans, Numbers, Variants

-----------------------------------------------------------------------------
(* No answer without durable attribution. *)

\* What a handler carries: it completes only once its SUCCESS event is stored, and the
\* event it will link is one of its attempt's.
Carries(h) ==
    /\ task[h].pc = "complete" => "SUCCESS" \in usage[task[h].attempt]
    /\ task[h].usage # None => task[h].usage \in usage[task[h].attempt]

Attributed(a) ==
    /\ atts[a].usage # None => atts[a].usage \in usage[a]
    /\ atts[a].status = "COMPLETED" => atts[a].usage = "SUCCESS"

Recorded == (\A h \in Handler : Carries(h)) /\ \A a \in Attempt : Attributed(a)

\* An attempt a handler ends is linked to what the handler carries.
LEMMA MarkFailedLinks ==
  ASSUME IInv, Recorded, NEW a \in Attempt, NEW link, MarkFailed(a, link), UNCHANGED usage,
         link = None \/ link \in usage[a]
  PROVE  \A x \in Attempt : Attributed(x)'
<1>1. atts \in [Attempt -> AttemptRow]
  BY DEF IInv, TypeOK
<1>2. /\ atts'[a] = [atts[a] EXCEPT !.status = "FAILED", !.usage = link]
      /\ \A x \in Attempt : x # a => atts'[x] = atts[x]
  BY <1>1 DEF MarkFailed
<1>3. atts'[a].status = "FAILED" /\ atts'[a].usage = link
  BY <1>1, <1>2 DEF AttemptRow
<1> QED
  BY <1>2, <1>3 DEF Attributed, Recorded

LEMMA FailLinks ==
  ASSUME IInv, Recorded, NEW a \in Attempt, NEW link, FailIfProcessing(a, link),
         link = None \/ link \in usage[a]
  PROVE  \A x \in Attempt : Attributed(x)'
<1>1. CASE atts[a].status = "PROCESSING"
  BY <1>1, MarkFailedLinks DEF FailIfProcessing
<1>2. CASE atts[a].status # "PROCESSING"
  BY <1>2 DEF FailIfProcessing, Recorded, Attributed
<1> QED
  BY <1>1, <1>2

LEMMA CommitLinks ==
  ASSUME IInv, Recorded, NEW a \in Attempt, CommitCompletion(a), "SUCCESS" \in usage[a]
  PROVE  \A x \in Attempt : Attributed(x)'
<1>1. CASE conv[ConvOf(a)] = "deleted"
  BY <1>1, MarkFailedLinks DEF CommitCompletion
<1>2. CASE conv[ConvOf(a)] # "deleted"
  <2>1. atts \in [Attempt -> AttemptRow]
    BY DEF IInv, TypeOK
  <2>2. /\ atts'[a] = [atts[a] EXCEPT !.status = "COMPLETED", !.usage = "SUCCESS"]
        /\ \A x \in Attempt : x # a => atts'[x] = atts[x]
    BY <1>2, <2>1 DEF CommitCompletion
  <2>3. atts'[a].usage = "SUCCESS"
    BY <2>1, <2>2 DEF AttemptRow
  <2> QED
    BY <2>2, <2>3 DEF Attributed, Recorded, CommitCompletion
<1> QED
  BY <1>1, <1>2

\* A handler that goes on, with the events of its attempt as they are.
LEMMA GoneOn ==
  ASSUME IInv, Recorded, NEW h \in Handler, NEW stage \in Stage, stage # "complete",
         Goto(h, stage), UNCHANGED usage
  PROVE  \A g \in Handler : Carries(g)'
<1>1. task \in [Handler -> Task]
  BY DEF IInv, TypeOK
<1>2. /\ task'[h] = [task[h] EXCEPT !.pc = stage]
      /\ \A g \in Handler : g # h => task'[g] = task[g]
  BY <1>1 DEF Goto
<1>3. /\ task'[h].pc = stage /\ task'[h].attempt = task[h].attempt
      /\ task'[h].usage = task[h].usage
  BY <1>1, <1>2 DEF Task
<1> QED
  BY <1>2, <1>3 DEF Carries, Recorded

\* A handler that starts or stops carries nothing.
LEMMA CarriesNothing ==
  ASSUME IInv, Recorded, NEW h \in Handler, NEW t, t.pc # "complete", t.usage = None,
         task' = [task EXCEPT ![h] = t], UNCHANGED usage
  PROVE  \A g \in Handler : Carries(g)'
<1>1. /\ task'[h] = t
      /\ \A g \in Handler : g # h => task'[g] = task[g]
  BY DEF IInv, TypeOK
<1> QED
  BY <1>1 DEF Carries, Recorded

\* A new attempt is linked to nothing, and its handler carries nothing.
LEMMA InsertRecords ==
  ASSUME IInv, Recorded, NEW h \in Handler, NEW a \in Attempt, NEW r, NEW type, NEW n,
         InsertAttempt(a, r, type, n), Generate(h, a), UNCHANGED usage
  PROVE  Recorded'
<1> DEFINE row == [status |-> "PROCESSING", type |-> type, request |-> r, number |-> n, usage |-> None]
           t == [Idle EXCEPT !.pc = "context", !.attempt = a]
<1>1. row.status = "PROCESSING" /\ row.usage = None
  OBVIOUS
<1>2. t.pc = "context" /\ t.usage = None
  BY DEF Idle
<1>3. atts' = [atts EXCEPT ![a] = row] /\ task' = [task EXCEPT ![h] = t]
  BY DEF InsertAttempt, Generate
<1> HIDE DEF row, t
<1>4. atts'[a] = row /\ \A x \in Attempt : x # a => atts'[x] = atts[x]
  BY <1>3 DEF IInv, TypeOK
<1>5. \A x \in Attempt : Attributed(x)'
  BY <1>1, <1>4 DEF Attributed, Recorded
<1>6. \A g \in Handler : Carries(g)'
  BY <1>2, <1>3, CarriesNothing
<1> QED
  BY <1>5, <1>6 DEF Recorded

LEMMA ClientRecords ==
  ASSUME IInv, Recorded, NEW h \in Handler, ClientCall(h)
  PROVE  Recorded'
<1>1. ASSUME NEW s, NEW c, CreateEmpty(h, s, c) PROVE Recorded'
  BY <1>1 DEF CreateEmpty, Recorded, Carries, Attributed
<1>2. ASSUME NEW s, NEW q, NEW c, NEW r, NEW a \in Attempt, CreateWithQuestion(h, s, q, c, r, a)
      PROVE  Recorded'
  BY <1>2, InsertRecords DEF CreateWithQuestion
<1>3. ASSUME NEW s, NEW q, NEW c, NEW r, NEW a \in Attempt, SendMessage(h, s, q, c, r, a)
      PROVE  Recorded'
  BY <1>3, InsertRecords DEF SendMessage
<1>4. ASSUME NEW s, NEW hash, Replay(h, s, hash) PROVE Recorded'
  <2> DEFINE t == [Idle EXCEPT !.pc = "replay", !.attempt = idem[s].attempt,
                               !.seen = atts[idem[s].attempt].status]
  <2>1. t.pc = "replay" /\ t.usage = None
    BY DEF Idle
  <2>2. task' = [task EXCEPT ![h] = t] /\ UNCHANGED tables
    BY <1>4 DEF Replay
  <2> HIDE DEF t
  <2>3. \A g \in Handler : Carries(g)'
    BY <2>1, <2>2, CarriesNothing DEF tables
  <2> QED
    BY <2>2, <2>3 DEF Recorded, Attributed, tables
<1>5. ASSUME NEW failed, NEW a \in Attempt, Retry(h, failed, a) PROVE Recorded'
  BY <1>5, InsertRecords DEF Retry
<1>6. ASSUME NEW r, NEW a \in Attempt, Regenerate(h, r, a) PROVE Recorded'
  BY <1>6, InsertRecords DEF Regenerate
<1> QED
  BY <1>1, <1>2, <1>3, <1>4, <1>5, <1>6 DEF ClientCall

LEMMA ProviderRecords ==
  ASSUME IInv, Recorded, NEW h \in Handler, ProviderAnswers(h) \/ ProviderFails(h)
  PROVE  Recorded'
<1> DEFINE a == task[h].attempt
<1>1. task \in [Handler -> Task] /\ usage \in [Attempt -> SUBSET UsageStatus]
  BY DEF IInv, TypeOK
<1>2. a \in Attempt
  BY WorkingFor DEF ProviderAnswers, ProviderFails
<1>3. ASSUME NEW stored, usage' = [usage EXCEPT ![a] = @ \cup stored],
             NEW t, task' = [task EXCEPT ![h] = t], t.attempt = a,
             t.pc = "complete" => "SUCCESS" \in stored,
             t.usage # None => t.usage \in usage[a] \cup stored, UNCHANGED atts
      PROVE  Recorded'
  <2>1. usage'[a] = usage[a] \cup stored /\ \A x \in Attempt : usage[x] \subseteq usage'[x]
    BY <1>1, <1>2, <1>3
  <2>2. task'[h] = t /\ \A g \in Handler : g # h => task'[g] = task[g]
    BY <1>1, <1>3
  <2>3. \A x \in Attempt : Attributed(x)'
    BY <1>3, <2>1 DEF Attributed, Recorded
  <2>4. Carries(h)'
    <3>1. /\ t.pc = "complete" => "SUCCESS" \in usage'[t.attempt]
          /\ t.usage # None => t.usage \in usage'[t.attempt]
      BY <1>3, <2>1
    <3> QED
      BY <2>2, <3>1 DEF Carries
  <2>5. ASSUME NEW g \in Handler, g # h PROVE Carries(g)'
    <3>1. task'[g] = task[g] /\ task[g].attempt \in Attempt \cup {None}
      BY <1>1, <2>2, <2>5 DEF Task
    <3>2. Carries(g)
      BY DEF Recorded
    <3>3. CASE task[g].attempt \in Attempt
      BY <2>1, <3>1, <3>2, <3>3 DEF Carries
    <3>4. CASE task[g].attempt = None
      <4>1. task[g] = Idle
        BY <3>4, WorkingFor, NoneIsFresh DEF IInv, TasksLinked
      <4>2. task[g].pc = "idle" /\ task[g].usage = None
        BY <4>1 DEF Idle
      <4> QED
        BY <3>1, <4>2 DEF Carries
    <3> QED
      BY <3>1, <3>3, <3>4
  <2> QED
    BY <2>3, <2>4, <2>5 DEF Recorded
<1>4. CASE ProviderAnswers(h)
  <2> DEFINE t == [task[h] EXCEPT !.pc = "complete"]
  <2>1. t.attempt = a /\ t.pc = "complete" /\ t.usage = task[h].usage
    BY <1>1 DEF Task
  <2>2. task' = [task EXCEPT ![h] = t]
    BY <1>4 DEF ProviderAnswers, Goto
  <2>3. task[h].usage # None => task[h].usage \in usage[a]
    BY DEF Recorded, Carries
  <2>4. usage' = [usage EXCEPT ![a] = @ \cup {"SUCCESS"}] /\ UNCHANGED atts
    BY <1>4 DEF ProviderAnswers
  <2> HIDE DEF t
  <2> QED
    BY <2>1, <2>2, <2>3, <2>4, <1>3
<1>5. CASE ProviderFails(h)
  <2>1. PICK stored \in SUBSET UsageStatus, link \in {None} \cup UsageStatus :
          /\ link = None \/ link \in stored
          /\ usage' = [usage EXCEPT ![a] = @ \cup stored]
          /\ task' = [task EXCEPT ![h].pc = "record_failure", ![h].usage = link]
    BY <1>5 DEF ProviderFails
  <2> DEFINE t == [task[h] EXCEPT !.pc = "record_failure", !.usage = link]
  <2>2. t.attempt = a /\ t.pc = "record_failure" /\ t.usage = link
    BY <1>1 DEF Task
  <2>3. task' = [task EXCEPT ![h] = t]
    BY <1>1, <2>1
  <2>4. UNCHANGED atts
    BY <1>5 DEF ProviderFails
  <2> HIDE DEF t
  <2> QED
    BY <2>1, <2>2, <2>3, <2>4, <1>3
<1> QED
  BY <1>4, <1>5

LEMMA RespondRecords ==
  ASSUME IInv, Recorded, NEW h \in Handler, task' = [task EXCEPT ![h] = Idle], UNCHANGED tables
  PROVE  Recorded'
<1>1. Idle.pc # "complete" /\ Idle.usage = None
  BY DEF Idle
<1>2. \A g \in Handler : Carries(g)'
  BY <1>1, CarriesNothing DEF tables
<1> QED
  BY <1>2 DEF Recorded, Attributed, tables

LEMMA CompleteRecords ==
  ASSUME IInv, Recorded, NEW h \in Handler, Complete(h) \/ CompletionError(h)
  PROVE  Recorded'
<1> DEFINE a == task[h].attempt
<1>1. task[h].pc = "complete" /\ a \in Attempt
  BY WorkingFor DEF Complete, CompletionError
<1>2. "SUCCESS" \in usage[a]
  BY <1>1 DEF Recorded, Carries
<1>3. UNCHANGED usage
  BY DEF Complete, CompletionError, CommitCompletion, tables
<1>4. (\A x \in Attempt : Attributed(x))'
  <2>1. CASE CommitCompletion(a)
    BY <2>1, <1>1, <1>2, CommitLinks
  <2>2. CASE UNCHANGED tables
    BY <2>2 DEF tables, Recorded, Attributed
  <2> QED
    BY <2>1, <2>2 DEF Complete, CompletionError
<1>5. \A g \in Handler : Carries(g)'
  <2>1. CASE Goto(h, "record_failure")
    BY <2>1, <1>3, GoneOn DEF Stage
  <2>2. CASE task' = [task EXCEPT ![h] = Idle]
    <3>1. Idle.pc # "complete" /\ Idle.usage = None
      BY DEF Idle
    <3> QED
      BY <2>2, <3>1, <1>3, CarriesNothing
  <2> QED
    BY <2>1, <2>2 DEF Complete, CompletionError
<1> QED
  BY <1>4, <1>5 DEF Recorded

LEMMA RecordedStep ==
  ASSUME IInv, Recorded, [Next]_vars
  PROVE  Recorded'
<1>1. ASSUME NEW h \in Handler, AssembleContext(h) \/ ContextFails(h) \/ RecordFailureError(h)
      PROVE  Recorded'
  <2>1. PICK stage \in Stage \ {"complete"} : Goto(h, stage)
    BY <1>1 DEF AssembleContext, ContextFails, RecordFailureError, Stage
  <2>2. UNCHANGED tables
    BY <1>1 DEF AssembleContext, ContextFails, RecordFailureError
  <2>3. \A g \in Handler : Carries(g)'
    BY <2>1, <2>2, GoneOn DEF tables
  <2> QED
    BY <2>2, <2>3 DEF tables, Recorded, Attributed
<1>2. ASSUME NEW h \in Handler, RecordFailure(h) \/ Finalize(h) PROVE Recorded'
  <2>1. PICK link \in {task[h].usage, None} : FailIfProcessing(task[h].attempt, link)
    BY <1>2 DEF RecordFailure, Finalize
  <2>2. task[h].attempt \in Attempt
    BY <1>2, WorkingFor DEF RecordFailure, Finalize
  <2>3. link = None \/ link \in usage[task[h].attempt]
    BY <2>1 DEF Recorded, Carries
  <2>4. (\A x \in Attempt : Attributed(x))'
    BY <2>1, <2>2, <2>3, FailLinks
  <2>5. Goto(h, "respond") /\ UNCHANGED usage
    BY <1>2, <2>1 DEF RecordFailure, Finalize, FailIfProcessing
  <2>6. \A g \in Handler : Carries(g)'
    BY <2>5, GoneOn DEF Stage
  <2> QED
    BY <2>4, <2>6 DEF Recorded
<1>3. ASSUME NEW h \in Handler, FinalizeError(h) PROVE Recorded'
  <2> DEFINE t == [task[h] EXCEPT !.tries = task[h].tries + 1,
                     !.pc = IF task[h].tries + 1 = MaxRecovery THEN "respond" ELSE "finalize"]
  <2>1. task \in [Handler -> Task]
    BY DEF IInv, TypeOK
  <2>2. t.pc # "complete" /\ t.attempt = task[h].attempt /\ t.usage = task[h].usage
    BY <2>1 DEF Task
  <2>3. task' = [task EXCEPT ![h] = t]
    BY <2>1, <1>3 DEF FinalizeError
  <2> HIDE DEF t
  <2>4. task'[h] = t /\ \A g \in Handler : g # h => task'[g] = task[g]
    BY <2>1, <2>3
  <2>5. UNCHANGED tables
    BY <1>3 DEF FinalizeError
  <2>6. \A g \in Handler : Carries(g)'
    BY <2>2, <2>4, <2>5 DEF tables, Carries, Recorded
  <2> QED
    BY <2>5, <2>6 DEF tables, Recorded, Attributed
<1>4. ASSUME NEW h \in Handler, Work(h) PROVE Recorded'
  <2>1. CASE Respond(h) \/ ReplayRespond(h)
    BY <2>1, RespondRecords DEF Respond, ReplayRespond
  <2> QED
    BY <1>1, <1>2, <1>4, <2>1, ProviderRecords, CompleteRecords DEF Work
<1>5. ASSUME NEW h \in Handler, Fault(h) PROVE Recorded'
  BY <1>1, <1>3, <1>5, CompleteRecords DEF Fault
<1>6. ASSUME NEW c \in Conversation, DeleteConversation(c) PROVE Recorded'
  BY <1>6 DEF DeleteConversation, Recorded, Carries, Attributed
<1>7. CASE Crash
  <2>1. Idle.pc # "complete" /\ Idle.usage = None
    BY DEF Idle
  <2> QED
    BY <1>7, <2>1 DEF Crash, tables, Recorded, Carries, Attributed
<1>8. CASE UNCHANGED vars
  BY <1>8 DEF vars, Recorded, Carries, Attributed
<1> QED
  BY <1>4, <1>5, <1>6, <1>7, <1>8, ClientRecords DEF Next

LEMMA RecordedInit == Init => Recorded
BY NoneIsFresh DEF Init, Recorded, Carries, Attributed, Idle, NoAttempt, Status

\* Whatever retries, regenerations, late completions, lost acknowledgements and crashes
\* do, a request shows its one original attempt, attempts and variants stay numbered
\* without gaps (the unique indexes are never hit), and no answer lacks its usage event.
THEOREM RowsCorrect == Spec => []RowsAgree
<1>1. Init => OriginalMirrored /\ Dense /\ Recorded
  BY DenseInit, RecordedInit
<1>2. IInv /\ OriginalMirrored /\ Dense /\ Recorded /\ [Next]_vars
        => (OriginalMirrored /\ Dense /\ Recorded)'
  BY OriginalStep, DenseStep, RecordedStep
<1>3. OriginalMirrored /\ Dense /\ Recorded => RowsAgree
  BY DenseMeansNumbered DEF RowsAgree, Recorded, Attributed, AnswersAttributed
<1> QED
  BY <1>1, <1>2, <1>3, Invariance, PTL DEF Spec
=============================================================================
