-------------------------- MODULE AssessmentProofs --------------------------
(***************************************************************************)
(* Theorems of modules AssessmentExecution, Practices and Progress, for    *)
(* every paper, number of students, attempts and overlapping calls.        *)
(*                                                                         *)
(* What is stored of an attempt is what was marked, what its student was   *)
(* shown and what a review counts again; what a profile says of topics is  *)
(* of one moment.  Scores and means are sums over finite sets, which are   *)
(* compared by induction over the subsets of the set they are taken of.    *)
(***************************************************************************)
EXTENDS AssessmentExecution, SequenceTheorems, FiniteSetTheorems, WellFoundedInduction, NaturalsInduction, TLAPS

CONSTANTS
    PracticeQuestion, PracticeOption, PracticeOptionSets, PracticeMarks, PracticeTry,
    PageRequest, MaxFaults,     \* Practices, with Author
    Practice, Event, ProgressQuestion, Answers, ProgressAttempt, Concept, PrimaryConcept, Under,
    Chapter, Looked, MaxMoments \* Progress

VARIABLES
    practiceStatus, practicePaper, practiceEditing, practiceAttempt, practiceSheet, practiceCall,
    page, faults, late, unsure,
    shownStatus, tried, asking, moments, told

Pra == INSTANCE Practices WITH
    status <- practiceStatus, paper <- practicePaper, editing <- practiceEditing,
    attempt <- practiceAttempt, sheet <- practiceSheet, call <- practiceCall,
    Question <- PracticeQuestion, Option <- PracticeOption, OptionSets <- PracticeOptionSets,
    Marks <- PracticeMarks, Attempt <- PracticeTry, Request <- PageRequest

Pro == INSTANCE Progress WITH
    status <- shownStatus, attempt <- tried, request <- asking, seen <- moments, answer <- told,
    Question <- ProgressQuestion, Attempt <- ProgressAttempt, Primary <- PrimaryConcept, Topic <- Chapter

-----------------------------------------------------------------------------
(* Sums.  Induction over the subsets of a finite set is about a set of      *)
(* sets, which provers can instantiate where they cannot an operator.       *)

\* A property of a finite set's subsets that passes from all the smaller ones of each to it
\* holds of all of them.
LEMMA SubsetInduction ==
    ASSUME NEW S, IsFiniteSet(S), NEW P,
           \A T \in SUBSET S : (\A U \in SUBSET T : U # T => U \in P) => T \in P
    PROVE  \A T \in SUBSET S : T \in P
<1> SUFFICES ASSUME NEW T0 \in SUBSET S, T0 \notin P PROVE FALSE
    OBVIOUS
<1> DEFINE N == {n \in Nat : \E T \in SUBSET S : T \notin P /\ Cardinality(T) = n}
           R == OpToRel(<, Nat)
<1>1. \A T \in SUBSET S : IsFiniteSet(T) /\ Cardinality(T) \in Nat
    BY FS_Subset, FS_CardinalityType
<1>2. N \subseteq Nat /\ Cardinality(T0) \in N
    BY <1>1
<1>3. IsWellFoundedOn(R, Nat)
    BY NatLessThanWellFounded
<1>4. PICK m \in N : \A y \in N : <<y, m>> \notin R
  <2>1. N # {} /\ N \subseteq Nat
      BY <1>2
  <2> HIDE DEF R, N
  <2>2. \E m \in N : \A y \in N : ~ (<<y, m>> \in R)
      BY ONLY <1>3, <2>1, WFMin
  <2> QED
      BY <2>2
<1>5. \A y \in N : ~ (y < m)
    BY <1>2, <1>4 DEF OpToRel
<1>6. PICK T \in SUBSET S : T \notin P /\ Cardinality(T) = m
    BY <1>4
<1>7. PICK U \in SUBSET T : U # T /\ U \notin P
    BY <1>6
<1>8. Cardinality(U) < Cardinality(T)
    BY <1>1, <1>6, <1>7, FS_Subset
<1> QED
    BY <1>1, <1>5, <1>6, <1>7, <1>8

Pick(S) == CHOOSE x \in S : TRUE

\* What a fold that sums computes: of every subset, the sum of f over it.
IsTotal(g, f, S) ==
    g = [T \in SUBSET S |-> IF T = {} THEN 0 ELSE f[Pick(T)] + g[T \ {Pick(T)}]]

Total(f, S) == (CHOOSE g : IsTotal(g, f, S))[S]

LEMMA TotalsAgree ==
    ASSUME NEW S, IsFiniteSet(S), NEW T \in SUBSET S, NEW f, NEW e, \A x \in T : f[x] = e[x],
           NEW g, NEW h, IsTotal(g, f, S), IsTotal(h, e, T)
    PROVE  \A U \in SUBSET T : g[U] = h[U]
<1> DEFINE P == {U \in SUBSET T : g[U] = h[U]}
<1>1. ASSUME NEW U \in SUBSET T, \A V \in SUBSET U : V # U => V \in P PROVE U \in P
  <2>1. CASE U = {}
      BY <2>1 DEF IsTotal
  <2>2. CASE U # {}
    <3>1. Pick(U) \in U
        BY <2>2 DEF Pick
    <3>2. g[U \ {Pick(U)}] = h[U \ {Pick(U)}]
        BY <3>1, <1>1
    <3>3. g[U] = f[Pick(U)] + g[U \ {Pick(U)}]
        BY <2>2 DEF IsTotal
    <3>4. h[U] = e[Pick(U)] + h[U \ {Pick(U)}]
        BY <2>2 DEF IsTotal
    <3> QED
        BY <3>1, <3>2, <3>3, <3>4
  <2> QED
      BY <2>1, <2>2
<1>2. IsFiniteSet(T)
    BY FS_Subset
<1> HIDE DEF P
<1>3. \A U \in SUBSET T : U \in P
    BY <1>1, <1>2, SubsetInduction
<1> QED
    BY <1>3 DEF P

LEMMA TotalExists ==
    ASSUME NEW S, IsFiniteSet(S), NEW f
    PROVE  IsTotal([T \in SUBSET S |-> Total(f, T)], f, S)
<1> DEFINE P == {T \in SUBSET S : \E g : IsTotal(g, f, T)}
           Of(T) == CHOOSE g : IsTotal(g, f, T)
<1>1. ASSUME NEW T \in SUBSET S, T \in P PROVE IsTotal(Of(T), f, T) /\ Of(T)[T] = Total(f, T)
    BY <1>1 DEF Total
<1>2. ASSUME NEW T \in SUBSET S, NEW U \in SUBSET T, T \in P, U \in P PROVE Of(T)[U] = Total(f, U)
  <2>1. IsFiniteSet(T)
      BY FS_Subset
  <2>2. U \in SUBSET S /\ IsTotal(Of(T), f, T) /\ IsTotal(Of(U), f, U) /\ Of(U)[U] = Total(f, U)
      BY <1>1, <1>2
  <2>3. PICK g : IsTotal(g, f, T) /\ g = Of(T)
      BY <2>2
  <2>4. PICK h : IsTotal(h, f, U) /\ h = Of(U)
      BY <2>2
  <2>5. \A V \in SUBSET U : g[V] = h[V]
      BY <2>1, <2>3, <2>4, TotalsAgree
  <2> QED
      BY <2>2, <2>3, <2>4, <2>5
<1> HIDE DEF P, Of
\* Total satisfies the recursion on the strict subsets
<1>3. ASSUME NEW T \in SUBSET S, T \in P, T # {}
      PROVE  /\ Pick(T) \in T
             /\ T \ {Pick(T)} \in P => Total(f, T) = f[Pick(T)] + Total(f, T \ {Pick(T)})
  <2>1. Pick(T) \in T
      BY <1>3 DEF Pick
  <2>2. IsTotal(Of(T), f, T) /\ Of(T)[T] = Total(f, T)
      BY <1>1, <1>3
  <2>3. Of(T)[T] = f[Pick(T)] + Of(T)[T \ {Pick(T)}]
      BY <2>2, <1>3 DEF IsTotal
  <2> QED
      BY <2>1, <2>2, <2>3, <1>2, <1>3
<1>4. ASSUME NEW T \in SUBSET S, T = {}, T \in P PROVE Total(f, T) = 0
  <2>1. IsTotal(Of(T), f, T) /\ Of(T)[T] = Total(f, T)
      BY <1>1, <1>4
  <2> QED
      BY <2>1, <1>4 DEF IsTotal
<1>5. ASSUME NEW T \in SUBSET S, \A U \in SUBSET T : U # T => U \in P PROVE T \in P
  <2> DEFINE g == [U \in SUBSET T |->
                     IF U = T THEN IF T = {} THEN 0 ELSE f[Pick(T)] + Total(f, T \ {Pick(T)})
                     ELSE Total(f, U)]
  <2>1. ASSUME NEW U \in SUBSET T
        PROVE  g[U] = IF U = {} THEN 0 ELSE f[Pick(U)] + g[U \ {Pick(U)}]
    <3>1. CASE U = T
      <4>1. T # {} => Pick(T) \in T
          BY DEF Pick
      <4> QED
          BY <4>1, <3>1
    <3>2. CASE U # T
      <4>1. U \in P /\ U \in SUBSET S
          BY <3>2, <1>5
      <4>2. CASE U = {}
          BY <4>1, <4>2, <3>2, <1>4
      <4>3. CASE U # {}
        <5>1. Pick(U) \in U
            BY <4>3, <4>1, <1>3
        <5>2. U \ {Pick(U)} \in SUBSET T /\ U \ {Pick(U)} # T
            BY <5>1
        <5>3. Total(f, U) = f[Pick(U)] + Total(f, U \ {Pick(U)})
            BY <5>2, <4>1, <4>3, <1>3, <1>5
        <5>4. g[U] = Total(f, U) /\ g[U \ {Pick(U)}] = Total(f, U \ {Pick(U)})
            BY <3>2, <5>2
        <5> QED
            BY <5>3, <5>4, <4>3
      <4> QED
          BY <4>2, <4>3
    <3> QED
        BY <3>1, <3>2
  <2>2. g = [U \in SUBSET T |-> g[U]]
      OBVIOUS
  <2> HIDE DEF g
  <2>3. IsTotal(g, f, T)
      BY <2>1, <2>2 DEF IsTotal
  <2> QED
      BY <2>3 DEF P
<1>6. \A T \in SUBSET S : T \in P
    BY <1>5, SubsetInduction
<1>7. \A T \in SUBSET S : Total(f, T) = IF T = {} THEN 0 ELSE f[Pick(T)] + Total(f, T \ {Pick(T)})
  <2> SUFFICES ASSUME NEW T \in SUBSET S
               PROVE  Total(f, T) = IF T = {} THEN 0 ELSE f[Pick(T)] + Total(f, T \ {Pick(T)})
      OBVIOUS
  <2>1. T \ {Pick(T)} \in SUBSET S
      OBVIOUS
  <2> QED
      BY <2>1, <1>3, <1>4, <1>6
<1> DEFINE g == [T \in SUBSET S |-> Total(f, T)]
<1>8. \A T \in SUBSET S : g[T] = IF T = {} THEN 0 ELSE f[Pick(T)] + g[T \ {Pick(T)}]
    BY <1>7
<1> QED
  <2>1. g = [T \in SUBSET S |-> g[T]]
      OBVIOUS
  <2> HIDE DEF g
  <2>2. IsTotal(g, f, S)
      BY <2>1, <1>8 DEF IsTotal
  <2> QED
      BY <2>2 DEF g

\* The recursion of the fold.
LEMMA TotalStep ==
    ASSUME NEW S, IsFiniteSet(S), NEW f
    PROVE  /\ S = {} => Total(f, S) = 0
           /\ S # {} => /\ Pick(S) \in S
                        /\ Total(f, S) = f[Pick(S)] + Total(f, S \ {Pick(S)})
<1> DEFINE g == [T \in SUBSET S |-> Total(f, T)]
<1>1. IsTotal(g, f, S)
    BY TotalExists
<1>2. /\ g[S] = Total(f, S)
      /\ S # {} => Pick(S) \in S /\ g[S \ {Pick(S)}] = Total(f, S \ {Pick(S)})
    BY DEF Pick
<1> HIDE DEF g
<1> QED
    BY <1>1, <1>2 DEF IsTotal

\* It does not matter which element is taken first.
LEMMA TotalSplit ==
    ASSUME NEW S, IsFiniteSet(S), NEW f, \A z \in S : f[z] \in Int
    PROVE  /\ Total(f, S) \in Int
           /\ \A x \in S : Total(f, S) = f[x] + Total(f, S \ {x})
<1> DEFINE P == {T \in SUBSET S : /\ Total(f, T) \in Int
                                  /\ \A x \in T : Total(f, T) = f[x] + Total(f, T \ {x})}
<1>1. ASSUME NEW T \in SUBSET S, \A U \in SUBSET T : U # T => U \in P PROVE T \in P
  <2>1. IsFiniteSet(T)
      BY FS_Subset
  <2>2. CASE T = {}
    <3>1. Total(f, T) = 0
        BY <2>1, <2>2, TotalStep
    <3> QED
        BY <2>2, <3>1
  <2>3. CASE T # {}
    <3> DEFINE c == Pick(T)
    <3>1. c \in T /\ Total(f, T) = f[c] + Total(f, T \ {c})
        BY <2>1, <2>3, TotalStep
    <3> HIDE DEF c
    <3>2. T \ {c} \in P
        BY <3>1, <1>1
    <3>3. Total(f, T \ {c}) \in Int /\ f[c] \in Int
        BY <3>1, <3>2
    <3>4. ASSUME NEW x \in T, x # c PROVE Total(f, T) = f[x] + Total(f, T \ {x})
      <4>1. T \ {x} \in P
          BY <3>4, <1>1
      <4>2. Total(f, T \ {c}) = f[x] + Total(f, (T \ {c}) \ {x})
          BY <3>2, <3>4
      <4>3. Total(f, T \ {x}) = f[c] + Total(f, (T \ {x}) \ {c})
          BY <4>1, <3>1, <3>4
      <4>4. (T \ {c}) \ {x} = (T \ {x}) \ {c} /\ (T \ {c}) \ {x} \in P
        <5>1. (T \ {c}) \ {x} \in SUBSET T /\ (T \ {c}) \ {x} # T
            BY <3>1
        <5> HIDE DEF P
        <5> QED
            BY <5>1, <1>1
      <4> DEFINE rest == Total(f, (T \ {c}) \ {x})
      <4>5. rest \in Int /\ f[x] \in Int /\ f[c] \in Int
          BY <4>4, <3>3
      <4>6. Total(f, T \ {x}) = f[c] + rest
          BY <4>3, <4>4
      <4>7. Total(f, T) = f[c] + (f[x] + rest)
          BY <3>1, <4>2
      <4> HIDE DEF rest
      <4> QED
          BY <4>5, <4>6, <4>7
    <3>5. Total(f, T) \in Int
        BY <3>1, <3>3
    <3> QED
        BY <3>1, <3>4, <3>5
  <2> QED
      BY <2>2, <2>3
<1> HIDE DEF P
<1>2. \A T \in SUBSET S : T \in P
    BY <1>1, SubsetInduction
<1> QED
    BY <1>2 DEF P

LEMMA TotalNat ==
    ASSUME NEW S, IsFiniteSet(S), NEW f, \A z \in S : f[z] \in Nat
    PROVE  Total(f, S) \in Nat
<1> DEFINE P == {T \in SUBSET S : Total(f, T) \in Nat}
<1>1. ASSUME NEW T \in SUBSET S, \A U \in SUBSET T : U # T => U \in P PROVE T \in P
  <2>1. IsFiniteSet(T)
      BY FS_Subset
  <2>2. CASE T = {}
      BY <2>1, <2>2, TotalStep
  <2>3. CASE T # {}
    <3>1. Pick(T) \in T /\ Total(f, T) = f[Pick(T)] + Total(f, T \ {Pick(T)})
        BY <2>1, <2>3, TotalStep
    <3>2. T \ {Pick(T)} \in P
        BY <3>1, <1>1
    <3> QED
        BY <3>1, <3>2
  <2> QED
      BY <2>2, <2>3
<1> HIDE DEF P
<1>2. \A T \in SUBSET S : T \in P
    BY <1>1, SubsetInduction
<1> QED
    BY <1>2 DEF P

\* What counts for nothing may be left out of a sum.
LEMMA TotalOnly ==
    ASSUME NEW S, IsFiniteSet(S), NEW R \in SUBSET S, NEW f, NEW e, \A z \in R : f[z] = e[z] /\ f[z] \in Int,
           \A z \in S \ R : f[z] = 0
    PROVE  Total(f, S) = Total(e, R)
<1> DEFINE P == {T \in SUBSET S : Total(f, T) = Total(e, T \cap R)}
<1>1. ASSUME NEW T \in SUBSET S, \A U \in SUBSET T : U # T => U \in P PROVE T \in P
  <2>1. IsFiniteSet(T) /\ IsFiniteSet(T \cap R) /\ T \cap R \in SUBSET S
      BY FS_Subset
  <2>2. CASE T = {}
      BY <2>1, <2>2, TotalStep
  <2>3. CASE T # {}
    <3> DEFINE c == Pick(T)
    <3>1. c \in T /\ Total(f, T) = f[c] + Total(f, T \ {c})
        BY <2>1, <2>3, TotalStep
    <3> HIDE DEF c
    <3>2. Total(f, T \ {c}) = Total(e, (T \ {c}) \cap R)
        BY <3>1, <1>1
    <3>3. \A z \in T \cap R : e[z] \in Int
        OBVIOUS
    <3>4. /\ Total(e, T \cap R) \in Int
          /\ \A x \in T \cap R : Total(e, T \cap R) = e[x] + Total(e, (T \cap R) \ {x})
        BY <2>1, <3>3, TotalSplit
    <3>5. CASE c \in R
      <4>1. (T \ {c}) \cap R = (T \cap R) \ {c}
          OBVIOUS
      <4>2. Total(e, T \cap R) = e[c] + Total(e, (T \cap R) \ {c}) /\ e[c] = f[c]
          BY <3>1, <3>4, <3>5
      <4>3. Total(f, T \ {c}) = Total(e, (T \cap R) \ {c})
          BY <3>2, <4>1
      <4> QED
          BY <3>1, <4>2, <4>3
    <3>6. CASE c \notin R
      <4>1. (T \ {c}) \cap R = T \cap R /\ f[c] = 0
          BY <3>1, <3>6
      <4>2. Total(f, T \ {c}) = Total(e, T \cap R) /\ Total(e, T \cap R) \in Int
          BY <3>2, <3>4, <4>1
      <4> QED
          BY <3>1, <4>1, <4>2
    <3> QED
        BY <3>5, <3>6
  <2> QED
      BY <2>2, <2>3
<1> HIDE DEF P
<1>2. \A T \in SUBSET S : T \in P
    BY <1>1, SubsetInduction
<1>3. S \cap R = R
    OBVIOUS
<1> QED
    BY <1>2, <1>3 DEF P

\* There is one such sum.
LEMMA TotalOf ==
    ASSUME NEW S, IsFiniteSet(S), NEW f, NEW it, IsTotal(it, f, S)
    PROVE  it[S] = Total(f, S)
<1> DEFINE g == [T \in SUBSET S |-> Total(f, T)]
<1>1. IsTotal(g, f, S) /\ g[S] = Total(f, S)
    BY TotalExists
<1> HIDE DEF g
<1>2. SUFFICES ASSUME NEW T \in SUBSET S, T = S, NEW e, e = f
               PROVE  it[T] = Total(f, S)
    BY <1>1
<1>3. IsTotal(it, e, T) /\ \A x \in T : f[x] = e[x]
    BY <1>2
<1>4. \A U \in SUBSET T : g[U] = it[U]
    BY ONLY <1>1, <1>3, IsFiniteSet(S), T \in SUBSET S, TotalsAgree
<1> QED
    BY <1>1, <1>2, <1>4

\* Marks are what the fold of the community modules sums.
LEMMA MarksTotal ==
    ASSUME NEW p, NEW S, IsFiniteSet(S)
    PROVE  MarksOf(p, S) = Total([q \in S |-> p[q].marks], S)
<1> DEFINE F == [q \in S |-> p[q].marks]
           body(h) == [s \in SUBSET S |-> IF s = {} THEN 0
                          ELSE p[CHOOSE x \in s : TRUE].marks + h[s \ {CHOOSE x \in s : TRUE}]]
           it == CHOOSE h : h = body(h)
<1>1. MarksOf(p, S) = it[S]
    BY DEF MarksOf, MapThenSumSet, MapThenFoldSet
<1>2. ASSUME NEW h PROVE IsTotal(h, F, S) <=> h = body(h)
  <2>1. \A s \in SUBSET S : s # {} => F[Pick(s)] = p[CHOOSE x \in s : TRUE].marks
      BY DEF Pick
  <2>2. body(h) = [s \in SUBSET S |-> IF s = {} THEN 0 ELSE F[Pick(s)] + h[s \ {Pick(s)}]]
    <3> HIDE DEF F
    <3> QED
        BY <2>1 DEF Pick
  <2> HIDE DEF body, F
  <2> QED
      BY <2>2 DEF IsTotal
<1> HIDE DEF F, body
<1>3. \E h : h = body(h)
    BY <1>2, TotalExists
<1>4. IsTotal(it, F, S)
    BY <1>2, <1>3
<1> HIDE DEF it
<1> QED
    BY <1>1, <1>4, TotalOf DEF F

-----------------------------------------------------------------------------

(***************************************************************************)
(* The type part of the invariant.  A mark is typed as what Evaluation     *)
(* returns: that a sum of marks is a natural needs induction over the      *)
(* questions.  Pointed says which parts of a call are set at which stage.  *)
(***************************************************************************)
Marked == {Evaluation(p, s) : p \in Paper, s \in Sheet}

CallRecord == [op : Op \cup {None}, stage : Stage \cup {None}, student : Student \cup {None},
               attempt : Attempt \cup {None}, question : Question \cup {None},
               row : Row \cup {None}, to : EventStatus \cup Schedule \cup {None},
               items : Seq(Item), paper : Paper \cup {None}, result : Marked \cup {None},
               found : EventStatus \cup {None}]

Pointed(r) ==
    /\ r.op \in {"start", "save", "submit"} => r.student \in Student
    /\ r.op \in {"save", "submit"} => r.attempt \in Attempt
    /\ r.op = "start" /\ r.stage = "paper" => r.attempt \in Attempt
    /\ r.op = "save" => r.items # <<>>
    /\ r.op = "save" /\ r.stage = "apply" => r.paper \in Paper
    /\ r.op = "submit" /\ r.stage \in {"answers", "store"} => r.paper \in Paper
    /\ r.op = "submit" /\ r.stage = "store" => r.result \in Marked
    /\ r.op = "add" => r.row \in Row
    /\ r.op \in {"update", "delete"} => r.question \in Question
    /\ r.op = "update" /\ r.stage # "current" => r.row \in Row
    /\ r.op = "status" => r.to \in EventStatus
    /\ r.op = "reschedule" => r.to \in Schedule

WellFormed == {r \in CallRecord : Pointed(r)}

Typed ==
    /\ status \in EventStatus
    /\ schedule \in Schedule
    /\ enrolled \subseteq Student
    /\ paper \in Paper
    /\ attempts \in [Attempt -> AttemptRow \cup {NoAttempt}]
    /\ answers \in [Attempt -> Sheet]
    /\ results \in [Attempt -> Marked \cup {None}]
    /\ call \in [Caller -> WellFormed]
    /\ shown \in [Attempt -> Paper \cup {None}]
    /\ overtaken \subseteq Attempt /\ exposed \subseteq Attempt

LEMMA IdleWellFormed == Idle \in WellFormed
BY NoneIsNoOp DEF Idle, WellFormed, CallRecord, Pointed, Op, Stage

LEMMA GotoTyped ==
  ASSUME Typed, NEW c \in Caller, NEW r \in WellFormed, Goto(c, r)
  PROVE  call' \in [Caller -> WellFormed]
BY DEF Typed, Goto

LEMMA EnterTyped ==
  ASSUME Typed, NEW c \in Caller, NEW r \in WellFormed, Enter(c, r)
  PROVE  call' \in [Caller -> WellFormed]
BY DEF Typed, Enter

LEMMA ReturnTyped ==
  ASSUME Typed, NEW c \in Caller, Return(c)
  PROVE  call' \in [Caller -> WellFormed]
BY IdleWellFormed, GotoTyped DEF Return

LEMMA CallShape == ASSUME Typed, NEW c \in Caller
                 PROVE  call[c] \in CallRecord /\ Pointed(call[c])
BY DEF Typed, WellFormed

LEMMA InitTyped == Init => Typed
<1> SUFFICES ASSUME Init PROVE Typed
  OBVIOUS
<1>1. call \in [Caller -> WellFormed]
  BY IdleWellFormed DEF Init
<1>2. paper \in Paper /\ answers \in [Attempt -> Sheet]
  BY DEF Init, BlankPaper, BlankSheet, Paper, Sheet
<1>3. QED
  BY <1>1, <1>2 DEF Init, Typed, EventStatus, Schedule, AttemptRow, NoAttempt

(***************************************************************************)
(* One lemma per group of actions: steps of authors, of students, and what *)
(* changes from outside.                                                   *)
(***************************************************************************)
LEMMA MovedTyped ==
  ASSUME Typed, UNCHANGED <<event, paper, books, shown, overtaken, exposed>>,
         call' \in [Caller -> WellFormed]
  PROVE  Typed'
BY DEF Typed, event, books

LEMMA AuthoringTyped ==
  ASSUME Typed, NEW c \in Author, Authoring(c)
  PROVE  Typed'
<1>0. c \in Caller /\ call[c] \in CallRecord /\ Pointed(call[c])
  BY CallShape DEF Caller
<1>1. CASE AddQuestion(c)
  <2>1. PICK row \in Row, stage \in {"number", "clash"} :
           Enter(c, [Idle EXCEPT !.op = "add", !.found = status, !.row = row, !.stage = stage])
    BY <1>1 DEF AddQuestion
  <2>2. [Idle EXCEPT !.op = "add", !.found = status, !.row = row, !.stage = stage] \in WellFormed
    <3> DEFINE r == [Idle EXCEPT !.op = "add", !.found = status, !.row = row, !.stage = stage]
    <3>1. r \in CallRecord
      BY IdleWellFormed DEF WellFormed, CallRecord, Op, Stage, Typed
    <3>2. r.op = "add" /\ r.row = row /\ r.stage = stage
      BY DEF Idle
    <3>5. Pointed(r)
      BY <3>2 DEF Pointed
    <3>6. QED
      BY <3>1, <3>5 DEF WellFormed
  <2>3. UNCHANGED <<event, paper, books, shown, overtaken, exposed>>
    BY <1>1 DEF AddQuestion
  <2>4. call' \in [Caller -> WellFormed]
    BY <1>0, <2>1, <2>2, EnterTyped
  <2>5. QED
    BY <2>3, <2>4, MovedTyped
<1>2. CASE Number(c)
  <2>1. PICK n \in 0..MaxSeq :
           Goto(c, [call[c] EXCEPT !.row = [call[c].row EXCEPT !.seq = n], !.stage = "clash"])
    BY <1>2 DEF Number
  <2>2. call[c].op = "add" /\ call[c].row \in Row
    BY <1>0, <1>2 DEF Number, At, Pointed
  <2>3. [call[c].row EXCEPT !.seq = n] \in Row
    BY <2>2 DEF Row
  <2>4. [call[c] EXCEPT !.row = [call[c].row EXCEPT !.seq = n], !.stage = "clash"] \in WellFormed
    <3> DEFINE r == [call[c] EXCEPT !.row = [call[c].row EXCEPT !.seq = n], !.stage = "clash"]
    <3>1. r \in CallRecord
      BY <1>0, <2>2, <2>3 DEF CallRecord, Stage
    <3>2. r.row = [call[c].row EXCEPT !.seq = n] /\ r.stage = "clash"
      BY <1>0 DEF CallRecord
    <3>4. r.op = call[c].op /\ r.student = call[c].student /\ r.attempt = call[c].attempt /\ r.question = call[c].question /\ r.to = call[c].to /\ r.items = call[c].items /\ r.paper = call[c].paper /\ r.result = call[c].result
      BY <1>0 DEF CallRecord
    <3>5. Pointed(r)
      BY <1>0, <2>2, <2>3, <3>2, <3>4 DEF Pointed
    <3>6. QED
      BY <3>1, <3>5 DEF WellFormed
  <2>5. QED
    BY <1>0, <1>2, <2>1, <2>4, GotoTyped, MovedTyped DEF Number
<1>3. CASE UpdateQuestion(c)
  <2>1. PICK q \in Question :
           Enter(c, [Idle EXCEPT !.op = "update", !.found = status, !.question = q, !.stage = "current"])
    BY <1>3 DEF UpdateQuestion
  <2>2. [Idle EXCEPT !.op = "update", !.found = status, !.question = q, !.stage = "current"] \in WellFormed
    <3> DEFINE r == [Idle EXCEPT !.op = "update", !.found = status, !.question = q, !.stage = "current"]
    <3>1. r \in CallRecord
      BY IdleWellFormed DEF WellFormed, CallRecord, Op, Stage, Typed
    <3>2. r.op = "update" /\ r.question = q /\ r.stage = "current"
      BY DEF Idle
    <3>5. Pointed(r)
      BY <3>2 DEF Pointed
    <3>6. QED
      BY <3>1, <3>5 DEF WellFormed
  <2>3. UNCHANGED <<event, paper, books, shown, overtaken, exposed>>
    BY <1>3 DEF UpdateQuestion
  <2>4. call' \in [Caller -> WellFormed]
    BY <1>0, <2>1, <2>2, EnterTyped
  <2>5. QED
    BY <2>3, <2>4, MovedTyped
<1>4. CASE DeleteQuestion(c)
  <2>1. PICK q \in Question :
           Enter(c, [Idle EXCEPT !.op = "delete", !.found = status, !.question = q, !.stage = "current"])
    BY <1>4 DEF DeleteQuestion
  <2>2. [Idle EXCEPT !.op = "delete", !.found = status, !.question = q, !.stage = "current"] \in WellFormed
    <3> DEFINE r == [Idle EXCEPT !.op = "delete", !.found = status, !.question = q, !.stage = "current"]
    <3>1. r \in CallRecord
      BY IdleWellFormed DEF WellFormed, CallRecord, Op, Stage, Typed
    <3>2. r.op = "delete" /\ r.question = q /\ r.stage = "current"
      BY DEF Idle
    <3>5. Pointed(r)
      BY <3>2 DEF Pointed
    <3>6. QED
      BY <3>1, <3>5 DEF WellFormed
  <2>3. UNCHANGED <<event, paper, books, shown, overtaken, exposed>>
    BY <1>4 DEF DeleteQuestion
  <2>4. call' \in [Caller -> WellFormed]
    BY <1>0, <2>1, <2>2, EnterTyped
  <2>5. QED
    BY <2>3, <2>4, MovedTyped
<1>5. CASE Current(c)
  <2>1. CASE call[c].question \notin Asked(paper)
    BY <1>0, <1>5, <2>1, ReturnTyped, MovedTyped DEF Current
  <2>2. CASE call[c].question \in Asked(paper) /\ call[c].op = "delete"
    <3>1. [call[c] EXCEPT !.stage = "write"] \in WellFormed
      <4> DEFINE r == [call[c] EXCEPT !.stage = "write"]
      <4>1. r \in CallRecord
        BY <1>0, <2>2 DEF CallRecord, Stage
      <4>2. r.stage = "write"
        BY <1>0 DEF CallRecord
      <4>4. r.op = call[c].op /\ r.student = call[c].student /\ r.attempt = call[c].attempt /\ r.question = call[c].question /\ r.row = call[c].row /\ r.to = call[c].to /\ r.items = call[c].items /\ r.paper = call[c].paper /\ r.result = call[c].result
        BY <1>0 DEF CallRecord
      <4>5. Pointed(r)
        BY <1>0, <2>2, <4>2, <4>4 DEF Pointed
      <4>6. QED
        BY <4>1, <4>5 DEF WellFormed
    <3>2. QED
      BY <1>0, <1>5, <2>2, <3>1, GotoTyped, MovedTyped DEF Current, Advance
  <2>3. CASE call[c].question \in Asked(paper) /\ call[c].op # "delete"
    <3>1. PICK row \in Row : Goto(c, [call[c] EXCEPT !.row = row, !.stage = "clash"])
      BY <1>5, <2>3 DEF Current
    <3>2. [call[c] EXCEPT !.row = row, !.stage = "clash"] \in WellFormed
      <4> DEFINE r == [call[c] EXCEPT !.row = row, !.stage = "clash"]
      <4>1. r \in CallRecord
        BY <1>0 DEF CallRecord, Stage
      <4>2. r.row = row /\ r.stage = "clash"
        BY <1>0 DEF CallRecord
      <4>4. r.op = call[c].op /\ r.student = call[c].student /\ r.attempt = call[c].attempt /\ r.question = call[c].question /\ r.to = call[c].to /\ r.items = call[c].items /\ r.paper = call[c].paper /\ r.result = call[c].result
        BY <1>0 DEF CallRecord
      <4>5. Pointed(r)
        BY <1>0, <4>2, <4>4 DEF Pointed
      <4>6. QED
        BY <4>1, <4>5 DEF WellFormed
    <3>3. QED
      BY <1>0, <1>5, <3>1, <3>2, GotoTyped, MovedTyped DEF Current
  <2>4. QED
    BY <2>1, <2>2, <2>3
<1>6. CASE Clash(c)
  <2>0. call[c].stage = "clash"
    BY <1>6 DEF Clash
  <2>1. [call[c] EXCEPT !.stage = "write"] \in WellFormed
    <3> DEFINE r == [call[c] EXCEPT !.stage = "write"]
    <3>1. r \in CallRecord
      BY <1>0 DEF CallRecord, Stage
    <3>2. r.stage = "write"
      BY <1>0 DEF CallRecord
    <3>4. r.op = call[c].op /\ r.student = call[c].student /\ r.attempt = call[c].attempt /\ r.question = call[c].question /\ r.row = call[c].row /\ r.to = call[c].to /\ r.items = call[c].items /\ r.paper = call[c].paper /\ r.result = call[c].result
      BY <1>0 DEF CallRecord
    <3>5. Pointed(r)
      BY <1>0, <2>0, <3>2, <3>4 DEF Pointed
    <3>6. QED
      BY <3>1, <3>5 DEF WellFormed
  <2>2. QED
    BY <1>0, <1>6, <2>1, ReturnTyped, GotoTyped, MovedTyped DEF Clash, Advance
<1>7. CASE InsertQuestion(c)
  <2>1. call[c].row \in Row
    BY <1>0, <1>7 DEF InsertQuestion, At, Pointed
  <2>2. paper' \in Paper
    BY <1>7, <2>1 DEF InsertQuestion, Typed, Paper, Unasked
  <2>3. QED
    BY <1>0, <1>7, <2>2, ReturnTyped DEF InsertQuestion, Written, Typed, event, books
<1>8. CASE RewriteQuestion(c)
  <2>1. call[c].row \in Row /\ call[c].question \in Question
    BY <1>0, <1>8 DEF RewriteQuestion, At, Pointed
  <2>2. paper' \in Paper
    BY <1>8, <2>1 DEF RewriteQuestion, Typed, Paper
  <2>3. QED
    BY <1>0, <1>8, <2>2, ReturnTyped DEF RewriteQuestion, Written, Typed, event, books
<1>9. CASE EraseQuestion(c)
  <2>1. call[c].question \in Question
    BY <1>0, <1>9 DEF EraseQuestion, At, Pointed
  <2>2. paper' \in Paper
    BY <1>9, <2>1 DEF EraseQuestion, Typed, Paper
  <2>3. QED
    BY <1>0, <1>9, <2>2, ReturnTyped DEF EraseQuestion, Written, Typed, event, books
<1>10. CASE ChangeEventStatus(c)
  <2>1. PICK to \in EventStatus :
           Enter(c, [Idle EXCEPT !.op = "status", !.found = status, !.to = to, !.stage = "write"])
    BY <1>10 DEF ChangeEventStatus
  <2>2. [Idle EXCEPT !.op = "status", !.found = status, !.to = to, !.stage = "write"] \in WellFormed
    <3> DEFINE r == [Idle EXCEPT !.op = "status", !.found = status, !.to = to, !.stage = "write"]
    <3>1. r \in CallRecord
      BY IdleWellFormed DEF WellFormed, CallRecord, Op, Stage, Typed
    <3>2. r.op = "status" /\ r.to = to /\ r.stage = "write"
      BY DEF Idle
    <3>5. Pointed(r)
      BY <3>2 DEF Pointed
    <3>6. QED
      BY <3>1, <3>5 DEF WellFormed
  <2>3. UNCHANGED <<event, paper, books, shown, overtaken, exposed>>
    BY <1>10 DEF ChangeEventStatus
  <2>4. call' \in [Caller -> WellFormed]
    BY <1>0, <2>1, <2>2, EnterTyped
  <2>5. QED
    BY <2>3, <2>4, MovedTyped
<1>11. CASE SetEventStatus(c)
  <2>1. status' \in EventStatus
    BY <1>0, <1>11 DEF SetEventStatus, At, Pointed
  <2>2. QED
    BY <1>0, <1>11, <2>1, ReturnTyped DEF SetEventStatus, Typed, books
<1>12. CASE UpdateEvent(c)
  <2>1. PICK to \in Schedule :
           Enter(c, [Idle EXCEPT !.op = "reschedule", !.to = to, !.stage = "write"])
    BY <1>12 DEF UpdateEvent
  <2>2. [Idle EXCEPT !.op = "reschedule", !.to = to, !.stage = "write"] \in WellFormed
    <3> DEFINE r == [Idle EXCEPT !.op = "reschedule", !.to = to, !.stage = "write"]
    <3>1. r \in CallRecord
      BY IdleWellFormed DEF WellFormed, CallRecord, Op, Stage, Typed
    <3>2. r.op = "reschedule" /\ r.to = to /\ r.stage = "write"
      BY DEF Idle
    <3>5. Pointed(r)
      BY <3>2 DEF Pointed
    <3>6. QED
      BY <3>1, <3>5 DEF WellFormed
  <2>3. UNCHANGED <<event, paper, books, shown, overtaken, exposed>>
    BY <1>12 DEF UpdateEvent
  <2>4. call' \in [Caller -> WellFormed]
    BY <1>0, <2>1, <2>2, EnterTyped
  <2>5. QED
    BY <2>3, <2>4, MovedTyped
<1>13. CASE SetSchedule(c)
  <2>1. schedule' \in Schedule
    BY <1>0, <1>13 DEF SetSchedule, At, Pointed
  <2>2. QED
    BY <1>0, <1>13, <2>1, ReturnTyped DEF SetSchedule, Typed, books
<1>14. QED
  BY <1>1, <1>2, <1>3, <1>4, <1>5, <1>6, <1>7, <1>8, <1>9, <1>10, <1>11, <1>12, <1>13 DEF Authoring

\* An attempt that is open or submitted has a student.
LEMMA OpenHasStudent ==
  ASSUME Typed, NEW a \in Attempt, attempts[a].status = "IN_PROGRESS"
  PROVE  attempts[a].student \in Student /\ attempts[a] \in AttemptRow
BY NoneIsNoOp DEF Typed, AttemptRow, NoAttempt

LEMMA SubmittedTyped ==
  ASSUME Typed, NEW a \in Attempt, attempts[a].status = "IN_PROGRESS"
  PROVE  [attempts EXCEPT ![a].status = "SUBMITTED"] \in [Attempt -> AttemptRow \cup {NoAttempt}]
<1>1. attempts[a] \in AttemptRow
  BY OpenHasStudent
<1>2. [attempts[a] EXCEPT !.status = "SUBMITTED"] \in AttemptRow
  BY <1>1 DEF AttemptRow
<1>3. QED
  BY <1>2 DEF Typed

LEMMA TailRemains ==
  ASSUME NEW S, NEW s \in Seq(S), s # <<>>, Len(s) # 1
  PROVE  Tail(s) # <<>>
<1>1. Len(s) \in Nat /\ Len(s) # 0
  OBVIOUS
<1>2. Len(Tail(s)) = Len(s) - 1
  BY <1>1
<1>3. Len(Tail(s)) # 0
  BY <1>1, <1>2
<1>4. Len(<<>>) = 0
  OBVIOUS
<1>5. QED
  BY <1>3, <1>4

LEMMA BatchIsSequence ==
  ASSUME NEW items \in Batch
  PROVE  items \in Seq(Item) /\ items # <<>>
<1>1. PICK n \in 1..MaxItems : items \in [1..n -> Item]
  BY DEF Batch
<1>2. n \in Nat
  BY CallersAssumption
<1>3. items \in Seq(Item) /\ Len(items) = n
  BY <1>1, <1>2
<1>4. QED
  BY <1>1, <1>2, <1>3

LEMMA AttemptingTyped ==
  ASSUME Typed, NEW c \in Learner, Attempting(c)
  PROVE  Typed'
<1>0. c \in Caller /\ call[c] \in CallRecord /\ Pointed(call[c])
  BY CallShape DEF Caller
<1>1. CASE StartAttempt(c)
  <2>1. PICK s \in Student :
           Enter(c, [Idle EXCEPT !.op = "start", !.student = s, !.stage = "enrolment"])
    BY <1>1 DEF StartAttempt
  <2>2. [Idle EXCEPT !.op = "start", !.student = s, !.stage = "enrolment"] \in WellFormed
    <3> DEFINE r == [Idle EXCEPT !.op = "start", !.student = s, !.stage = "enrolment"]
    <3>1. r \in CallRecord
      BY IdleWellFormed DEF WellFormed, CallRecord, Op, Stage, Typed
    <3>2. r.op = "start" /\ r.student = s /\ r.stage = "enrolment"
      BY DEF Idle
    <3>4. Pointed(r)
      BY <3>2 DEF Pointed
    <3>5. QED
      BY <3>1, <3>4 DEF WellFormed
  <2>3. UNCHANGED <<event, paper, books, shown, overtaken, exposed>>
    BY <1>1 DEF StartAttempt
  <2>4. call' \in [Caller -> WellFormed]
    BY <1>0, <2>1, <2>2, EnterTyped
  <2>5. QED
    BY <2>3, <2>4, MovedTyped
<1>2. CASE CheckEnrolment(c)
  <2>0. call[c].stage = "enrolment"
    BY <1>2 DEF CheckEnrolment
  <2>1. ASSUME NEW stage \in {"lookup", "paper"}, call[c].op = "start" => stage = "lookup"
        PROVE  [call[c] EXCEPT !.stage = stage] \in WellFormed
    <3> DEFINE r == [call[c] EXCEPT !.stage = stage]
    <3>1. r \in CallRecord
      BY <1>0 DEF CallRecord, Stage
    <3>2. r.stage = stage
      BY <1>0 DEF CallRecord
    <3>3. r.op = call[c].op /\ r.student = call[c].student /\ r.attempt = call[c].attempt /\ r.question = call[c].question /\ r.row = call[c].row /\ r.to = call[c].to /\ r.items = call[c].items /\ r.paper = call[c].paper /\ r.result = call[c].result
      BY <1>0 DEF CallRecord
    <3>4. Pointed(r)
      BY <1>0, <2>0, <2>1, <3>2, <3>3 DEF Pointed
    <3>5. QED
      BY <3>1, <3>4 DEF WellFormed
  <2>2. [call[c] EXCEPT !.stage = IF call[c].op = "start" THEN "lookup" ELSE "paper"] \in WellFormed
    BY <2>1
  <2>3. UNCHANGED <<event, paper, books, shown, overtaken, exposed>>
    BY <1>2 DEF CheckEnrolment
  <2>4. call' \in [Caller -> WellFormed]
    BY <1>0, <1>2, <2>2, ReturnTyped, GotoTyped DEF CheckEnrolment, Advance
  <2>5. QED
    BY <2>3, <2>4, MovedTyped
<1>3. CASE FindOpenAttempt(c)
  <2>0. call[c].op = "start" /\ call[c].stage \in {"lookup", "retry"}
    BY <1>3 DEF FindOpenAttempt
  <2>1. ASSUME NEW a \in Attempt
        PROVE  [call[c] EXCEPT !.attempt = a, !.stage = "paper"] \in WellFormed
    <3> DEFINE r == [call[c] EXCEPT !.attempt = a, !.stage = "paper"]
    <3>1. r \in CallRecord
      BY <1>0 DEF CallRecord, Stage
    <3>2. r.attempt = a /\ r.stage = "paper"
      BY <1>0 DEF CallRecord
    <3>3. r.op = call[c].op /\ r.student = call[c].student /\ r.question = call[c].question /\ r.row = call[c].row /\ r.to = call[c].to /\ r.items = call[c].items /\ r.paper = call[c].paper /\ r.result = call[c].result
      BY <1>0 DEF CallRecord
    <3>4. Pointed(r)
      BY <1>0, <2>0, <3>2, <3>3 DEF Pointed
    <3>5. QED
      BY <3>1, <3>4 DEF WellFormed
  <2>2. [call[c] EXCEPT !.stage = "insert"] \in WellFormed
    <3> DEFINE r == [call[c] EXCEPT !.stage = "insert"]
    <3>1. r \in CallRecord
      BY <1>0 DEF CallRecord, Stage
    <3>2. r.stage = "insert"
      BY <1>0 DEF CallRecord
    <3>3. r.op = call[c].op /\ r.student = call[c].student /\ r.attempt = call[c].attempt /\ r.question = call[c].question /\ r.row = call[c].row /\ r.to = call[c].to /\ r.items = call[c].items /\ r.paper = call[c].paper /\ r.result = call[c].result
      BY <1>0 DEF CallRecord
    <3>4. Pointed(r)
      BY <1>0, <2>0, <3>2, <3>3 DEF Pointed
    <3>5. QED
      BY <3>1, <3>4 DEF WellFormed
  <2>3. UNCHANGED <<event, paper, books, shown, overtaken, exposed>>
    BY <1>3 DEF FindOpenAttempt
  <2>4. call' \in [Caller -> WellFormed]
    <3>1. CASE Open(call[c].student) = {}
      BY <1>0, <1>3, <2>2, <3>1, ReturnTyped, GotoTyped DEF FindOpenAttempt, Advance
    <3>2. CASE Open(call[c].student) # {}
      <4>1. PICK a \in Attempt : Goto(c, [call[c] EXCEPT !.attempt = a, !.stage = "paper"])
        BY <1>3, <3>2 DEF FindOpenAttempt, Open
      <4>2. QED
        BY <1>0, <2>1, <4>1, GotoTyped
    <3>3. QED
      BY <3>1, <3>2
  <2>5. QED
    BY <2>3, <2>4, MovedTyped
<1>4. CASE CreateAttempt(c)
  <2>0. call[c].op = "start" /\ call[c].stage = "insert" /\ call[c].student \in Student
    BY <1>0, <1>4 DEF CreateAttempt, At, Pointed
  <2>1. ASSUME NEW a \in Attempt
        PROVE  [call[c] EXCEPT !.attempt = a, !.stage = "paper"] \in WellFormed
    <3> DEFINE r == [call[c] EXCEPT !.attempt = a, !.stage = "paper"]
    <3>1. r \in CallRecord
      BY <1>0 DEF CallRecord, Stage
    <3>2. r.attempt = a /\ r.stage = "paper"
      BY <1>0 DEF CallRecord
    <3>3. r.op = call[c].op /\ r.student = call[c].student /\ r.question = call[c].question /\ r.row = call[c].row /\ r.to = call[c].to /\ r.items = call[c].items /\ r.paper = call[c].paper /\ r.result = call[c].result
      BY <1>0 DEF CallRecord
    <3>4. Pointed(r)
      BY <1>0, <2>0, <3>2, <3>3 DEF Pointed
    <3>5. QED
      BY <3>1, <3>4 DEF WellFormed
  <2>2. [call[c] EXCEPT !.stage = "retry"] \in WellFormed
    <3> DEFINE r == [call[c] EXCEPT !.stage = "retry"]
    <3>1. r \in CallRecord
      BY <1>0 DEF CallRecord, Stage
    <3>2. r.stage = "retry"
      BY <1>0 DEF CallRecord
    <3>3. r.op = call[c].op /\ r.student = call[c].student /\ r.attempt = call[c].attempt /\ r.question = call[c].question /\ r.row = call[c].row /\ r.to = call[c].to /\ r.items = call[c].items /\ r.paper = call[c].paper /\ r.result = call[c].result
      BY <1>0 DEF CallRecord
    <3>4. Pointed(r)
      BY <1>0, <2>0, <3>2, <3>3 DEF Pointed
    <3>5. QED
      BY <3>1, <3>4 DEF WellFormed
  <2>3. UNCHANGED <<event, paper, answers, results, shown, overtaken, exposed>>
    BY <1>4 DEF CreateAttempt
  <2>4. CASE Open(call[c].student) # {}
    <3>1. call' \in [Caller -> WellFormed]
      BY <1>0, <1>4, <2>2, <2>4, GotoTyped DEF CreateAttempt, Advance
    <3>2. QED
      BY <1>4, <2>3, <2>4, <3>1, MovedTyped DEF CreateAttempt, books
  <2>5. CASE Open(call[c].student) = {}
    <3>1. PICK a \in Unused :
             /\ attempts' = [attempts EXCEPT ![a] = [student |-> call[c].student,
                                                     status  |-> "IN_PROGRESS"]]
             /\ Goto(c, [call[c] EXCEPT !.attempt = a, !.stage = "paper"])
      BY <1>4, <2>5 DEF CreateAttempt
    <3>2. a \in Attempt
      BY DEF Unused
    <3>3. call' \in [Caller -> WellFormed]
      BY <1>0, <2>1, <3>1, <3>2, GotoTyped
    <3>4. attempts' \in [Attempt -> AttemptRow \cup {NoAttempt}]
      BY <2>0, <3>1 DEF Typed, AttemptRow
    <3>5. QED
      BY <2>3, <3>3, <3>4 DEF Typed, event
  <2>6. QED
    BY <2>4, <2>5
<1>5. CASE ShowPaper(c)
  <2>1. call[c].attempt \in Attempt
    BY <1>0, <1>5 DEF ShowPaper, At, Pointed
  <2>2. shown' \in [Attempt -> Paper \cup {None}]
    BY <1>5, <2>1 DEF ShowPaper, Typed
  <2>3. QED
    BY <1>0, <1>5, <2>2, ReturnTyped DEF ShowPaper, Typed, event, books
<1>6. CASE SaveAnswers(c)
  <2>1. PICK a \in Attempt : \E items \in Batch :
           /\ attempts[a].status = "IN_PROGRESS"
           /\ Enter(c, [Idle EXCEPT !.op = "save", !.student = attempts[a].student, !.attempt = a,
                                    !.items = items, !.stage = "paper"])
    BY <1>6 DEF SaveAnswers
  <2>2. PICK items \in Batch :
           Enter(c, [Idle EXCEPT !.op = "save", !.student = attempts[a].student, !.attempt = a,
                                 !.items = items, !.stage = "paper"])
    BY <2>1
  <2>3. attempts[a].student \in Student
    BY <2>1, OpenHasStudent
  <2>4. items \in Seq(Item) /\ items # <<>>
    BY BatchIsSequence
  <2>5. [Idle EXCEPT !.op = "save", !.student = attempts[a].student, !.attempt = a, !.items = items, !.stage = "paper"] \in WellFormed
    <3> DEFINE r == [Idle EXCEPT !.op = "save", !.student = attempts[a].student, !.attempt = a, !.items = items, !.stage = "paper"]
    <3>1. r \in CallRecord
      BY IdleWellFormed, <2>3, <2>4 DEF WellFormed, CallRecord, Op, Stage
    <3>2. r.op = "save" /\ r.student = attempts[a].student /\ r.attempt = a /\ r.items = items /\ r.stage = "paper"
      BY DEF Idle
    <3>4. Pointed(r)
      BY <3>2, <2>3, <2>4 DEF Pointed
    <3>5. QED
      BY <3>1, <3>4 DEF WellFormed
  <2>6. UNCHANGED <<event, paper, books, shown, overtaken, exposed>>
    BY <1>6 DEF SaveAnswers
  <2>7. call' \in [Caller -> WellFormed]
    BY <1>0, <2>2, <2>5, EnterTyped
  <2>8. QED
    BY <2>6, <2>7, MovedTyped
<1>7. CASE ReadPaper(c)
  <2>0. call[c].op = "save" /\ paper \in Paper
    BY <1>7 DEF ReadPaper, At, Typed
  <2>1. [call[c] EXCEPT !.paper = paper, !.stage = "apply"] \in WellFormed
    <3> DEFINE r == [call[c] EXCEPT !.paper = paper, !.stage = "apply"]
    <3>1. r \in CallRecord
      BY <1>0, <2>0 DEF CallRecord, Stage
    <3>2. r.paper = paper /\ r.stage = "apply"
      BY <1>0 DEF CallRecord
    <3>3. r.op = call[c].op /\ r.student = call[c].student /\ r.attempt = call[c].attempt /\ r.question = call[c].question /\ r.row = call[c].row /\ r.to = call[c].to /\ r.items = call[c].items /\ r.result = call[c].result
      BY <1>0 DEF CallRecord
    <3>4. Pointed(r)
      BY <1>0, <2>0, <3>2, <3>3 DEF Pointed
    <3>5. QED
      BY <3>1, <3>4 DEF WellFormed
  <2>2. QED
    BY <1>0, <1>7, <2>1, GotoTyped, MovedTyped DEF ReadPaper
<1>8. CASE ApplyAnswer(c)
  <2>0. /\ call[c].op = "save" /\ call[c].stage = "apply"
        /\ call[c].attempt \in Attempt /\ call[c].paper \in Paper
        /\ call[c].items \in Seq(Item) /\ call[c].items # <<>>
    BY <1>0, <1>8 DEF ApplyAnswer, At, Pointed, CallRecord
  <2> DEFINE a == call[c].attempt
             q == Head(call[c].items)[1]
             o == Head(call[c].items)[2]
             fits == q \in Asked(call[c].paper) /\ o \in call[c].paper[q].options
  <2>1. q \in Question /\ o \in Option
    <3>1. Head(call[c].items) \in Item
      BY <2>0
    <3>2. QED
      BY <3>1 DEF Item
  <2>2. UNCHANGED <<event, paper, attempts, results, shown, exposed>>
    BY <1>8 DEF ApplyAnswer
  <2>3. CASE ~ fits \/ q \notin Asked(paper)
    <3>1. Return(c) /\ UNCHANGED <<answers, overtaken>>
      BY <1>8, <2>3 DEF ApplyAnswer
    <3>2. QED
      BY <1>0, <2>2, <3>1, ReturnTyped, MovedTyped DEF books
  <2>4. CASE ~ (~ fits \/ q \notin Asked(paper))
    <3>1. answers' = [answers EXCEPT ![a][q] = o] /\ overtaken' \subseteq Attempt
      BY <1>8, <2>0, <2>4 DEF ApplyAnswer, Typed
    <3>2. answers' \in [Attempt -> Sheet]
      BY <2>0, <2>1, <3>1 DEF Typed, Sheet
    <3>3. Tail(call[c].items) \in Seq(Item)
      BY <2>0
    <3>4. CASE Len(call[c].items) = 1
      BY <1>0, <1>8, <2>2, <2>4, <3>1, <3>2, <3>4, ReturnTyped DEF ApplyAnswer, Typed, event
    <3>5. CASE Len(call[c].items) # 1
      <4>1. Goto(c, [call[c] EXCEPT !.items = Tail(call[c].items)])
        BY <1>8, <2>4, <3>5 DEF ApplyAnswer
      <4>2. Tail(call[c].items) # <<>>
        BY <2>0, <3>5, TailRemains
      <4>3. [call[c] EXCEPT !.items = Tail(call[c].items)] \in WellFormed
        <5> DEFINE r == [call[c] EXCEPT !.items = Tail(call[c].items)]
        <5>1. r \in CallRecord
          BY <1>0, <3>3 DEF CallRecord, Stage
        <5>2. r.items = Tail(call[c].items)
          BY <1>0 DEF CallRecord
        <5>3. r.op = call[c].op /\ r.stage = call[c].stage /\ r.student = call[c].student /\ r.attempt = call[c].attempt /\ r.question = call[c].question /\ r.row = call[c].row /\ r.to = call[c].to /\ r.paper = call[c].paper /\ r.result = call[c].result
          BY <1>0 DEF CallRecord
        <5>4. Pointed(r)
          BY <1>0, <2>0, <4>2, <5>2, <5>3 DEF Pointed
        <5>5. QED
          BY <5>1, <5>4 DEF WellFormed
      <4>4. QED
        BY <1>0, <2>2, <3>1, <3>2, <4>1, <4>3, GotoTyped DEF Typed, event
    <3>6. QED
      BY <3>4, <3>5
  <2>5. QED
    BY <2>3, <2>4
<1>9. CASE SubmitAttempt(c)
  <2>1. PICK a \in Attempt :
           /\ attempts[a].status = "IN_PROGRESS"
           /\ Enter(c, [Idle EXCEPT !.op = "submit", !.student = attempts[a].student, !.attempt = a,
                                    !.stage = "event"])
    BY <1>9 DEF SubmitAttempt
  <2>2. attempts[a].student \in Student
    BY <2>1, OpenHasStudent
  <2>3. [Idle EXCEPT !.op = "submit", !.student = attempts[a].student, !.attempt = a, !.stage = "event"] \in WellFormed
    <3> DEFINE r == [Idle EXCEPT !.op = "submit", !.student = attempts[a].student, !.attempt = a, !.stage = "event"]
    <3>1. r \in CallRecord
      BY IdleWellFormed, <2>2 DEF WellFormed, CallRecord, Op, Stage
    <3>2. r.op = "submit" /\ r.student = attempts[a].student /\ r.attempt = a /\ r.stage = "event"
      BY DEF Idle
    <3>4. Pointed(r)
      BY <3>2, <2>2 DEF Pointed
    <3>5. QED
      BY <3>1, <3>4 DEF WellFormed
  <2>4. UNCHANGED <<event, paper, books, shown, overtaken, exposed>>
    BY <1>9 DEF SubmitAttempt
  <2>5. call' \in [Caller -> WellFormed]
    BY <1>0, <2>1, <2>3, EnterTyped
  <2>6. QED
    BY <2>4, <2>5, MovedTyped
<1>10. CASE CheckEvent(c)
  <2>0. call[c].op = "submit"
    BY <1>10 DEF CheckEvent, At
  <2>1. [call[c] EXCEPT !.stage = "enrolment"] \in WellFormed
    <3> DEFINE r == [call[c] EXCEPT !.stage = "enrolment"]
    <3>1. r \in CallRecord
      BY <1>0 DEF CallRecord, Stage
    <3>2. r.stage = "enrolment"
      BY <1>0 DEF CallRecord
    <3>3. r.op = call[c].op /\ r.student = call[c].student /\ r.attempt = call[c].attempt /\ r.question = call[c].question /\ r.row = call[c].row /\ r.to = call[c].to /\ r.items = call[c].items /\ r.paper = call[c].paper /\ r.result = call[c].result
      BY <1>0 DEF CallRecord
    <3>4. Pointed(r)
      BY <1>0, <2>0, <3>2, <3>3 DEF Pointed
    <3>5. QED
      BY <3>1, <3>4 DEF WellFormed
  <2>2. QED
    BY <1>0, <1>10, <2>1, ReturnTyped, GotoTyped, MovedTyped DEF CheckEvent, Advance
<1>11. CASE LoadPaper(c)
  <2>0. call[c].op = "submit" /\ paper \in Paper
    BY <1>11 DEF LoadPaper, At, Typed
  <2>1. [call[c] EXCEPT !.paper = paper, !.stage = "answers"] \in WellFormed
    <3> DEFINE r == [call[c] EXCEPT !.paper = paper, !.stage = "answers"]
    <3>1. r \in CallRecord
      BY <1>0, <2>0 DEF CallRecord, Stage
    <3>2. r.paper = paper /\ r.stage = "answers"
      BY <1>0 DEF CallRecord
    <3>3. r.op = call[c].op /\ r.student = call[c].student /\ r.attempt = call[c].attempt /\ r.question = call[c].question /\ r.row = call[c].row /\ r.to = call[c].to /\ r.items = call[c].items /\ r.result = call[c].result
      BY <1>0 DEF CallRecord
    <3>4. Pointed(r)
      BY <1>0, <2>0, <3>2, <3>3 DEF Pointed
    <3>5. QED
      BY <3>1, <3>4 DEF WellFormed
  <2>2. QED
    BY <1>0, <1>11, <2>1, ReturnTyped, GotoTyped, MovedTyped DEF LoadPaper
<1>12. CASE Evaluate(c)
  <2>0. /\ call[c].op = "submit" /\ call[c].paper \in Paper
        /\ answers[call[c].attempt] \in Sheet
    BY <1>0, <1>12 DEF Evaluate, At, Pointed, Typed
  <2>1. Evaluation(call[c].paper, answers[call[c].attempt]) \in Marked
    BY <2>0 DEF Marked
  <2>2. [call[c] EXCEPT !.result = Evaluation(call[c].paper, answers[call[c].attempt]), !.stage = "store"] \in WellFormed
    <3> DEFINE r == [call[c] EXCEPT !.result = Evaluation(call[c].paper, answers[call[c].attempt]), !.stage = "store"]
    <3>1. r \in CallRecord
      BY <1>0, <2>1 DEF CallRecord, Stage
    <3>2. r.result = Evaluation(call[c].paper, answers[call[c].attempt]) /\ r.stage = "store"
      BY <1>0 DEF CallRecord
    <3>3. r.op = call[c].op /\ r.student = call[c].student /\ r.attempt = call[c].attempt /\ r.question = call[c].question /\ r.row = call[c].row /\ r.to = call[c].to /\ r.items = call[c].items /\ r.paper = call[c].paper
      BY <1>0 DEF CallRecord
    <3>4. Pointed(r)
      BY <1>0, <2>0, <2>1, <3>2, <3>3 DEF Pointed
    <3>5. QED
      BY <3>1, <3>4 DEF WellFormed
  <2>3. QED
    BY <1>0, <1>12, <2>2, ReturnTyped, GotoTyped, MovedTyped DEF Evaluate
<1>13. CASE SubmitAttemptWithResult(c)
  <2>0. call[c].attempt \in Attempt /\ call[c].result \in Marked
    BY <1>0, <1>13 DEF SubmitAttemptWithResult, At, Pointed
  <2>1. /\ attempts' \in [Attempt -> AttemptRow \cup {NoAttempt}]
        /\ results' \in [Attempt -> Marked \cup {None}]
    BY <1>13, <2>0, SubmittedTyped DEF SubmitAttemptWithResult, Typed
  <2>2. QED
    BY <1>0, <1>13, <2>1, ReturnTyped DEF SubmitAttemptWithResult, Typed, event
<1>14. QED
  BY <1>1, <1>2, <1>3, <1>4, <1>5, <1>6, <1>7, <1>8, <1>9, <1>10, <1>11, <1>12, <1>13 DEF Attempting

LEMMA TypedInductive == Typed /\ [Next]_vars => Typed'
<1> SUFFICES ASSUME Typed, [Next]_vars PROVE Typed'
  OBVIOUS
<1>1. CASE \E c \in Author : Authoring(c)
  BY <1>1, AuthoringTyped
<1>2. CASE \E c \in Learner : Attempting(c)
  BY <1>2, AttemptingTyped
<1>3. CASE TimePasses
  <2>1. schedule' \in Schedule
    BY <1>3 DEF TimePasses, Schedule, Typed
  <2>2. QED
    BY <1>3, <2>1 DEF TimePasses, Typed, books
<1>4. CASE EnrolmentChanges
  <2>1. enrolled' \subseteq Student
    BY <1>4 DEF EnrolmentChanges, Typed
  <2>2. QED
    BY <1>4, <2>1 DEF EnrolmentChanges, Typed, books
<1>5. CASE UNCHANGED vars
  BY <1>5 DEF vars, Typed
<1>6. QED
  BY <1>1, <1>2, <1>3, <1>4, <1>5 DEF Next

(***************************************************************************)
(* The rows of attempts and results.  Of all the actions, only these two   *)
(* change either table, and each is one guarded statement or transaction.  *)
(***************************************************************************)
LEMMA BooksSteps ==
  ASSUME [Next]_vars
  PROVE  \/ UNCHANGED <<attempts, results>>
         \/ \E c \in Learner : CreateAttempt(c) \/ SubmitAttemptWithResult(c)
<1>1. CASE \E c \in Author : Authoring(c)
  BY <1>1 DEF Authoring, AddQuestion, Number, UpdateQuestion, DeleteQuestion, Current, Clash,
              InsertQuestion, RewriteQuestion, EraseQuestion, ChangeEventStatus, SetEventStatus,
              UpdateEvent, SetSchedule, books
<1>2. CASE \E c \in Learner : Attempting(c)
  BY <1>2 DEF Attempting, StartAttempt, CheckEnrolment, FindOpenAttempt, ShowPaper, SaveAnswers,
              ReadPaper, ApplyAnswer, SubmitAttempt, CheckEvent, LoadPaper, Evaluate, books
<1>3. CASE TimePasses \/ EnrolmentChanges \/ UNCHANGED vars
  BY <1>3 DEF TimePasses, EnrolmentChanges, vars, books
<1>4. QED
  BY <1>1, <1>2, <1>3 DEF Next

SingleOpen == \A s \in Student : \A a, b \in Open(s) : a = b

Booked == Typed /\ ResultPerSubmission /\ SingleOpen

LEMMA InitBooked == Init => Booked
<1> SUFFICES ASSUME Init PROVE Booked
  OBVIOUS
<1>1. Typed
  BY InitTyped
<1>2. \A a \in Attempt : results[a] = None /\ attempts[a].status = None
  BY DEF Init, NoAttempt
<1>3. None # "IN_PROGRESS" /\ None # "SUBMITTED"
  BY NoneIsNoOp
<1>4. ResultPerSubmission
  BY <1>2, <1>3 DEF ResultPerSubmission
<1>5. SingleOpen
  BY <1>2, <1>3 DEF SingleOpen, Open
<1>6. QED
  BY <1>1, <1>4, <1>5 DEF Booked

\* What an insertion does to the tables: a new open attempt where the student had none.
LEMMA CreatedBooks ==
  ASSUME Booked, NEW c \in Learner, CreateAttempt(c)
  PROVE  ResultPerSubmission' /\ SingleOpen'
<1>1. CASE UNCHANGED attempts
  BY <1>1 DEF CreateAttempt, Booked, ResultPerSubmission, SingleOpen, Open
<1>2. CASE attempts' # attempts
  <2> DEFINE s == call[c].student
  <2>1. Open(s) = {}
    BY <1>2 DEF CreateAttempt
  <2>2. PICK a \in Unused :
           attempts' = [attempts EXCEPT ![a] = [student |-> s, status |-> "IN_PROGRESS"]]
    BY <2>1 DEF CreateAttempt
  <2>3. a \in Attempt /\ attempts[a].status = None /\ results' = results
    <3>1. a \in Attempt /\ attempts[a] = NoAttempt
      BY DEF Unused
    <3>2. NoAttempt.status = None
      BY DEF NoAttempt
    <3>3. QED
      BY <3>1, <3>2 DEF CreateAttempt
  <2>4. \A b \in Attempt : attempts'[b] = IF b = a THEN [student |-> s, status |-> "IN_PROGRESS"]
                                                   ELSE attempts[b]
    BY <2>2 DEF Booked, Typed
  <2>5. None # "SUBMITTED"
    BY NoneIsNoOp
  <2>6. ResultPerSubmission'
    BY <2>3, <2>4, <2>5 DEF Booked, ResultPerSubmission
  <2>7. ASSUME NEW t \in Student, NEW x \in Open(t)', NEW y \in Open(t)' PROVE x = y
    <3>1. x \in Attempt /\ y \in Attempt
      BY DEF Open
    <3>2. CASE t = s
      <4>1. x = a /\ y = a
        BY <2>1, <2>4, <3>1, <3>2 DEF Open
      <4>2. QED
        BY <4>1
    <3>3. CASE t # s
      <4>1. x \in Open(t) /\ y \in Open(t)
        BY <2>4, <3>1, <3>3 DEF Open
      <4>2. QED
        BY <4>1 DEF Booked, SingleOpen
    <3>4. QED
      BY <3>2, <3>3
  <2>8. QED
    BY <2>6, <2>7 DEF SingleOpen
<1>3. QED
  BY <1>1, <1>2

\* What the transaction does: an open attempt is submitted and gets its result.
LEMMA SubmittedBooks ==
  ASSUME Booked, NEW c \in Learner, SubmitAttemptWithResult(c)
  PROVE  ResultPerSubmission' /\ SingleOpen'
<1> DEFINE a == call[c].attempt
<1>1. a \in Attempt /\ call[c].result \in Marked
  BY CallShape DEF Booked, Caller, SubmitAttemptWithResult, At, Pointed
<1>2. CASE attempts[a].status # "IN_PROGRESS"
  BY <1>2 DEF SubmitAttemptWithResult, Booked, ResultPerSubmission, SingleOpen, Open
<1>3. CASE attempts[a].status = "IN_PROGRESS"
  <2>1. /\ attempts' = [attempts EXCEPT ![a].status = "SUBMITTED"]
        /\ results' = [results EXCEPT ![a] = call[c].result]
    BY <1>3 DEF SubmitAttemptWithResult
  <2>2. attempts[a] \in AttemptRow
    BY <1>1, <1>3, OpenHasStudent DEF Booked
  <2>3. /\ attempts'[a].status = "SUBMITTED"
        /\ \A b \in Attempt \ {a} : attempts'[b] = attempts[b] /\ results'[b] = results[b]
    BY <1>1, <2>1, <2>2 DEF Booked, Typed, AttemptRow
  <2>4. results'[a] # None
    BY <1>1, <2>1, NullIsNoResult DEF Booked, Typed, Marked
  <2>5. ResultPerSubmission'
    BY <2>3, <2>4 DEF Booked, ResultPerSubmission
  <2>6. \A s \in Student : Open(s)' \subseteq Open(s)
    BY <2>3 DEF Open
  <2>7. QED
    BY <2>5, <2>6 DEF Booked, SingleOpen
<1>4. QED
  BY <1>2, <1>3

LEMMA BookedInductive == Booked /\ [Next]_vars => Booked'
<1> SUFFICES ASSUME Booked, [Next]_vars PROVE Booked'
  OBVIOUS
<1>1. Typed'
  BY TypedInductive DEF Booked
<1>2. CASE UNCHANGED <<attempts, results>>
  BY <1>1, <1>2 DEF Booked, ResultPerSubmission, SingleOpen, Open
<1>3. CASE \E c \in Learner : CreateAttempt(c) \/ SubmitAttemptWithResult(c)
  BY <1>1, <1>3, CreatedBooks, SubmittedBooks DEF Booked
<1>4. QED
  BY <1>2, <1>3, BooksSteps

\* In every reachable state the tables and calls are well-formed, results belong to
\* submitted attempts, and no student has two open ones.
THEOREM BookedInvariant == Spec => []Booked
<1>1. QED
  BY InitBooked, BookedInductive, PTL DEF Spec

\* An attempt is submitted exactly when it has a result: the promise of
\* submitAttemptWithResult, whatever the overlap of calls.
THEOREM SubmissionsHaveResults == Spec => []ResultPerSubmission
<1>1. Booked => ResultPerSubmission
  BY DEF Booked
<1>2. QED
  BY <1>1, BookedInvariant, PTL

\* However many starts of a student race, at most one attempt is open: the partial
\* unique index of migration 043 decides, the lookup before it does not.
THEOREM AttemptsOpenSingly == Spec => []OneOpenAttempt
<1>1. Booked => OneOpenAttempt
  <2> SUFFICES ASSUME Booked, NEW s \in Student PROVE Cardinality(Open(s)) <= 1
    BY DEF OneOpenAttempt
  <2>1. CASE Open(s) = {}
    BY <2>1, FS_EmptySet
  <2>2. CASE Open(s) # {}
    <3>1. PICK a \in Open(s) : Open(s) = {a}
      BY <2>2 DEF Booked, SingleOpen
    <3>2. Cardinality({a}) = 1
      BY FS_Singleton
    <3>3. QED
      BY <3>1, <3>2
  <2>3. QED
    BY <2>1, <2>2
<1>2. QED
  BY <1>1, BookedInvariant, PTL

\* A stored result and its attempt never change again: of the submissions that
\* evaluated one attempt, the guarded UPDATE lets one through.
THEOREM ResultsNeverChange == Spec => ResultsFinal
<1>1. ASSUME Booked, [Next]_vars, NEW a \in Attempt, results[a] # None
      PROVE  results'[a] = results[a] /\ attempts'[a] = attempts[a]
  <2>1. attempts[a].status = "SUBMITTED"
    BY <1>1 DEF Booked, ResultPerSubmission
  <2>2. CASE UNCHANGED <<attempts, results>>
    BY <2>2
  <2>3. ASSUME NEW c \in Learner, CreateAttempt(c)
        PROVE  results'[a] = results[a] /\ attempts'[a] = attempts[a]
    <3>1. a \notin Unused
      BY <2>1, NoneIsNoOp DEF Unused, NoAttempt
    <3>2. QED
      BY <1>1, <2>3, <3>1 DEF CreateAttempt, Booked, Typed, Unused
  <2>4. ASSUME NEW c \in Learner, SubmitAttemptWithResult(c)
        PROVE  results'[a] = results[a] /\ attempts'[a] = attempts[a]
    <3>1. call[c].attempt \in Attempt
      BY <1>1, <2>4, CallShape DEF Booked, Caller, SubmitAttemptWithResult, At, Pointed
    <3>2. CASE attempts[call[c].attempt].status # "IN_PROGRESS"
      BY <2>4, <3>2 DEF SubmitAttemptWithResult
    <3>3. CASE attempts[call[c].attempt].status = "IN_PROGRESS"
      <4>1. call[c].attempt # a
        BY <2>1, <3>3
      <4>2. QED
        BY <1>1, <2>4, <3>1, <3>3, <4>1 DEF SubmitAttemptWithResult, Booked, Typed
    <3>4. QED
      BY <3>2, <3>3
  <2>5. QED
    BY <1>1, <2>2, <2>3, <2>4, BooksSteps
<1>2. Booked /\ [Next]_vars =>
        [\A a \in Attempt : results[a] # None =>
            results'[a] = results[a] /\ attempts'[a] = attempts[a]]_vars
  BY <1>1
<1>3. QED
  BY <1>2, BookedInvariant, PTL DEF Spec, ResultsFinal
(***************************************************************************)
(* What students can rely on.  The status is read when a question is asked *)
(* to be written and not when it is, so a paper can change under attempts: *)
(* those are the exposed ones.  Of any other, whatever its student's calls *)
(* have read of the paper is still true, because a call that wrote in time *)
(* found a draft, and a draft that was never gone back to has no attempts. *)
(***************************************************************************)
Writing == {"add", "update", "delete"}

\* Questions are asked to be written of a draft, and moves of the status as they are allowed.
InTime(r) == /\ r.op \in Writing => r.found = "DRAFT"
             /\ r.op = "status" => CanMove(r.found, r.to)
AskedOfDraft == \A c \in Author : InTime(call[c])

\* No student has touched a draft, unless a late write took the event back to one.
DraftUntouched ==
    status = "DRAFT" /\ exposed # Attempt =>
        /\ \A c \in Learner : call[c] = Idle
        /\ \A a \in Attempt : attempts[a] = NoAttempt

Pointing(c) == call[c].op \in {"save", "submit"} \/ At(c, "start", "paper")
Reading(c)  == At(c, "save", "apply") \/ At(c, "submit", "answers") \/ At(c, "submit", "store")

\* An attempt that is not there yet has nothing stored, shown or read of it.
NothingOfUnused ==
    /\ \A a \in Unused : answers[a] = BlankSheet /\ shown[a] = None /\ results[a] = None
    /\ \A c \in Learner : Pointing(c) => call[c].attempt \notin Unused

\* What students' calls have read of the paper, and what was shown of it, is the paper.
PaperCurrent ==
    /\ \A c \in Learner : Reading(c) /\ call[c].attempt \notin exposed => call[c].paper = paper
    /\ \A a \in Attempt \ exposed : shown[a] # None => shown[a] = paper

\* A mark about to be stored is that of the stored answers, unless one of them came later,
\* and of some answers in any case.
MarkCurrent ==
    \A c \in Learner : At(c, "submit", "store") /\ call[c].attempt \notin exposed =>
        /\ call[c].attempt \notin overtaken => call[c].result = Evaluation(paper, answers[call[c].attempt])
        /\ \E s \in Sheet : call[c].result = Evaluation(paper, s)

ResultOfPaper ==
    \A a \in Attempt \ exposed : results[a] # None => \E s \in Sheet : results[a] = Evaluation(paper, s)

Settled ==
    /\ AskedOfDraft /\ DraftUntouched /\ NothingOfUnused /\ PaperCurrent /\ MarkCurrent /\ ResultOfPaper
    /\ AnswersFit /\ MarkedAsStored

LEMMA CallMoves ==
  ASSUME Typed, NEW c \in Caller, NEW r, Goto(c, r)
  PROVE  call'[c] = r /\ \A d \in Caller : d # c => call'[d] = call[d]
BY DEF Typed, Goto

LEMMA InitSettled == Init => Settled
<1> SUFFICES ASSUME Init PROVE Settled
  OBVIOUS
<1>1. \A c \in Caller : call[c] = Idle
  BY DEF Init
<1>2. Idle.op = None /\ Idle.stage = None /\ None \notin Op \cup Stage
  BY NoneIsNoOp DEF Idle
<1>3. /\ \A c \in Author : InTime(call[c])
      /\ \A c \in Learner : ~ Reading(c) /\ ~ Pointing(c)
  BY <1>1, <1>2 DEF InTime, Reading, Pointing, At, Writing, Op, Stage, Caller
<1>4. DraftUntouched /\ NothingOfUnused
  BY <1>1, <1>3 DEF Init, DraftUntouched, NothingOfUnused, Unused, Caller
<1>5. AskedOfDraft /\ PaperCurrent /\ MarkCurrent
  BY <1>3 DEF Init, AskedOfDraft, PaperCurrent, MarkCurrent, Reading
<1>6. ResultOfPaper /\ MarkedAsStored
  BY DEF Init, ResultOfPaper, MarkedAsStored
<1>7. AnswersFit
  BY DEF Init, AnswersFit, Inconsistent, BlankSheet, Asked
<1>8. QED
  BY <1>4, <1>5, <1>6, <1>7 DEF Settled

\* What a step of an author may do: write the paper or move the status as the call asked to,
\* exposing the attempts there are when it comes too late.
LEMMA AuthorSteps ==
  ASSUME Typed, NEW c \in Author, Authoring(c)
  PROVE  /\ UNCHANGED <<attempts, answers, results, shown, overtaken>>
         /\ \A d \in Caller : d # c => call'[d] = call[d]
         /\ exposed \subseteq exposed'
         /\ paper' # paper => /\ call[c].op \in Writing
                              /\ TooLate(c) => Attempt \ Unused \subseteq exposed'
         /\ status' # status => /\ call[c].op = "status" /\ status' = call[c].to
                                /\ TooLate(c) /\ status' = "DRAFT" => exposed' = Attempt
         /\ InTime(call[c]) => InTime(call'[c])
<1>0. c \in Caller /\ call[c] \in CallRecord
  BY CallShape DEF Caller
<1>1. InTime(Idle)
  BY NoneIsNoOp DEF Idle, InTime, Writing, Op
<1>2. CASE AddQuestion(c)
  <2>1. PICK row \in Row, stage \in {"number", "clash"} :
           Goto(c, [Idle EXCEPT !.op = "add", !.found = status, !.row = row, !.stage = stage])
    BY <1>2 DEF AddQuestion, Enter, Goto
  <2>2. call'[c] = [Idle EXCEPT !.op = "add", !.found = status, !.row = row, !.stage = stage]
    BY <1>0, <2>1, CallMoves
  <2>3. call'[c].op = "add" /\ call'[c].found = "DRAFT"
    BY <1>2, <2>2 DEF Idle, AddQuestion, Drafting
  <2>4. QED
    BY <1>0, <1>2, <2>1, <2>3, CallMoves DEF AddQuestion, event, books, InTime
<1>3. CASE Number(c)
  <2>1. PICK n \in 0..MaxSeq :
           Goto(c, [call[c] EXCEPT !.row = [call[c].row EXCEPT !.seq = n], !.stage = "clash"])
    BY <1>3 DEF Number
  <2>2. call'[c] = [call[c] EXCEPT !.row = [call[c].row EXCEPT !.seq = n], !.stage = "clash"]
    BY <1>0, <2>1, CallMoves
  <2>3. call'[c].op = call[c].op /\ call'[c].found = call[c].found /\ call'[c].to = call[c].to
    BY <1>0, <2>2 DEF CallRecord
  <2>4. QED
    BY <1>0, <1>3, <2>1, <2>3, CallMoves DEF Number, event, books, InTime
<1>4. CASE UpdateQuestion(c)
  <2>1. PICK q \in Question :
           Goto(c, [Idle EXCEPT !.op = "update", !.found = status, !.question = q, !.stage = "current"])
    BY <1>4 DEF UpdateQuestion, Enter, Goto
  <2>2. call'[c] = [Idle EXCEPT !.op = "update", !.found = status, !.question = q, !.stage = "current"]
    BY <1>0, <2>1, CallMoves
  <2>3. call'[c].op = "update" /\ call'[c].found = "DRAFT"
    BY <1>4, <2>2 DEF Idle, UpdateQuestion, Drafting
  <2>4. QED
    BY <1>0, <1>4, <2>1, <2>3, CallMoves DEF UpdateQuestion, event, books, InTime
<1>5. CASE DeleteQuestion(c)
  <2>1. PICK q \in Question :
           Goto(c, [Idle EXCEPT !.op = "delete", !.found = status, !.question = q, !.stage = "current"])
    BY <1>5 DEF DeleteQuestion, Enter, Goto
  <2>2. call'[c] = [Idle EXCEPT !.op = "delete", !.found = status, !.question = q, !.stage = "current"]
    BY <1>0, <2>1, CallMoves
  <2>3. call'[c].op = "delete" /\ call'[c].found = "DRAFT"
    BY <1>5, <2>2 DEF Idle, DeleteQuestion, Drafting
  <2>4. QED
    BY <1>0, <1>5, <2>1, <2>3, CallMoves DEF DeleteQuestion, event, books, InTime
<1>6. CASE Current(c) \/ Clash(c)
  <2>1. /\ \A d \in Caller : d # c => call'[d] = call[d]
        /\ \/ call'[c] = Idle
           \/ call'[c].op = call[c].op /\ call'[c].found = call[c].found /\ call'[c].to = call[c].to
    <3>1. CASE Return(c)
      BY <1>0, <3>1, CallMoves DEF Return
    <3>2. CASE Advance(c, "write")
      <4>1. call'[c] = [call[c] EXCEPT !.stage = "write"]
        BY <1>0, <3>2, CallMoves DEF Advance
      <4>2. QED
        BY <1>0, <3>2, <4>1, CallMoves DEF Advance, CallRecord
    <3>3. CASE \E row \in Row : Goto(c, [call[c] EXCEPT !.row = row, !.stage = "clash"])
      <4>1. PICK row \in Row : Goto(c, [call[c] EXCEPT !.row = row, !.stage = "clash"])
        BY <3>3
      <4>2. call'[c] = [call[c] EXCEPT !.row = row, !.stage = "clash"]
        BY <1>0, <4>1, CallMoves
      <4>3. QED
        BY <1>0, <4>1, <4>2, CallMoves DEF CallRecord
    <3>4. QED
      BY <1>6, <3>1, <3>2, <3>3 DEF Current, Clash
  <2>2. UNCHANGED <<status, paper, attempts, answers, results, shown, overtaken, exposed>>
    BY <1>6 DEF Current, Clash, event, books
  <2>3. InTime(call[c]) => InTime(call'[c])
    BY <1>1, <2>1 DEF InTime
  <2>4. QED
    BY <2>1, <2>2, <2>3
<1>7. CASE InsertQuestion(c) \/ RewriteQuestion(c) \/ EraseQuestion(c)
  <2>1. call[c].op \in Writing /\ Goto(c, Idle) /\ Written(c)
    BY <1>7 DEF InsertQuestion, RewriteQuestion, EraseQuestion, At, Writing, Return
  <2>2. UNCHANGED <<status, attempts, answers, results, shown, overtaken>>
    BY <1>7 DEF InsertQuestion, RewriteQuestion, EraseQuestion, event, books
  <2>3. call'[c] = Idle /\ \A d \in Caller : d # c => call'[d] = call[d]
    BY <1>0, <2>1, CallMoves
  <2>4. exposed \subseteq exposed' /\ (paper' # paper /\ TooLate(c) => Attempt \ Unused \subseteq exposed')
    BY <2>1 DEF Written
  <2>5. QED
    BY <1>1, <2>1, <2>2, <2>3, <2>4
<1>8. CASE ChangeEventStatus(c)
  <2>1. PICK to \in EventStatus :
           /\ CanMove(status, to)
           /\ Goto(c, [Idle EXCEPT !.op = "status", !.found = status, !.to = to, !.stage = "write"])
    BY <1>8 DEF ChangeEventStatus, Enter, Goto
  <2>2. call'[c] = [Idle EXCEPT !.op = "status", !.found = status, !.to = to, !.stage = "write"]
    BY <1>0, <2>1, CallMoves
  <2>3. call'[c].op = "status" /\ call'[c].found = status /\ call'[c].to = to
    BY <2>2 DEF Idle
  <2>4. InTime(call'[c])
    BY <2>1, <2>3 DEF InTime, Writing
  <2>5. QED
    BY <1>0, <1>8, <2>1, <2>4, CallMoves DEF ChangeEventStatus, event, books
<1>9. CASE SetEventStatus(c)
  <2>1. call[c].op = "status" /\ status' = call[c].to /\ Goto(c, Idle)
    BY <1>9 DEF SetEventStatus, At, Return
  <2>2. exposed \subseteq exposed' /\ (TooLate(c) /\ status' = "DRAFT" => exposed' = Attempt)
    BY <1>9, <2>1 DEF SetEventStatus, Typed
  <2>3. call'[c] = Idle /\ \A d \in Caller : d # c => call'[d] = call[d]
    BY <1>0, <2>1, CallMoves
  <2>4. QED
    BY <1>1, <1>9, <2>1, <2>2, <2>3 DEF SetEventStatus, books
<1>10. CASE UpdateEvent(c)
  <2>1. PICK to \in Schedule : Goto(c, [Idle EXCEPT !.op = "reschedule", !.to = to, !.stage = "write"])
    BY <1>10 DEF UpdateEvent, Enter, Goto
  <2>2. call'[c] = [Idle EXCEPT !.op = "reschedule", !.to = to, !.stage = "write"]
    BY <1>0, <2>1, CallMoves
  <2>3. call'[c].op = "reschedule"
    BY <2>2 DEF Idle
  <2>4. InTime(call'[c])
    BY <2>3 DEF InTime, Writing
  <2>5. QED
    BY <1>0, <1>10, <2>1, <2>4, CallMoves DEF UpdateEvent, event, books
<1>11. CASE SetSchedule(c)
  <2>1. Goto(c, Idle)
    BY <1>11 DEF SetSchedule, Return
  <2>2. QED
    BY <1>0, <1>1, <1>11, <2>1, CallMoves DEF SetSchedule, books
<1>12. QED
  BY <1>2, <1>3, <1>4, <1>5, <1>6, <1>7, <1>8, <1>9, <1>10, <1>11 DEF Authoring

\* A reading call has an attempt, and one that is there.
LEMMA ReadingIsPointing ==
  ASSUME Typed, Settled, NEW c \in Learner, Reading(c)
  PROVE  call[c].attempt \in Attempt \ Unused
<1>1. call[c].op \in {"save", "submit"} /\ c \in Caller
  BY DEF Reading, At, Caller
<1>2. QED
  BY <1>1, CallShape DEF Pointed, Settled, NothingOfUnused, Pointing

LEMMA AuthorKeepsSettled ==
  ASSUME Typed, Settled, NEW c \in Author, Authoring(c)
  PROVE  Settled'
<1>1. /\ UNCHANGED <<attempts, answers, results, shown, overtaken>>
      /\ \A d \in Learner : call'[d] = call[d]
      /\ \A d \in Author : d # c => call'[d] = call[d]
      /\ exposed \subseteq exposed' /\ exposed' \subseteq Attempt
  <2>1. Typed'
    BY AuthoringTyped
  <2>2. QED
    BY <2>1, AuthorSteps, CallersAssumption DEF Caller, Typed
<1>2. AskedOfDraft'
  BY <1>1, AuthorSteps DEF Settled, AskedOfDraft
<1>3. DraftUntouched'
  <2>1. CASE status' = status
    BY <1>1, <2>1 DEF Settled, DraftUntouched, Typed
  <2>2. CASE status' # status /\ status' = "DRAFT"
    <3>1. call[c].op = "status" /\ call[c].to = "DRAFT"
      BY <2>2, AuthorSteps
    <3>2. call[c].found = "DRAFT"
      BY <3>1 DEF Settled, AskedOfDraft, InTime, CanMove
    <3>3. exposed' = Attempt
      BY <2>2, <3>2, AuthorSteps DEF TooLate
    <3>4. QED
      BY <3>3 DEF DraftUntouched
  <2>3. QED
    BY <2>1, <2>2 DEF DraftUntouched
<1>4. NothingOfUnused'
  BY <1>1 DEF Settled, NothingOfUnused, Unused, Reading, Pointing, At
<1>5. CASE paper' = paper
  <2>1. PaperCurrent'
    BY <1>1, <1>5 DEF Settled, PaperCurrent, Reading, At
  <2>2. MarkCurrent'
    BY <1>1, <1>5 DEF Settled, MarkCurrent, At
  <2>3. ResultOfPaper' /\ AnswersFit' /\ MarkedAsStored'
    BY <1>1, <1>5 DEF Settled, ResultOfPaper, AnswersFit, MarkedAsStored
  <2>4. QED
    BY <1>2, <1>3, <1>4, <2>1, <2>2, <2>3 DEF Settled
<1>6. CASE paper' # paper
  <2>1. Attempt \ exposed' \subseteq Unused
    <3>1. call[c].op \in Writing /\ (TooLate(c) => Attempt \ Unused \subseteq exposed')
      BY <1>6, AuthorSteps
    <3>2. call[c].found = "DRAFT"
      BY <3>1 DEF Settled, AskedOfDraft, InTime
    <3>3. CASE status # "DRAFT"
      BY <3>1, <3>2, <3>3 DEF TooLate
    <3>4. CASE status = "DRAFT"
      BY <1>1, <3>4 DEF Settled, DraftUntouched, Unused
    <3>5. QED
      BY <3>3, <3>4
  <2>2. \A a \in Attempt \ exposed' : answers'[a] = BlankSheet /\ shown'[a] = None /\ results'[a] = None
    BY <1>1, <2>1 DEF Settled, NothingOfUnused
  <2>3. \A d \in Learner : Reading(d)' => call'[d].attempt \in exposed'
    <3> SUFFICES ASSUME NEW d \in Learner, Reading(d)' PROVE call'[d].attempt \in exposed'
      OBVIOUS
    <3>1. Reading(d) /\ call'[d] = call[d]
      BY <1>1 DEF Reading, At
    <3>2. QED
      BY <2>1, <3>1, ReadingIsPointing
  <2>4. PaperCurrent' /\ MarkCurrent'
    BY <2>2, <2>3 DEF PaperCurrent, MarkCurrent, Reading
  <2>5. ResultOfPaper' /\ MarkedAsStored'
    BY <2>2 DEF ResultOfPaper, MarkedAsStored
  <2>6. AnswersFit'
    BY <2>2 DEF AnswersFit, Inconsistent, BlankSheet, Asked
  <2>7. QED
    BY <1>2, <1>3, <1>4, <2>4, <2>5, <2>6 DEF Settled
<1>7. QED
  BY <1>5, <1>6

\* Students act once the draft is over, and change neither it nor what authors do.
LEMMA LearnerSteps ==
  ASSUME Typed, Settled, NEW c \in Learner, Attempting(c)
  PROVE  /\ status = "DRAFT" => exposed = Attempt
         /\ UNCHANGED <<status, paper, exposed>>
         /\ \A d \in Caller : d # c => call'[d] = call[d]
<1>0. c \in Caller
  BY DEF Caller
<1>1. UNCHANGED <<status, paper, exposed>> /\ \E r : Goto(c, r)
  BY DEF Attempting, StartAttempt, CheckEnrolment, FindOpenAttempt, CreateAttempt, ShowPaper, SaveAnswers,
         ReadPaper, ApplyAnswer, SubmitAttempt, CheckEvent, LoadPaper, Evaluate, SubmitAttemptWithResult,
         Enter, Goto, Return, Advance, event
<1>2. \A d \in Caller : d # c => call'[d] = call[d]
  BY <1>0, <1>1, CallMoves
<1>3. ASSUME status = "DRAFT", exposed # Attempt PROVE FALSE
  <2>1. call[c].op = None /\ call[c].stage = None /\ \A a \in Attempt : attempts[a].status = None
    BY <1>3 DEF Settled, DraftUntouched, Idle, NoAttempt
  <2>2. None \notin Op \cup Stage \cup {"IN_PROGRESS", "SUBMITTED"}
    BY NoneIsNoOp
  <2>3. ~ StartAttempt(c)
    BY <1>3 DEF StartAttempt, Available
  <2>4. ~ SaveAnswers(c) /\ ~ SubmitAttempt(c)
    BY <2>1, <2>2 DEF SaveAnswers, SubmitAttempt
  <2>5. QED
    BY <2>1, <2>2, <2>3, <2>4 DEF Attempting, CheckEnrolment, FindOpenAttempt, CreateAttempt, ShowPaper,
         ReadPaper, ApplyAnswer, CheckEvent, LoadPaper, Evaluate, SubmitAttemptWithResult, At, Op, Stage
<1>4. QED
  BY <1>1, <1>2, <1>3

\* Attempts are never taken away, and a student's call goes on with one that is there.
LEMMA PointingKept ==
  ASSUME Booked, Settled, NEW c \in Learner, Attempting(c)
  PROVE  Unused' \subseteq Unused /\ (Pointing(c)' => call'[c].attempt \notin Unused')
<1>0. /\ Typed /\ c \in Caller /\ call[c] \in CallRecord /\ Pointed(call[c])
      /\ Idle.op = None /\ None \notin Op \cup {"IN_PROGRESS", "SUBMITTED"} /\ NoAttempt.status = None
  BY CallShape, NoneIsNoOp DEF Booked, Caller, Idle, NoAttempt
<1>1. Pointing(c) => call[c].attempt \notin Unused
  BY DEF Settled, NothingOfUnused
<1>2. \A a \in Attempt : attempts[a].status = "IN_PROGRESS" => a \notin Unused
  BY <1>0 DEF Unused
<1>3. CASE CreateAttempt(c)
  <2>1. CASE Advance(c, "retry") /\ UNCHANGED attempts
    <3>1. call'[c] = [call[c] EXCEPT !.stage = "retry"]
      BY <1>0, <2>1, CallMoves DEF Advance
    <3>2. call'[c].op = "start" /\ call'[c].stage = "retry"
      BY <1>0, <1>3, <3>1 DEF CreateAttempt, At, CallRecord
    <3>3. QED
      BY <2>1, <3>2 DEF Unused, Pointing, At
  <2>2. ASSUME NEW a \in Unused,
               attempts' = [attempts EXCEPT ![a] = [student |-> call[c].student, status |-> "IN_PROGRESS"]],
               Goto(c, [call[c] EXCEPT !.attempt = a, !.stage = "paper"])
        PROVE  Unused' \subseteq Unused /\ call'[c].attempt \notin Unused'
    <3>1. call'[c] = [call[c] EXCEPT !.attempt = a, !.stage = "paper"]
      BY <1>0, <2>2, CallMoves
    <3>2. call'[c].attempt = a
      BY <1>0, <3>1 DEF CallRecord
    <3>3. /\ a \in Attempt /\ attempts'[a].status = "IN_PROGRESS"
          /\ \A b \in Attempt \ {a} : attempts'[b] = attempts[b]
      BY <1>0, <2>2 DEF Typed, Unused
    <3>4. QED
      BY <1>0, <3>2, <3>3 DEF Unused
  <2>3. QED
    BY <1>3, <2>1, <2>2 DEF CreateAttempt
<1>4. CASE SubmitAttemptWithResult(c)
  <2>1. call'[c] = Idle /\ call[c].attempt \in Attempt
    BY <1>0, <1>4, CallMoves DEF SubmitAttemptWithResult, Return, At, Pointed
  <2>2. ~ Pointing(c)'
    BY <1>0, <2>1 DEF Pointing, At, Op
  <2>3. CASE UNCHANGED attempts
    BY <2>2, <2>3 DEF Unused
  <2>4. CASE attempts[call[c].attempt].status = "IN_PROGRESS"
    <3>1. /\ call[c].attempt \notin Unused
          /\ attempts' = [attempts EXCEPT ![call[c].attempt].status = "SUBMITTED"]
      BY <1>2, <1>4, <2>1, <2>4 DEF SubmitAttemptWithResult
    <3>2. attempts[call[c].attempt] \in AttemptRow
      BY <1>0, <2>1, <2>4, OpenHasStudent
    <3>3. /\ attempts'[call[c].attempt].status = "SUBMITTED"
          /\ \A b \in Attempt \ {call[c].attempt} : attempts'[b] = attempts[b]
      BY <1>0, <2>1, <3>1, <3>2 DEF Typed, AttemptRow
    <3>4. QED
      BY <1>0, <2>1, <2>2, <3>1, <3>3 DEF Unused
  <2>5. QED
    BY <1>4, <2>3, <2>4 DEF SubmitAttemptWithResult
<1>5. CASE attempts' = attempts
  <2>0. Unused' = Unused
    BY <1>5 DEF Unused
  <2>1. CASE StartAttempt(c)
    <3>1. PICK s \in Student : Goto(c, [Idle EXCEPT !.op = "start", !.student = s, !.stage = "enrolment"])
      BY <2>1 DEF StartAttempt, Enter, Goto
    <3>2. call'[c] = [Idle EXCEPT !.op = "start", !.student = s, !.stage = "enrolment"]
      BY <1>0, <3>1, CallMoves
    <3>3. call'[c].op = "start" /\ call'[c].stage = "enrolment"
      BY <3>2 DEF Idle
    <3>4. QED
      BY <2>0, <3>3 DEF Pointing, At
  <2>2. CASE SubmitAttempt(c)
    <3>1. PICK a \in Attempt : /\ attempts[a].status = "IN_PROGRESS"
                              /\ Goto(c, [Idle EXCEPT !.op = "submit", !.student = attempts[a].student,
                                                      !.attempt = a, !.stage = "event"])
      BY <2>2 DEF SubmitAttempt, Enter, Goto
    <3>2. call'[c] = [Idle EXCEPT !.op = "submit", !.student = attempts[a].student,
                                  !.attempt = a, !.stage = "event"]
      BY <1>0, <3>1, CallMoves
    <3>3. call'[c].attempt = a
      BY <3>2 DEF Idle
    <3>4. QED
      BY <1>2, <2>0, <3>1, <3>3
  <2>3. CASE SaveAnswers(c)
    <3>1. PICK a \in Attempt, items \in Batch :
             /\ attempts[a].status = "IN_PROGRESS"
             /\ Goto(c, [Idle EXCEPT !.op = "save", !.student = attempts[a].student, !.attempt = a,
                                     !.items = items, !.stage = "paper"])
      BY <2>3 DEF SaveAnswers, Enter, Goto
    <3>2. call'[c] = [Idle EXCEPT !.op = "save", !.student = attempts[a].student, !.attempt = a,
                                  !.items = items, !.stage = "paper"]
      BY <1>0, <3>1, CallMoves
    <3>3. call'[c].attempt = a
      BY <3>2 DEF Idle
    <3>4. QED
      BY <1>2, <2>0, <3>1, <3>3
  <2>4. CASE Return(c)
    <3>1. call'[c] = Idle
      BY <1>0, <2>4, CallMoves DEF Return
    <3>2. QED
      BY <1>0, <2>0, <3>1 DEF Pointing, At, Op
  <2>5. CASE \E a \in Open(call[c].student) : Goto(c, [call[c] EXCEPT !.attempt = a, !.stage = "paper"])
    <3>1. PICK a \in Open(call[c].student) : Goto(c, [call[c] EXCEPT !.attempt = a, !.stage = "paper"])
      BY <2>5
    <3>2. call'[c] = [call[c] EXCEPT !.attempt = a, !.stage = "paper"]
      BY <1>0, <3>1, CallMoves
    <3>3. call'[c].attempt = a
      BY <1>0, <3>2 DEF CallRecord
    <3>4. a \in Attempt /\ attempts[a].status = "IN_PROGRESS"
      BY DEF Open
    <3>5. QED
      BY <1>2, <2>0, <3>3, <3>4
  <2>6. ASSUME call'[c].op = call[c].op, call'[c].attempt = call[c].attempt, ~ At(c, "start", "paper")'
        PROVE  Unused' \subseteq Unused /\ (Pointing(c)' => call'[c].attempt \notin Unused')
    BY <1>1, <2>0, <2>6 DEF Pointing, At
  <2>7. ASSUME NEW stage, Advance(c, stage)
        PROVE  call'[c].op = call[c].op /\ call'[c].attempt = call[c].attempt /\ call'[c].stage = stage
    <3>1. call'[c] = [call[c] EXCEPT !.stage = stage]
      BY <1>0, <2>7, CallMoves DEF Advance
    <3>2. QED
      BY <1>0, <3>1 DEF CallRecord
  <2>8. CASE CheckEnrolment(c) \/ CheckEvent(c)
    <3>1. \/ Return(c)
          \/ \E stage \in {"lookup", "enrolment", "paper"} :
                Advance(c, stage) /\ (call[c].op = "start" => stage # "paper")
      <4>1. CASE CheckEnrolment(c) /\ call[c].op = "start"
        BY <4>1 DEF CheckEnrolment
      <4>2. CASE CheckEnrolment(c) /\ call[c].op # "start"
        BY <4>2 DEF CheckEnrolment
      <4>3. CASE CheckEvent(c)
        BY <4>3 DEF CheckEvent, At
      <4>4. QED
        BY <2>8, <4>1, <4>2, <4>3
    <3>2. CASE Return(c)
      BY <2>4, <3>2
    <3>3. ASSUME NEW stage \in {"lookup", "enrolment", "paper"}, Advance(c, stage),
                 call[c].op = "start" => stage # "paper"
          PROVE  Unused' \subseteq Unused /\ (Pointing(c)' => call'[c].attempt \notin Unused')
      <4>1. call'[c].op = call[c].op /\ call'[c].attempt = call[c].attempt /\ call'[c].stage = stage
        BY <2>7, <3>3
      <4>2. QED
        BY <2>6, <3>3, <4>1 DEF At
    <3>4. QED
      BY <3>1, <3>2, <3>3
  <2>9. CASE FindOpenAttempt(c)
    <3>1. \/ \E a \in Open(call[c].student) : Goto(c, [call[c] EXCEPT !.attempt = a, !.stage = "paper"])
          \/ Advance(c, "insert")
          \/ Return(c)
      <4>1. CASE call[c].stage = "lookup"
        BY <2>9, <4>1 DEF FindOpenAttempt
      <4>2. CASE call[c].stage # "lookup"
        BY <2>9, <4>2 DEF FindOpenAttempt
      <4>3. QED
        BY <4>1, <4>2
    <3>2. CASE Advance(c, "insert")
      BY <2>6, <2>7, <3>2 DEF At
    <3>3. QED
      BY <2>4, <2>5, <3>1, <3>2
  <2>10. CASE ReadPaper(c)
    <3>1. call'[c] = [call[c] EXCEPT !.paper = paper, !.stage = "apply"]
      BY <1>0, <2>10, CallMoves DEF ReadPaper
    <3>2. call'[c].op = call[c].op /\ call'[c].attempt = call[c].attempt /\ call'[c].stage = "apply"
      BY <1>0, <3>1 DEF CallRecord
    <3>3. QED
      BY <2>6, <3>2 DEF At
  <2>11. CASE LoadPaper(c)
    <3>1. CASE Goto(c, [call[c] EXCEPT !.paper = paper, !.stage = "answers"])
      <4>1. call'[c] = [call[c] EXCEPT !.paper = paper, !.stage = "answers"]
        BY <1>0, <3>1, CallMoves
      <4>2. call'[c].op = call[c].op /\ call'[c].attempt = call[c].attempt /\ call'[c].stage = "answers"
        BY <1>0, <4>1 DEF CallRecord
      <4>3. QED
        BY <2>6, <4>2 DEF At
    <3>2. QED
      BY <2>4, <2>11, <3>1 DEF LoadPaper
  <2>12. CASE Evaluate(c)
    <3> DEFINE m == Evaluation(call[c].paper, answers[call[c].attempt])
    <3>1. CASE Goto(c, [call[c] EXCEPT !.result = m, !.stage = "store"])
      <4>1. call'[c] = [call[c] EXCEPT !.result = m, !.stage = "store"]
        BY <1>0, <3>1, CallMoves
      <4>2. call'[c].op = call[c].op /\ call'[c].attempt = call[c].attempt /\ call'[c].stage = "store"
        BY <1>0, <4>1 DEF CallRecord
      <4>3. QED
        BY <2>6, <4>2 DEF At
    <3>2. QED
      BY <2>4, <2>12, <3>1 DEF Evaluate
  <2>13. CASE ApplyAnswer(c)
    <3>1. CASE Goto(c, [call[c] EXCEPT !.items = Tail(call[c].items)])
      <4>1. call'[c] = [call[c] EXCEPT !.items = Tail(call[c].items)]
        BY <1>0, <3>1, CallMoves
      <4>2. call'[c].op = "save" /\ call[c].op = "save" /\ call'[c].attempt = call[c].attempt
        BY <1>0, <2>13, <4>1 DEF CallRecord, ApplyAnswer, At
      <4>3. QED
        BY <2>6, <4>2 DEF At
    <3>2. QED
      BY <2>4, <2>13, <3>1 DEF ApplyAnswer
  <2>14. CASE ShowPaper(c)
    BY <2>4, <2>14 DEF ShowPaper
  <2>15. QED
    BY <1>3, <1>4, <2>1, <2>2, <2>3, <2>8, <2>9, <2>10, <2>11, <2>12, <2>13, <2>14 DEF Attempting
<1>6. CASE attempts' # attempts
  BY <1>3, <1>4, <1>6 DEF Attempting, StartAttempt, CheckEnrolment, FindOpenAttempt, ShowPaper, SaveAnswers,
         ReadPaper, ApplyAnswer, SubmitAttempt, CheckEvent, LoadPaper, Evaluate, books
<1>7. QED
  BY <1>5, <1>6

\* A student's step that stores nothing keeps all of it if what it carries on with is true.
LEMMA CarryingKeepsSettled ==
  ASSUME Booked, Settled, NEW c \in Learner, Attempting(c),
         UNCHANGED <<answers, results, shown, overtaken>>,
         Reading(c)' /\ call'[c].attempt \notin exposed => call'[c].paper = paper,
         At(c, "submit", "store")' /\ call'[c].attempt \notin exposed =>
            /\ call'[c].attempt \notin overtaken =>
                  call'[c].result = Evaluation(paper, answers[call'[c].attempt])
            /\ \E s \in Sheet : call'[c].result = Evaluation(paper, s)
  PROVE  Settled'
<1>1. /\ status = "DRAFT" => exposed = Attempt
      /\ UNCHANGED <<status, paper, exposed>>
      /\ \A d \in Caller : d # c => call'[d] = call[d]
  BY LearnerSteps DEF Booked
<1>2. \A d \in Author : call'[d] = call[d]
  BY <1>1, CallersAssumption DEF Caller
<1>4. \A d \in Learner : d # c => call'[d] = call[d]
  BY <1>1 DEF Caller
<1>3. AskedOfDraft' /\ DraftUntouched' /\ NothingOfUnused'
  <2>1. AskedOfDraft' /\ DraftUntouched'
    BY <1>1, <1>2 DEF Settled, AskedOfDraft, DraftUntouched
  <2>2. NothingOfUnused'
    BY <1>4, PointingKept DEF Settled, NothingOfUnused, Pointing, At
  <2>3. QED
    BY <2>1, <2>2
<1>5. PaperCurrent'
  BY <1>1, <1>4 DEF Settled, PaperCurrent, Reading, At
<1>6. MarkCurrent'
  BY <1>1, <1>4 DEF Settled, MarkCurrent, At
<1>7. ResultOfPaper' /\ AnswersFit' /\ MarkedAsStored'
  BY <1>1 DEF Settled, ResultOfPaper, AnswersFit, MarkedAsStored
<1>8. QED
  BY <1>3, <1>5, <1>6, <1>7 DEF Settled

\* What a student's call carries from step to step.
LEMMA LearnerKeepsSettled ==
  ASSUME Booked, Settled, NEW c \in Learner, Attempting(c)
  PROVE  Settled'
<1>0. /\ Typed /\ c \in Caller /\ call[c] \in CallRecord /\ Pointed(call[c])
      /\ Idle.op = None /\ None \notin Op
  BY CallShape, NoneIsNoOp DEF Booked, Caller, Idle
<1>1. /\ status = "DRAFT" => exposed = Attempt
      /\ UNCHANGED <<status, paper, exposed>>
      /\ \A d \in Caller : d # c => call'[d] = call[d]
  BY <1>0, LearnerSteps
<1>2. /\ \A d \in Author : call'[d] = call[d]
      /\ \A d \in Learner : d # c => call'[d] = call[d]
  BY <1>1, CallersAssumption DEF Caller
<1>3. AskedOfDraft' /\ DraftUntouched'
  BY <1>1, <1>2 DEF Settled, AskedOfDraft, DraftUntouched
<1>4. CASE UNCHANGED <<answers, results, shown, overtaken>> /\ ~ Reading(c)'
  BY <1>0, <1>4, CarryingKeepsSettled DEF Reading, At
<1>5. CASE StartAttempt(c) \/ SubmitAttempt(c) \/ SaveAnswers(c)
  <2>1. CASE StartAttempt(c)
    <3>1. PICK s \in Student : Goto(c, [Idle EXCEPT !.op = "start", !.student = s, !.stage = "enrolment"])
      BY <2>1 DEF StartAttempt, Enter, Goto
    <3>2. call'[c] = [Idle EXCEPT !.op = "start", !.student = s, !.stage = "enrolment"]
      BY <1>0, <3>1, CallMoves
    <3>3. call'[c].stage = "enrolment"
      BY <3>2 DEF Idle
    <3>4. QED
      BY <1>4, <2>1, <3>3 DEF StartAttempt, books, Reading, At
  <2>2. CASE SubmitAttempt(c)
    <3>1. PICK a \in Attempt : Goto(c, [Idle EXCEPT !.op = "submit", !.student = attempts[a].student,
                                                     !.attempt = a, !.stage = "event"])
      BY <2>2 DEF SubmitAttempt, Enter, Goto
    <3>2. call'[c] = [Idle EXCEPT !.op = "submit", !.student = attempts[a].student,
                                  !.attempt = a, !.stage = "event"]
      BY <1>0, <3>1, CallMoves
    <3>3. call'[c].stage = "event"
      BY <3>2 DEF Idle
    <3>4. QED
      BY <1>4, <2>2, <3>3 DEF SubmitAttempt, books, Reading, At
  <2>3. CASE SaveAnswers(c)
    <3>1. PICK a \in Attempt, items \in Batch :
             Goto(c, [Idle EXCEPT !.op = "save", !.student = attempts[a].student, !.attempt = a,
                                  !.items = items, !.stage = "paper"])
      BY <2>3 DEF SaveAnswers, Enter, Goto
    <3>2. call'[c] = [Idle EXCEPT !.op = "save", !.student = attempts[a].student, !.attempt = a,
                                  !.items = items, !.stage = "paper"]
      BY <1>0, <3>1, CallMoves
    <3>3. call'[c].stage = "paper"
      BY <3>2 DEF Idle
    <3>4. QED
      BY <1>4, <2>3, <3>3 DEF SaveAnswers, books, Reading, At
  <2>4. QED
    BY <1>5, <2>1, <2>2, <2>3
<1>6. CASE Return(c) /\ UNCHANGED <<answers, results, shown, overtaken>>
  <2>1. call'[c] = Idle
    BY <1>0, <1>6, CallMoves DEF Return
  <2>2. QED
    BY <1>0, <1>4, <1>6, <2>1 DEF Reading, At, Op
<1>7. CASE /\ UNCHANGED <<answers, results, shown, overtaken>>
           /\ \E stage \in {"lookup", "insert", "retry", "enrolment", "paper"} : Advance(c, stage)
  <2>1. PICK stage \in {"lookup", "insert", "retry", "enrolment", "paper"} :
           Goto(c, [call[c] EXCEPT !.stage = stage])
    BY <1>7 DEF Advance
  <2>2. call'[c] = [call[c] EXCEPT !.stage = stage]
    BY <1>0, <2>1, CallMoves
  <2>3. call'[c].stage = stage
    BY <1>0, <2>2 DEF CallRecord
  <2>4. QED
    BY <1>4, <1>7, <2>3 DEF Reading, At
<1>8. CASE /\ UNCHANGED <<answers, results, shown, overtaken>>
           /\ \E a \in Attempt : Goto(c, [call[c] EXCEPT !.attempt = a, !.stage = "paper"])
  <2>1. PICK a \in Attempt : Goto(c, [call[c] EXCEPT !.attempt = a, !.stage = "paper"])
    BY <1>8
  <2>2. call'[c] = [call[c] EXCEPT !.attempt = a, !.stage = "paper"]
    BY <1>0, <2>1, CallMoves
  <2>3. call'[c].stage = "paper"
    BY <1>0, <2>2 DEF CallRecord
  <2>4. QED
    BY <1>4, <1>8, <2>3 DEF Reading, At
<1>9. CASE CheckEnrolment(c) \/ CheckEvent(c)
  BY <1>6, <1>7, <1>9 DEF CheckEnrolment, CheckEvent, books
<1>10. CASE FindOpenAttempt(c)
  BY <1>6, <1>7, <1>8, <1>10 DEF FindOpenAttempt, books, Open
<1>11. CASE CreateAttempt(c)
  BY <1>7, <1>8, <1>11 DEF CreateAttempt, Unused
<1>12. CASE ReadPaper(c)
  <2>1. call'[c] = [call[c] EXCEPT !.paper = paper, !.stage = "apply"] /\ call[c].op = "save"
    BY <1>0, <1>12, CallMoves DEF ReadPaper, At
  <2>2. call'[c].paper = paper /\ call'[c].op = "save"
    BY <1>0, <2>1 DEF CallRecord
  <2>3. UNCHANGED <<answers, results, shown, overtaken>>
    BY <1>12 DEF ReadPaper, books
  <2>4. QED
    BY <1>0, <2>2, <2>3, CarryingKeepsSettled DEF At
<1>13. CASE LoadPaper(c)
  <2>1. CASE Return(c)
    BY <1>6, <1>13, <2>1 DEF LoadPaper, books
  <2>2. CASE Goto(c, [call[c] EXCEPT !.paper = paper, !.stage = "answers"])
    <3>1. call'[c] = [call[c] EXCEPT !.paper = paper, !.stage = "answers"]
      BY <1>0, <2>2, CallMoves
    <3>2. call'[c].paper = paper /\ call'[c].stage = "answers"
      BY <1>0, <3>1 DEF CallRecord
    <3>3. UNCHANGED <<answers, results, shown, overtaken>>
      BY <1>13 DEF LoadPaper, books
    <3>4. QED
      BY <1>0, <3>2, <3>3, CarryingKeepsSettled DEF At
  <2>3. QED
    BY <1>13, <2>1, <2>2 DEF LoadPaper
<1>14. CASE Evaluate(c)
  <2> DEFINE sheet == answers[call[c].attempt]
  <2>1. /\ call[c].op = "submit" /\ call[c].stage = "answers" /\ call[c].attempt \in Attempt
        /\ (call[c].attempt \notin exposed => call[c].paper = paper) /\ sheet \in Sheet
    BY <1>0, <1>14 DEF Evaluate, At, Pointed, Settled, PaperCurrent, Reading, Typed
  <2>2. CASE Return(c)
    BY <1>6, <1>14, <2>2 DEF Evaluate, books
  <2>3. CASE Goto(c, [call[c] EXCEPT !.result = Evaluation(call[c].paper, sheet), !.stage = "store"])
    <3>1. call'[c] = [call[c] EXCEPT !.result = Evaluation(call[c].paper, sheet), !.stage = "store"]
      BY <1>0, <2>3, CallMoves
    <3>2. /\ call'[c].attempt = call[c].attempt
          /\ call[c].attempt \notin exposed => /\ call'[c].paper = paper
                                               /\ call'[c].result = Evaluation(paper, answers[call[c].attempt])
      BY <1>0, <2>1, <3>1 DEF CallRecord
    <3>3. UNCHANGED <<answers, results, shown, overtaken>>
      BY <1>14 DEF Evaluate, books
    <3>4. call[c].attempt \notin exposed => \E s \in Sheet : call'[c].result = Evaluation(paper, s)
      BY <2>1, <3>2
    <3>5. QED
      BY <1>0, <3>2, <3>3, <3>4, CarryingKeepsSettled
  <2>4. QED
    BY <1>14, <2>2, <2>3 DEF Evaluate
<1>15. CASE ShowPaper(c)
  <2>1. /\ call[c].attempt \in Attempt /\ call'[c] = Idle
        /\ shown' = [shown EXCEPT ![call[c].attempt] = paper]
        /\ UNCHANGED <<answers, results, overtaken>>
    BY <1>0, <1>15, CallMoves DEF ShowPaper, At, Pointed, Return, books
  <2>2. ~ Reading(c)'
    BY <1>0, <2>1 DEF Reading, At, Op
  <2>3. PaperCurrent'
    <3>1. \A a \in Attempt \ exposed : shown'[a] # None => shown'[a] = paper
      BY <1>0, <2>1 DEF Settled, PaperCurrent, Typed
    <3>2. \A d \in Learner : Reading(d)' /\ call'[d].attempt \notin exposed => call'[d].paper = paper
      BY <1>2, <2>2 DEF Settled, PaperCurrent, Reading, At
    <3>3. QED
      BY <1>1, <3>1, <3>2 DEF PaperCurrent
  <2>4. MarkCurrent'
    BY <1>1, <1>2, <2>1, <2>2 DEF Settled, MarkCurrent, Reading, At
  <2>5. ResultOfPaper' /\ AnswersFit' /\ MarkedAsStored'
    BY <1>1, <2>1 DEF Settled, ResultOfPaper, AnswersFit, MarkedAsStored
  <2>6. NothingOfUnused'
    <3>1. call[c].attempt \notin Unused
      BY <1>15 DEF Settled, NothingOfUnused, Pointing, ShowPaper
    <3>2. QED
      BY <1>0, <1>2, <2>1, <3>1, PointingKept DEF Settled, NothingOfUnused, Pointing, At, Typed
  <2>7. QED
    BY <1>3, <2>3, <2>4, <2>5, <2>6 DEF Settled
<1>16. CASE ApplyAnswer(c)
  <2> DEFINE a == call[c].attempt
             q == Head(call[c].items)[1]
             o == Head(call[c].items)[2]
             fits == q \in Asked(call[c].paper) /\ o \in call[c].paper[q].options
  <2>0. /\ call[c].op = "save" /\ call[c].stage = "apply" /\ a \in Attempt
        /\ a \notin exposed => call[c].paper = paper
        /\ UNCHANGED <<results, shown, attempts>>
    BY <1>0, <1>16 DEF ApplyAnswer, At, Pointed, Settled, PaperCurrent, Reading
  <2>1. CASE ~ fits \/ q \notin Asked(paper)
    BY <1>6, <1>16, <2>0, <2>1 DEF ApplyAnswer
  <2>2. CASE ~ (~ fits \/ q \notin Asked(paper))
    <3>1. /\ answers' = [answers EXCEPT ![a][q] = o]
          /\ overtaken \subseteq overtaken'
          /\ Marking(a) \/ attempts[a].status = "SUBMITTED" => a \in overtaken'
      BY <1>16, <2>2 DEF ApplyAnswer
    <3>2. answers[a] \in Sheet /\ q \in Question
      BY <1>0, <2>0, <2>2 DEF Typed, Asked
    <3>3. /\ answers'[a] = [answers[a] EXCEPT ![q] = o]
          /\ \A b \in Attempt : b # a => answers'[b] = answers[b]
      BY <1>0, <2>0, <3>1 DEF Typed
    <3>4. /\ ~ At(c, "submit", "store")'
          /\ Reading(c)' /\ call'[c].attempt \notin exposed => call'[c].paper = paper
      <4>1. CASE Return(c)
        <5>1. call'[c] = Idle
          BY <1>0, <4>1, CallMoves DEF Return
        <5>2. QED
          BY <1>0, <5>1 DEF Reading, At, Op
      <4>2. CASE Goto(c, [call[c] EXCEPT !.items = Tail(call[c].items)])
        <5>1. call'[c] = [call[c] EXCEPT !.items = Tail(call[c].items)]
          BY <1>0, <4>2, CallMoves
        <5>2. call'[c].op = "save" /\ call'[c].attempt = a /\ call'[c].paper = call[c].paper
          BY <1>0, <2>0, <5>1 DEF CallRecord
        <5>3. QED
          BY <2>0, <5>2 DEF At
      <4>3. QED
        BY <1>16, <2>2, <4>1, <4>2 DEF ApplyAnswer
    <3>5. PaperCurrent'
      BY <1>1, <1>2, <2>0, <3>4 DEF Settled, PaperCurrent, Reading, At
    <3>6. MarkCurrent'
      <4> SUFFICES ASSUME NEW d \in Learner, At(d, "submit", "store")', call'[d].attempt \notin exposed'
                   PROVE  /\ call'[d].attempt \notin overtaken' =>
                                call'[d].result = Evaluation(paper', answers'[call'[d].attempt])
                          /\ \E s \in Sheet : call'[d].result = Evaluation(paper', s)
        BY DEF MarkCurrent
      <4>1. d # c /\ call'[d] = call[d] /\ At(d, "submit", "store")
        BY <1>2, <3>4 DEF At
      <4>2. call[d].attempt \in Attempt
        BY <1>0, <4>1, CallShape DEF At, Pointed, Caller
      <4>3. call[d].attempt = a => a \in overtaken'
        BY <3>1, <4>1 DEF Marking
      <4>4. QED
        BY <1>1, <3>1, <3>3, <4>1, <4>2, <4>3 DEF Settled, MarkCurrent
    <3>7. ResultOfPaper'
      BY <1>1, <2>0 DEF Settled, ResultOfPaper
    <3>8. AnswersFit'
      <4> SUFFICES ASSUME NEW b \in Attempt \ exposed PROVE ~ Inconsistent(paper, answers'[b])
        BY <1>1 DEF AnswersFit
      <4>1. CASE b # a
        BY <3>3, <4>1 DEF Settled, AnswersFit
      <4>2. CASE b = a
        <5>1. ~ Inconsistent(paper, answers[a])
          BY <4>2 DEF Settled, AnswersFit
        <5>2. o \in paper[q].options
          BY <2>0, <2>2, <4>2
        <5>3. \A p \in Asked(paper) : answers'[a][p] = IF p = q THEN o ELSE answers[a][p]
          BY <3>2, <3>3 DEF Sheet, Asked
        <5>4. QED
          BY <4>2, <5>1, <5>2, <5>3 DEF Inconsistent
      <4>3. QED
        BY <4>1, <4>2
    <3>9. MarkedAsStored'
      <4> SUFFICES ASSUME NEW b \in Attempt \ (overtaken \cup exposed)', results'[b] # None
                   PROVE  results'[b] = Evaluation(paper', answers'[b])
        BY DEF MarkedAsStored
      <4>1. attempts[b].status = "SUBMITTED"
        BY <2>0 DEF Booked, ResultPerSubmission
      <4>2. b # a
        BY <3>1, <4>1
      <4>3. QED
        BY <1>1, <2>0, <3>1, <3>3, <4>2 DEF Settled, MarkedAsStored
    <3>10. NothingOfUnused'
      <4>1. a \notin Unused
        BY <2>0 DEF Settled, NothingOfUnused, Pointing
      <4>2. QED
        BY <1>2, <2>0, <3>3, <4>1, PointingKept DEF Settled, NothingOfUnused, Pointing, At, Unused
    <3>11. QED
      BY <1>3, <3>5, <3>6, <3>7, <3>8, <3>9, <3>10 DEF Settled
  <2>3. QED
    BY <2>1, <2>2
<1>17. CASE SubmitAttemptWithResult(c)
  <2> DEFINE a == call[c].attempt
  <2>0. /\ At(c, "submit", "store") /\ a \in Attempt /\ call'[c] = Idle
        /\ UNCHANGED <<answers, shown, overtaken>>
    BY <1>0, <1>17, CallMoves DEF SubmitAttemptWithResult, At, Pointed, Return
  <2>1. \A b \in Attempt : results'[b] = results[b] \/ (b = a /\ results'[b] = call[c].result)
    BY <1>0, <1>17, <2>0 DEF SubmitAttemptWithResult, Typed
  <2>2. ~ Reading(c)'
    BY <1>0, <2>0 DEF Reading, At, Op
  <2>3. PaperCurrent' /\ MarkCurrent'
    BY <1>1, <1>2, <2>0, <2>2 DEF Settled, PaperCurrent, MarkCurrent, Reading, At
  <2>4. ResultOfPaper' /\ MarkedAsStored'
    BY <1>1, <2>0, <2>1 DEF Settled, MarkCurrent, ResultOfPaper, MarkedAsStored
  <2>5. AnswersFit'
    BY <1>1, <2>0 DEF Settled, AnswersFit
  <2>6. NothingOfUnused'
    <3>1. a \notin Unused
      BY <2>0 DEF Settled, NothingOfUnused, Pointing, At
    <3>2. QED
      BY <1>2, <2>0, <2>1, <3>1, PointingKept DEF Settled, NothingOfUnused, Pointing, At, Unused
  <2>7. QED
    BY <1>3, <2>3, <2>4, <2>5, <2>6 DEF Settled
<1>18. QED
  BY <1>5, <1>9, <1>10, <1>11, <1>12, <1>13, <1>14, <1>15, <1>16, <1>17 DEF Attempting

LEMMA SettledInductive ==
  ASSUME Booked, Settled, [Next]_vars
  PROVE  Settled'
<1>1. CASE \E c \in Author : Authoring(c)
  BY <1>1, AuthorKeepsSettled DEF Booked
<1>2. CASE \E c \in Learner : Attempting(c)
  BY <1>2, LearnerKeepsSettled
<1>3. CASE TimePasses \/ EnrolmentChanges \/ UNCHANGED vars
  <2>1. UNCHANGED <<status, paper, attempts, answers, results, call, shown, overtaken, exposed>>
    BY <1>3 DEF TimePasses, EnrolmentChanges, vars, books
  <2>2. QED
    BY <2>1 DEF Settled, AskedOfDraft, DraftUntouched, NothingOfUnused, PaperCurrent, MarkCurrent,
                ResultOfPaper, AnswersFit, MarkedAsStored, Reading, Pointing, At, Unused
<1>4. QED
  BY <1>1, <1>2, <1>3 DEF Next

\* Every question of a paper is answered right, wrong or not at all.
LEMMA Counted ==
  ASSUME IsFiniteSet(Question), NEW p \in Paper, NEW s \in Sheet
  PROVE  LET r == Evaluation(p, s)
         IN  r.correct + r.incorrect + r.unanswered = Cardinality(Asked(p))
<1> DEFINE A == Asked(p)
           R == Right(p, s)
           B == Blank(p, s)
<1>1. R \subseteq A /\ B \subseteq A
  BY DEF Right, Blank
<1>2. R \cap B = {}
  BY PaperAssumption DEF Right, Blank, Asked, Row
<1>3. IsFiniteSet(A) /\ IsFiniteSet(R) /\ IsFiniteSet(B) /\ IsFiniteSet(R \cup B)
  <2>1. IsFiniteSet(A)
    BY FS_Subset DEF Asked
  <2>2. QED
    BY <1>1, <2>1, FS_Subset, FS_Union
<1>4. Cardinality(R \cup B) = Cardinality(R) + Cardinality(B) - Cardinality({})
  BY <1>2, <1>3, FS_Union
<1>5. Cardinality(A \ (R \cup B)) = Cardinality(A) - Cardinality(R \cup B)
  <2>1. A \cap (R \cup B) = R \cup B
    BY <1>1
  <2>2. QED
    BY <1>3, <2>1, FS_Difference
<1>6. /\ Cardinality({}) = 0 /\ Cardinality(A) \in Nat /\ Cardinality(R) \in Nat /\ Cardinality(B) \in Nat
  BY <1>3, FS_EmptySet, FS_CardinalityType
<1>7. Cardinality(R) + Cardinality(A \ (R \cup B)) + Cardinality(B) = Cardinality(A)
  BY <1>4, <1>5, <1>6
<1>8. QED
  BY <1>7 DEF Evaluation

\* Whatever calls of authors and students overlap, the paper students read is the paper they
\* are marked by, but for the attempts under which a question, or a status that opens the
\* questions again, was written too late.
THEOREM SettledInvariant == Spec => []Settled
<1>1. Booked /\ Settled /\ [Next]_vars => Settled'
  BY SettledInductive
<1>2. QED
  BY <1>1, InitSettled, BookedInvariant, PTL DEF Spec

\* A result is what marking the stored answers by the stored questions gives, counts the
\* questions and marks its student was shown, and every stored answer is an option of its
\* question, for any number of authors, but for answers stored after the submission had read
\* them (submitAttempt, saveAnswers) and for attempts whose questions were written, or the draft
\* reopened, by a call whose reading of the status was stale (requireDraftEvent).
THEOREM MarkedTruly == ASSUME IsFiniteSet(Question) PROVE Spec => []ResultsTruthful
<1>1. Booked /\ Settled => ScoredAsShown
  <2> SUFFICES ASSUME Booked, Settled, NEW a \in Attempt \ exposed, results[a] # None, shown[a] # None
               PROVE  LET r == results[a]
                      IN  /\ r.max = MarksOf(shown[a], Asked(shown[a]))
                          /\ r.correct + r.incorrect + r.unanswered = Cardinality(Asked(shown[a]))
    BY DEF ScoredAsShown
  <2>1. shown[a] = paper /\ paper \in Paper
    BY DEF Settled, PaperCurrent, Booked, Typed
  <2>2. PICK s \in Sheet : results[a] = Evaluation(paper, s)
    BY DEF Settled, ResultOfPaper
  <2>3. Evaluation(paper, s).max = MarksOf(paper, Asked(paper))
    BY DEF Evaluation
  <2>4. QED
    BY <2>1, <2>2, <2>3, Counted
<1>2. Booked /\ Settled => ResultsTruthful
  BY <1>1 DEF Settled, ResultsTruthful
<1>3. QED
  BY <1>2, SettledInvariant, BookedInvariant, PTL

-----------------------------------------------------------------------------
\* What marking returns is a result.
LEMMA MarksNatural ==
    ASSUME IsFiniteSet(Question), NEW p \in Paper, NEW S \in SUBSET Asked(p)
    PROVE  MarksOf(p, S) \in Nat
<1>1. IsFiniteSet(S)
    BY FS_Subset DEF Asked
<1>2. \A q \in S : [x \in S |-> p[x].marks][q] \in Nat
    BY PaperAssumption DEF Asked, Row
<1> QED
    BY <1>1, <1>2, MarksTotal, TotalNat

LEMMA MarkedIsResult == ASSUME IsFiniteSet(Question) PROVE Marked \subseteq Result
<1> SUFFICES ASSUME NEW p \in Paper, NEW s \in Sheet PROVE Evaluation(p, s) \in Result
    BY DEF Marked
<1>1. /\ Right(p, s) \subseteq Asked(p) /\ Blank(p, s) \subseteq Asked(p)
    BY DEF Right, Blank
<1>2. MarksOf(p, Right(p, s)) \in Nat /\ MarksOf(p, Asked(p)) \in Nat
    BY <1>1, MarksNatural
<1>3. ASSUME NEW S \in SUBSET Asked(p) PROVE Cardinality(S) \in Nat
    BY FS_Subset, FS_CardinalityType DEF Asked
<1> QED
    BY <1>1, <1>2, <1>3 DEF Evaluation, Result

\* The tables, the calls and the results they store keep their types.
THEOREM AssessmentTyped == ASSUME IsFiniteSet(Question) PROVE Spec => []TypeOK
<1>1. Booked => TypeOK
  <2> SUFFICES ASSUME Booked PROVE TypeOK
      OBVIOUS
  <2>1. Marked \subseteq Result
      BY MarkedIsResult
  <2>2. results \in [Attempt -> Result \cup {None}]
      BY <2>1 DEF Booked, Typed
  <2>3. WellFormed \subseteq CallRow
      BY <2>1 DEF WellFormed, CallRecord, CallRow
  <2>4. call \in [Caller -> CallRow]
      BY <2>3 DEF Booked, Typed
  <2> QED
      BY <2>2, <2>4 DEF Booked, Typed, TypeOK
<1> QED
    BY <1>1, BookedInvariant, PTL

-----------------------------------------------------------------------------
(* Practices *)

PracticeMarked == {Pra!Evaluation(p, s) : p \in Pra!Paper, s \in Pra!Sheet}

TryKind  == [status : Pra!TryStatus, result : PracticeMarked \cup {None}]
PageKind == [attempt : PracticeTry \cup {None}, paper : Pra!Paper, chosen : Pra!Choice, acked : Pra!Choice,
             saves : [PracticeQuestion -> Pra!SaveState], submit : Pra!SubmitState]
RequestKind == [op : {None, "save", "submit"}, stage : {None, "load", "questions", "answers", "apply"},
                attempt : PracticeTry \cup {None}, question : PracticeQuestion \cup {None},
                option : PracticeOption \cup {None}, paper : Pra!Paper \cup {None},
                result : PracticeMarked \cup {None}, heard : BOOLEAN]

\* What a request has found at which stage.
RequestFits(c) ==
    /\ c.op = None => c = Pra!Idle
    /\ c.op # None => c.attempt \in PracticeTry
    /\ c.op = "save" => c.question \in PracticeQuestion /\ c.option \in PracticeOption /\ c.stage # "answers"
    /\ c.op = "submit" /\ c.stage = "answers" => c.paper \in Pra!Paper
    /\ c.op = "submit" /\ c.stage = "apply" => c.result \in PracticeMarked

Requests == {c \in RequestKind : RequestFits(c)}

PracticeTyped ==
    /\ practiceStatus \in Pra!PracticeStatus /\ practicePaper \in Pra!Paper /\ practiceEditing \subseteq Author
    /\ practiceAttempt \in [PracticeTry -> TryKind]
    /\ \A a \in PracticeTry : (practiceAttempt[a].result = None) = (practiceAttempt[a].status # "SUBMITTED")
    /\ practiceSheet \in [PracticeTry -> Pra!Sheet]
    /\ practiceCall \in [PageRequest -> Requests]
    /\ page \in PageKind
    /\ faults \in 0..MaxFaults
    /\ late \subseteq PracticeTry /\ unsure \subseteq PracticeTry \X PracticeQuestion

\* What the page was told is stored, unless it is unsure, and what it shows as saved is what
\* it was told.
ToldOf(q) ==
    /\ page.saves[q] # "idle" => page.attempt \in PracticeTry /\ page.chosen[q] \in PracticeOption
    /\ page.acked[q] # None => page.attempt \in PracticeTry
    /\ page.acked[q] # None /\ <<page.attempt, q>> \notin unsure =>
         practiceSheet[page.attempt][q] = page.acked[q]
    /\ page.saves[q] = "saved" => page.acked[q] = page.chosen[q]

\* A save is heard by the page that waits for it, or it is unsure.
Awaited(r) ==
    practiceCall[r].op = "save" =>
        IF practiceCall[r].heard
          THEN practiceCall[r].attempt = page.attempt /\ page.saves[practiceCall[r].question] = "saving"
          ELSE <<practiceCall[r].attempt, practiceCall[r].question>> \in unsure

\* A page waits for one save of each question.
HeardSave(r) == practiceCall[r].op = "save" /\ practiceCall[r].heard
OneSave(r, s) ==
    HeardSave(r) /\ HeardSave(s) /\ practiceCall[r].question = practiceCall[s].question => r = s

PageTold ==
    /\ \A q \in PracticeQuestion : ToldOf(q)
    /\ \A r \in PageRequest : Awaited(r)
    /\ \A r, s \in PageRequest : OneSave(r, s)

\* What marking has read of an attempt, and its result, are of the questions and answers as
\* they are, unless one was written since.
MarksRead ==
    /\ \A a \in Pra!Submitted \ late :
         practiceAttempt[a].result = Pra!Evaluation(practicePaper, practiceSheet[a])
    /\ \A r \in PageRequest : practiceCall[r].op = "submit" /\ practiceCall[r].attempt \notin late =>
         /\ practiceCall[r].stage = "answers" => practiceCall[r].paper = practicePaper
         /\ practiceCall[r].stage = "apply" =>
              practiceCall[r].result = Pra!Evaluation(practicePaper, practiceSheet[practiceCall[r].attempt])

Practised == PracticeTyped /\ PageTold /\ MarksRead /\ Pra!AnswersHaveQuestions

PracticeFits ==
    /\ Pra!FaultBound /\ Pra!NoneIsNothing /\ Pra!PaperAssumption
    /\ Pra!NullIsNoRow /\ Pra!NullIsNoResult

LEMMA BlankFits ==
    ASSUME PracticeFits
    PROVE
    /\ Pra!BlankPaper \in Pra!Paper /\ Pra!BlankSheet \in Pra!Sheet /\ Pra!Sheet = Pra!Choice
    /\ Pra!Idle \in Requests /\ Pra!Idle.op = None /\ Pra!Idle.stage = None
<1>1. /\ Pra!BlankPaper \in Pra!Paper /\ Pra!BlankSheet \in Pra!Sheet /\ Pra!Sheet = Pra!Choice
    BY DEF Pra!BlankPaper, Pra!BlankSheet, Pra!Paper, Pra!Sheet, Pra!Choice
<1>2. Pra!Idle \in RequestKind /\ Pra!Idle.op = None /\ Pra!Idle.stage = None
    BY DEF Pra!Idle, RequestKind
<1>3. RequestFits(Pra!Idle)
    BY <1>2 DEF RequestFits, PracticeFits, Pra!NoneIsNothing
<1> QED
    BY <1>1, <1>2, <1>3 DEF Requests

LEMMA FreshFits ==
    ASSUME NEW a \in PracticeTry \cup {None}, NEW p \in Pra!Paper
    PROVE  /\ Pra!Fresh(a, p) \in PageKind /\ Pra!Fresh(a, p).attempt = a
           /\ \A q \in PracticeQuestion : /\ Pra!Fresh(a, p).saves[q] = "idle"
                                          /\ Pra!Fresh(a, p).acked[q] = None
<1>1. Pra!BlankSheet \in Pra!Choice /\ \A q \in PracticeQuestion : Pra!BlankSheet[q] = None
    BY DEF Pra!BlankSheet, Pra!Choice
<1>2. [q \in PracticeQuestion |-> "idle"] \in [PracticeQuestion -> Pra!SaveState] /\ "idle" \in Pra!SubmitState
    BY DEF Pra!SaveState, Pra!SubmitState
<1> QED
    BY <1>1, <1>2 DEF Pra!Fresh, PageKind

LEMMA PracticeInit == ASSUME PracticeFits, Pra!Init PROVE Practised
<1>1. /\ practiceAttempt = [a \in PracticeTry |-> Pra!NoTry] /\ practiceSheet = [a \in PracticeTry |-> Pra!BlankSheet]
      /\ practiceCall = [r \in PageRequest |-> Pra!Idle] /\ page = Pra!Fresh(None, Pra!BlankPaper)
      /\ practicePaper = Pra!BlankPaper /\ practiceStatus = "DRAFT" /\ practiceEditing = {}
      /\ faults = 0 /\ late = {} /\ unsure = {}
    BY DEF Pra!Init
<1>2. Pra!NoTry \in TryKind /\ Pra!NoTry.status = None /\ Pra!NoTry.result = None /\ None # "SUBMITTED"
    BY DEF PracticeFits, Pra!NoneIsNothing, Pra!NoTry, TryKind, Pra!TryStatus
<1>3. 0 \in 0..MaxFaults
    BY DEF PracticeFits, Pra!FaultBound
<1>4. PracticeTyped
    BY <1>1, <1>2, <1>3, BlankFits, FreshFits DEF PracticeTyped, Pra!PracticeStatus
<1>5. None \notin {"save", "submit"}
    BY DEF PracticeFits, Pra!NoneIsNothing
<1>6. PageTold
  <2>1. /\ page.attempt = None
        /\ \A q \in PracticeQuestion : page.saves[q] = "idle" /\ page.acked[q] = None
      BY <1>1, BlankFits, FreshFits
  <2>2. \A r \in PageRequest : practiceCall[r].op = None
      BY <1>1, BlankFits
  <2>3. \A q \in PracticeQuestion : ToldOf(q)
      BY <2>1 DEF ToldOf
  <2>4. \A r, s \in PageRequest : Awaited(r) /\ OneSave(r, s)
      BY <2>2, <1>5 DEF Awaited, OneSave, HeardSave
  <2> QED
      BY <2>3, <2>4 DEF PageTold
<1>7. MarksRead
    BY <1>1, <1>2, <1>5, BlankFits DEF MarksRead, Pra!Submitted
<1>8. Pra!AnswersHaveQuestions
    BY <1>1 DEF Pra!AnswersHaveQuestions, Pra!BlankSheet
<1> QED
    BY <1>4, <1>6, <1>7, <1>8 DEF Practised

\* A request is over: the page that waited for a save was told that it failed.
Released(r) ==
    /\ practiceCall' = [practiceCall EXCEPT ![r] = Pra!Idle]
    /\ page' \in PageKind /\ page'.attempt = page.attempt
    /\ page'.chosen = page.chosen /\ page'.acked = page.acked
    /\ IF practiceCall[r].op = "save" /\ practiceCall[r].heard
         THEN page'.saves = [page.saves EXCEPT ![practiceCall[r].question] = "error"]
         ELSE page'.saves = page.saves

LEMMA HearReleases ==
    ASSUME PracticeTyped, NEW r \in PageRequest, NEW accepted \in BOOLEAN, Pra!Hear(r, accepted),
           ~(practiceCall[r].heard /\ practiceCall[r].op = "save" /\ accepted)
    PROVE  Released(r)
<1> DEFINE c == practiceCall[r]
<1>1. c \in Requests /\ c \in RequestKind /\ page \in PageKind /\ c.heard \in BOOLEAN
    BY DEF PracticeTyped, Requests, RequestKind
<1>2. CASE c.heard /\ c.op = "save"
  <2>1. ~accepted /\ c.question \in PracticeQuestion
      BY <1>1, <1>2 DEF Requests, RequestFits
  <2>2. page' = [page EXCEPT !.saves[c.question] = "error"] /\ practiceCall' = [practiceCall EXCEPT ![r] = Pra!Idle]
      BY <1>2, <2>1 DEF Pra!Hear
  <2>3. [page.saves EXCEPT ![c.question] = "error"] \in [PracticeQuestion -> Pra!SaveState]
      BY <1>1, <2>1 DEF PageKind, Pra!SaveState
  <2> QED
      BY <1>1, <1>2, <2>2, <2>3 DEF PageKind, Released
<1>3. CASE c.heard /\ c.op = "submit"
  <2>1. /\ page' = [page EXCEPT !.submit = IF accepted THEN "submitted" ELSE "error"]
        /\ practiceCall' = [practiceCall EXCEPT ![r] = Pra!Idle] /\ c.op # "save"
      BY <1>3 DEF Pra!Hear
  <2> QED
      BY <1>1, <1>3, <2>1 DEF PageKind, Released, Pra!SubmitState
<1>4. CASE ~(c.heard /\ c.op \in {"save", "submit"})
  <2>1. practiceCall' = [practiceCall EXCEPT ![r] = Pra!Idle] /\ UNCHANGED page
      BY <1>1, <1>4 DEF Pra!Hear
  <2> QED
      BY <1>1, <1>4, <2>1 DEF Released
<1> QED
    BY <1>2, <1>3, <1>4

\* A request that is over changes nothing for the others, if what it stored is unsure.
LEMMA ReleasedKept ==
    ASSUME PracticeFits, PracticeTyped, PageTold, NEW r \in PageRequest, Released(r), unsure \subseteq unsure',
           \A a \in PracticeTry, q \in PracticeQuestion :
               <<a, q>> \notin unsure' => practiceSheet'[a][q] = practiceSheet[a][q]
    PROVE  /\ practiceCall' \in [PageRequest -> Requests] /\ page' \in PageKind /\ PageTold'
           /\ \A s \in PageRequest : practiceCall'[s].op = "submit" => s # r /\ practiceCall'[s] = practiceCall[s]
<1>0. "save" # None /\ "submit" # None
    BY DEF PracticeFits, Pra!NoneIsNothing
<1>1. /\ practiceCall' \in [PageRequest -> Requests] /\ practiceCall'[r].op = None
      /\ \A s \in PageRequest : s # r => practiceCall'[s] = practiceCall[s]
    BY BlankFits DEF Released, PracticeTyped
<1>2. \A q \in PracticeQuestion :
         /\ page'.saves[q] # "idle" => page.saves[q] # "idle"
         /\ page'.saves[q] = "saved" => page.saves[q] = "saved"
         /\ page.saves[q] = "saving" =>
              \/ page'.saves[q] = "saving"
              \/ practiceCall[r].op = "save" /\ practiceCall[r].heard /\ practiceCall[r].question = q
  <2>1. page.saves \in [PracticeQuestion -> Pra!SaveState]
      BY DEF PracticeTyped, PageKind
  <2>2. practiceCall[r].op = "save" /\ practiceCall[r].heard => page.saves[practiceCall[r].question] = "saving"
      BY DEF PageTold, Awaited
  <2> QED
      BY <2>1, <2>2 DEF Released
<1>3. ASSUME NEW q \in PracticeQuestion PROVE ToldOf(q)'
  <2>1. ToldOf(q) /\ page'.attempt = page.attempt /\ page'.chosen = page.chosen /\ page'.acked = page.acked
      BY DEF Released, PageTold
  <2> QED
      BY <1>2, <2>1 DEF ToldOf
<1>4. ASSUME NEW s \in PageRequest PROVE Awaited(s)'
  <2> SUFFICES ASSUME practiceCall'[s].op = "save" PROVE Awaited(s)'
      BY DEF Awaited
  <2>1. s # r /\ practiceCall'[s] = practiceCall[s] /\ practiceCall[s].op = "save"
      BY <1>0, <1>1
  <2>2. practiceCall[s].question \in PracticeQuestion
      BY <2>1 DEF PracticeTyped, Requests, RequestFits
  <2>3. CASE practiceCall[s].heard
    <3>1. practiceCall[s].attempt = page.attempt /\ page.saves[practiceCall[s].question] = "saving"
        BY <2>1, <2>3 DEF PageTold, Awaited
    <3>2. ~(practiceCall[r].op = "save" /\ practiceCall[r].heard
              /\ practiceCall[r].question = practiceCall[s].question)
        BY <2>1, <2>3 DEF PageTold, OneSave, HeardSave
    <3> QED
        BY <2>1, <2>2, <2>3, <3>1, <3>2, <1>2 DEF Released, Awaited
  <2>4. CASE ~practiceCall[s].heard
      BY <2>1, <2>4 DEF PageTold, Awaited
  <2> QED
      BY <2>3, <2>4
<1>5. ASSUME NEW s \in PageRequest, NEW z \in PageRequest PROVE OneSave(s, z)'
  <2>1. /\ practiceCall'[s].op = "save" => practiceCall'[s] = practiceCall[s]
        /\ practiceCall'[z].op = "save" => practiceCall'[z] = practiceCall[z]
        /\ OneSave(s, z)
      BY <1>0, <1>1 DEF PageTold
  <2> QED
      BY <2>1 DEF OneSave, HeardSave
<1>6. PageTold'
    BY <1>3, <1>4, <1>5 DEF PageTold
<1> QED
    BY <1>0, <1>1, <1>6 DEF Released

\* What marking read stays right where paper and answers stay, and requests that mark them.
LEMMA MarksKept ==
    ASSUME MarksRead, UNCHANGED practicePaper, late \subseteq late',
           \A a \in PracticeTry : a \notin late' => practiceSheet'[a] = practiceSheet[a],
           \A a \in PracticeTry : practiceAttempt'[a].status = "SUBMITTED" /\ a \notin late' =>
               \/ practiceAttempt'[a] = practiceAttempt[a]
               \/ practiceAttempt'[a].result = Pra!Evaluation(practicePaper, practiceSheet[a]),
           \A s \in PageRequest : practiceCall'[s].op = "submit" =>
               \/ /\ practiceCall[s].op = "submit" /\ practiceCall'[s].attempt = practiceCall[s].attempt
                  /\ practiceCall'[s].stage = practiceCall[s].stage /\ practiceCall'[s].paper = practiceCall[s].paper
                  /\ practiceCall'[s].result = practiceCall[s].result
               \/ practiceCall'[s].stage \notin {"answers", "apply"},
           \A s \in PageRequest : practiceCall'[s].op = "submit" => practiceCall'[s].attempt \in PracticeTry
    PROVE  MarksRead'
<1>1. \A a \in Pra!Submitted' \ late' :
         practiceAttempt'[a].result = Pra!Evaluation(practicePaper', practiceSheet'[a])
    BY DEF MarksRead, Pra!Submitted
<1>2. ASSUME NEW s \in PageRequest, practiceCall'[s].op = "submit", practiceCall'[s].attempt \notin late'
      PROVE  /\ practiceCall'[s].stage = "answers" => practiceCall'[s].paper = practicePaper'
             /\ practiceCall'[s].stage = "apply" =>
                  practiceCall'[s].result = Pra!Evaluation(practicePaper', practiceSheet'[practiceCall'[s].attempt])
  <2>1. CASE /\ practiceCall[s].op = "submit" /\ practiceCall'[s].attempt = practiceCall[s].attempt
             /\ practiceCall'[s].stage = practiceCall[s].stage /\ practiceCall'[s].paper = practiceCall[s].paper
             /\ practiceCall'[s].result = practiceCall[s].result
      BY <1>2, <2>1 DEF MarksRead
  <2>2. CASE practiceCall'[s].stage \notin {"answers", "apply"}
      BY <2>2
  <2> QED
      BY <1>2, <2>1, <2>2
<1> QED
    BY <1>1, <1>2 DEF MarksRead

\* A request goes on to its next stage; nothing else changes.
LEMMA MovesTold ==
    ASSUME PracticeTyped, PageTold, NEW r \in PageRequest, NEW new \in Requests,
           practiceCall' = [practiceCall EXCEPT ![r] = new], UNCHANGED <<page, practiceSheet, unsure>>,
           new.op = practiceCall[r].op, new.attempt = practiceCall[r].attempt,
           new.question = practiceCall[r].question, new.heard = practiceCall[r].heard
    PROVE  PageTold'
<1>1. \A s \in PageRequest :
         /\ practiceCall'[s].op = practiceCall[s].op /\ practiceCall'[s].attempt = practiceCall[s].attempt
         /\ practiceCall'[s].question = practiceCall[s].question /\ practiceCall'[s].heard = practiceCall[s].heard
    BY DEF PracticeTyped
<1>2. \A q \in PracticeQuestion : ToldOf(q)'
    BY DEF PageTold, ToldOf
<1>3. \A s \in PageRequest : Awaited(s)'
    BY <1>1 DEF PageTold, Awaited
<1>4. \A s, z \in PageRequest : OneSave(s, z)'
    BY <1>1 DEF PageTold, OneSave, HeardSave
<1> QED
    BY <1>2, <1>3, <1>4 DEF PageTold

LEMMA RequestShape ==
    ASSUME PracticeTyped, NEW r \in PageRequest
    PROVE  /\ practiceCall[r] \in RequestKind /\ RequestFits(practiceCall[r])
           /\ practiceCall[r] \in Requests
BY DEF PracticeTyped, Requests

LEMMA AuthoringKept ==
    ASSUME PracticeFits, Practised, Pra!Authoring
    PROVE  Practised'
<1>1. CASE \/ Pra!PublishPractice \/ Pra!ArchivePractice
           \/ \E h \in Author : Pra!OpenDraft(h) \/ Pra!RefuseQuestion(h)
  <2>1. /\ practiceStatus' \in Pra!PracticeStatus /\ practiceEditing' \subseteq Author
        /\ UNCHANGED <<practicePaper, practiceAttempt, practiceSheet, practiceCall, page, faults, late, unsure>>
      BY <1>1 DEF Pra!PublishPractice, Pra!ArchivePractice, Pra!OpenDraft, Pra!RefuseQuestion, Pra!rows,
          Pra!history, Pra!PracticeStatus, Practised, PracticeTyped
  <2>2. PracticeTyped'
      BY <2>1 DEF Practised, PracticeTyped
  <2>3. PageTold'
      BY <2>1 DEF Practised, PageTold, ToldOf, Awaited, OneSave, HeardSave
  <2>4. MarksRead' /\ Pra!AnswersHaveQuestions'
      BY <2>1 DEF Practised, MarksRead, Pra!Submitted, Pra!AnswersHaveQuestions, Pra!Asked
  <2> QED
      BY <2>2, <2>3, <2>4 DEF Practised
<1>2. ASSUME NEW h \in Author, NEW q \in PracticeQuestion, NEW row \in Pra!Row \cup {Gone},
             Pra!Written(h, [practicePaper EXCEPT ![q] = row]),
             row = Gone => \A a \in PracticeTry : practiceSheet[a][q] = None
      PROVE  Practised'
  <2>1. /\ practicePaper' = [practicePaper EXCEPT ![q] = row] /\ practiceEditing' \subseteq Author
        /\ late' = late \cup Pra!Read
        /\ UNCHANGED <<practiceStatus, practiceAttempt, practiceSheet, practiceCall, page, faults, unsure>>
      BY <1>2 DEF Pra!Written, Pra!rows, Practised, PracticeTyped
  <2>2. practicePaper' \in Pra!Paper
      BY <2>1 DEF Practised, PracticeTyped, Pra!Paper
  <2>3. Pra!Read \subseteq PracticeTry
    <3>1. \A r \in Pra!Marking : practiceCall[r].attempt \in PracticeTry
        BY RequestShape DEF Practised, Pra!Marking, RequestFits, PracticeFits, Pra!NoneIsNothing
    <3> QED
        BY <3>1 DEF Pra!Read, Pra!Submitted
  <2>4. PracticeTyped'
      BY <2>1, <2>2, <2>3 DEF Practised, PracticeTyped
  <2>5. PageTold'
      BY <2>1 DEF Practised, PageTold, ToldOf, Awaited, OneSave, HeardSave
  <2>6. MarksRead'
      BY <2>1 DEF Practised, MarksRead, Pra!Submitted, Pra!Read, Pra!Marking
  <2>7. Pra!AnswersHaveQuestions'
    <3> SUFFICES ASSUME NEW a \in PracticeTry, NEW x \in PracticeQuestion, practiceSheet[a][x] # None
                 PROVE  practicePaper'[x] \in Pra!Row
        BY <2>1 DEF Pra!AnswersHaveQuestions, Pra!Asked
    <3>1. practicePaper[x] \in Pra!Row
        BY DEF Practised, Pra!AnswersHaveQuestions, Pra!Asked
    <3>2. x = q => row # Gone
        BY <1>2
    <3> QED
        BY <2>1, <3>1, <3>2, <2>2 DEF Practised, PracticeTyped, Pra!Paper
  <2> QED
      BY <2>4, <2>5, <2>6, <2>7 DEF Practised
<1>3. ASSUME NEW h \in Author, NEW q \in PracticeQuestion, NEW row \in Pra!Row,
             Pra!AddQuestion(h, q, row) \/ Pra!UpdateQuestion(h, q, row)
      PROVE  Practised'
  <2>1. Pra!Written(h, [practicePaper EXCEPT ![q] = row]) /\ row # Gone
      BY <1>3 DEF Pra!AddQuestion, Pra!UpdateQuestion, PracticeFits, Pra!NullIsNoRow
  <2> QED
      BY <2>1, <1>2
<1>4. ASSUME NEW h \in Author, NEW q \in PracticeQuestion, Pra!DeleteQuestion(h, q)
      PROVE  Practised'
    BY <1>2, <1>4 DEF Pra!DeleteQuestion
<1> QED
    BY <1>1, <1>3, <1>4 DEF Pra!Authoring

LEMMA StartKept ==
    ASSUME PracticeFits, Practised, NEW a \in PracticeTry, Pra!StartAttempt(a)
    PROVE  Practised'
<1>1. /\ practiceAttempt[a].status = None
      /\ practiceAttempt' = [practiceAttempt EXCEPT ![a].status = "IN_PROGRESS"]
      /\ UNCHANGED <<practiceStatus, practicePaper, practiceEditing, practiceSheet, practiceCall, page,
                     faults, late, unsure>>
    BY DEF Pra!StartAttempt, Pra!authoring, Pra!history
<1>2. PICK new : new = [practiceAttempt[a] EXCEPT !.status = "IN_PROGRESS"]
    OBVIOUS
<1>3. /\ new \in TryKind /\ new.status = "IN_PROGRESS" /\ new.result = None
      /\ practiceAttempt' = [practiceAttempt EXCEPT ![a] = new]
  <2>1. practiceAttempt[a] \in TryKind /\ practiceAttempt[a].result = None
      BY <1>1 DEF Practised, PracticeTyped, PracticeFits, Pra!NoneIsNothing
  <2> QED
      BY <1>1, <1>2, <2>1 DEF TryKind, Pra!TryStatus, Practised, PracticeTyped
<1>4. PracticeTyped'
    BY <1>1, <1>3 DEF Practised, PracticeTyped
<1>5. PageTold'
    BY <1>1 DEF Practised, PageTold, ToldOf, Awaited, OneSave, HeardSave
<1>6. MarksRead'
    BY <1>1, <1>3 DEF Practised, PracticeTyped, MarksRead, Pra!Submitted
<1>7. Pra!AnswersHaveQuestions'
    BY <1>1 DEF Practised, Pra!AnswersHaveQuestions, Pra!Asked
<1> QED
    BY <1>4, <1>5, <1>6, <1>7 DEF Practised

LEMMA OpenKept ==
    ASSUME PracticeFits, Practised, NEW a \in PracticeTry, Pra!OpenPage(a)
    PROVE  Practised'
<1>1. /\ page' = Pra!Fresh(a, practicePaper)
      /\ practiceCall' = [r \in PageRequest |-> [practiceCall[r] EXCEPT !.heard = FALSE]]
      /\ unsure' = unsure \cup {<<practiceCall[r].attempt, practiceCall[r].question>> :
                                   r \in {s \in PageRequest : practiceCall[s].op = "save"}}
      /\ UNCHANGED <<practiceStatus, practicePaper, practiceEditing, practiceAttempt, practiceSheet, late>>
    BY DEF Pra!OpenPage, Pra!Abandon, Pra!authoring, Pra!rows
<1>2. faults' \in 0..MaxFaults
    BY DEF Pra!OpenPage, Practised, PracticeTyped, PracticeFits, Pra!FaultBound
<1>3. page' \in PageKind /\ \A q \in PracticeQuestion : page'.saves[q] = "idle" /\ page'.acked[q] = None
    BY <1>1, FreshFits DEF Practised, PracticeTyped
<1>4. ASSUME NEW r \in PageRequest
      PROVE  /\ practiceCall'[r] \in Requests /\ practiceCall'[r].heard = FALSE
             /\ practiceCall'[r].op = practiceCall[r].op /\ practiceCall'[r].attempt = practiceCall[r].attempt
             /\ practiceCall'[r].question = practiceCall[r].question
             /\ practiceCall'[r].stage = practiceCall[r].stage /\ practiceCall'[r].paper = practiceCall[r].paper
             /\ practiceCall'[r].result = practiceCall[r].result
  <2>1. practiceCall[r] \in RequestKind /\ RequestFits(practiceCall[r])
      BY RequestShape DEF Practised
  <2>2. PICK new : new = [practiceCall[r] EXCEPT !.heard = FALSE]
      OBVIOUS
  <2>3. /\ new \in RequestKind /\ new.heard = FALSE /\ new.op = practiceCall[r].op
        /\ new.attempt = practiceCall[r].attempt /\ new.question = practiceCall[r].question
        /\ new.option = practiceCall[r].option
        /\ new.stage = practiceCall[r].stage /\ new.paper = practiceCall[r].paper
        /\ new.result = practiceCall[r].result
      BY <2>1, <2>2 DEF RequestKind
  <2>4. practiceCall[r] = Pra!Idle => new = Pra!Idle
    <3>1. Pra!Idle.heard = FALSE
        BY DEF Pra!Idle
    <3>2. practiceCall[r].heard = FALSE => new = practiceCall[r]
        BY <2>1, <2>2 DEF RequestKind
    <3> QED
        BY <3>1, <3>2
  <2>5. RequestFits(new)
      BY <2>1, <2>3, <2>4 DEF RequestFits
  <2> QED
      BY <1>1, <2>2, <2>3, <2>5 DEF Requests
<1>5. PracticeTyped'
  <2>1. \A r \in PageRequest : practiceCall[r].op = "save" =>
            practiceCall[r].attempt \in PracticeTry /\ practiceCall[r].question \in PracticeQuestion
      BY RequestShape DEF Practised, RequestFits, PracticeFits, Pra!NoneIsNothing
  <2>2. unsure' \subseteq PracticeTry \X PracticeQuestion
      BY <1>1, <2>1 DEF Practised, PracticeTyped
  <2>3. practiceCall' \in [PageRequest -> Requests]
      BY <1>1, <1>4
  <2> QED
      BY <1>1, <1>2, <1>3, <2>2, <2>3 DEF Practised, PracticeTyped
<1>6. PageTold'
  <2>1. \A q \in PracticeQuestion : ToldOf(q)'
      BY <1>3 DEF ToldOf
  <2>2. ASSUME NEW r \in PageRequest PROVE Awaited(r)'
    <3>1. practiceCall[r].op = "save" => <<practiceCall[r].attempt, practiceCall[r].question>> \in unsure'
        BY <1>1
    <3> QED
        BY <1>4, <3>1 DEF Awaited
  <2>3. \A r, s \in PageRequest : OneSave(r, s)'
      BY <1>4 DEF OneSave, HeardSave
  <2> QED
      BY <2>1, <2>2, <2>3 DEF PageTold
<1>7. MarksRead'
  <2>1. \A r \in PageRequest : practiceCall[r].op = "submit" => practiceCall[r].attempt \in PracticeTry
      BY RequestShape DEF Practised, RequestFits, PracticeFits, Pra!NoneIsNothing
  <2> QED
      BY <1>1, <1>4, <2>1, MarksKept DEF Practised
<1>8. Pra!AnswersHaveQuestions'
    BY <1>1 DEF Practised, Pra!AnswersHaveQuestions, Pra!Asked
<1> QED
    BY <1>5, <1>6, <1>7, <1>8 DEF Practised

\* What a request is when it is sent.
LEMMA SentFits ==
    ASSUME PracticeFits, Practised, NEW r \in PageRequest, NEW op \in {"save", "submit"}, NEW q, NEW o,
           Pra!Send(r, op, q, o), page.attempt \in PracticeTry,
           \/ op = "save" /\ q \in PracticeQuestion /\ o \in PracticeOption
           \/ op = "submit" /\ q = None /\ o = None
    PROVE  /\ practiceCall[r] = Pra!Idle /\ practiceCall' \in [PageRequest -> Requests]
           /\ \A s \in PageRequest : s # r => practiceCall'[s] = practiceCall[s]
           /\ practiceCall'[r].op = op /\ practiceCall'[r].stage = "load" /\ practiceCall'[r].heard
           /\ practiceCall'[r].attempt = page.attempt /\ practiceCall'[r].question = q
<1> DEFINE new == [Pra!Idle EXCEPT !.op = op, !.stage = "load", !.heard = TRUE,
                                   !.attempt = page.attempt, !.question = q, !.option = o]
<1>1. practiceCall[r] = Pra!Idle /\ practiceCall' = [practiceCall EXCEPT ![r] = new]
    BY DEF Pra!Send
<1>2. /\ new \in RequestKind /\ new.op = op /\ new.stage = "load" /\ new.heard
      /\ new.attempt = page.attempt /\ new.question = q /\ new.option = o
    BY DEF Pra!Idle, RequestKind
<1> HIDE DEF new
<1>3. new \in Requests
    BY <1>2 DEF Requests, RequestFits, PracticeFits, Pra!NoneIsNothing
<1> QED
    BY <1>1, <1>2, <1>3 DEF Practised, PracticeTyped

\* Choosing an option, or trying again to save it.
LEMMA PersistKept ==
    ASSUME PracticeFits, Practised, NEW r \in PageRequest, NEW q \in PracticeQuestion, NEW o \in PracticeOption,
           page.attempt \in PracticeTry, Pra!Persist(r, q, o),
           UNCHANGED <<Pra!authoring, Pra!rows, faults, Pra!history>>
    PROVE  Practised'
<1>1. UNCHANGED <<practiceStatus, practicePaper, practiceEditing, practiceAttempt, practiceSheet, faults, late, unsure>>
    BY DEF Pra!authoring, Pra!rows, Pra!history
<1>2. PICK saves \in [PracticeQuestion -> Pra!SaveState], chosen \in Pra!Choice :
         /\ page' \in PageKind /\ page'.attempt = page.attempt /\ page'.acked = page.acked
         /\ page'.saves = saves /\ page'.chosen = chosen
         /\ \A x \in PracticeQuestion \ {q} : saves[x] = page.saves[x] /\ chosen[x] = page.chosen[x]
         /\ chosen[q] = o
         /\ \/ /\ page.saves[q] = "saving" \/ page.acked[q] = o
               /\ saves[q] = (IF page.saves[q] = "saving" THEN "saving" ELSE "saved")
               /\ UNCHANGED practiceCall
            \/ page.saves[q] # "saving" /\ saves[q] = "saving" /\ Pra!Send(r, "save", q, o)
  <2>1. /\ page \in PageKind /\ page.saves \in [PracticeQuestion -> Pra!SaveState]
        /\ page.chosen \in Pra!Choice
      BY DEF Practised, PracticeTyped, PageKind
  <2>2. CASE page.saves[q] = "saving" \/ page.acked[q] = o
    <3> DEFINE saves == [page.saves EXCEPT ![q] = IF @ = "saving" THEN @ ELSE "saved"]
               chosen == [page.chosen EXCEPT ![q] = o]
    <3>1. page' = [page EXCEPT !.chosen = chosen, !.saves = saves] /\ UNCHANGED practiceCall
        BY <2>1, <2>2 DEF Pra!Persist, PageKind
    <3>2. saves \in [PracticeQuestion -> Pra!SaveState] /\ chosen \in Pra!Choice
        BY <2>1 DEF Pra!SaveState, Pra!Choice
    <3>3. /\ \A x \in PracticeQuestion \ {q} : saves[x] = page.saves[x] /\ chosen[x] = page.chosen[x]
          /\ chosen[q] = o /\ saves[q] = (IF page.saves[q] = "saving" THEN "saving" ELSE "saved")
        BY <2>1 DEF Pra!Choice
    <3> HIDE DEF saves, chosen
    <3> QED
        BY <2>1, <2>2, <3>1, <3>2, <3>3 DEF PageKind
  <2>3. CASE ~(page.saves[q] = "saving" \/ page.acked[q] = o)
    <3> DEFINE saves == [page.saves EXCEPT ![q] = "saving"]
               chosen == [page.chosen EXCEPT ![q] = o]
    <3>1. page' = [page EXCEPT !.chosen = chosen, !.saves = saves] /\ Pra!Send(r, "save", q, o)
        BY <2>1, <2>3 DEF Pra!Persist, PageKind
    <3>2. saves \in [PracticeQuestion -> Pra!SaveState] /\ chosen \in Pra!Choice
        BY <2>1 DEF Pra!SaveState, Pra!Choice
    <3>3. /\ \A x \in PracticeQuestion \ {q} : saves[x] = page.saves[x] /\ chosen[x] = page.chosen[x]
          /\ chosen[q] = o /\ saves[q] = "saving"
        BY <2>1 DEF Pra!Choice
    <3> HIDE DEF saves, chosen
    <3> QED
        BY <2>1, <2>3, <3>1, <3>2, <3>3 DEF PageKind
  <2> QED
      BY <2>2, <2>3
<1>3. ASSUME NEW x \in PracticeQuestion PROVE ToldOf(x)'
  <2>1. ToldOf(x)
      BY DEF Practised, PageTold
  <2>2. o # None
      BY DEF PracticeFits, Pra!PaperAssumption
  <2> QED
      BY <1>1, <1>2, <2>1, <2>2 DEF ToldOf
<1>4. CASE UNCHANGED practiceCall
  <2>1. \A s \in PageRequest : Awaited(s)' /\ (practiceCall[s].op = "save" => practiceCall[s].question \in PracticeQuestion)
    <3> SUFFICES ASSUME NEW s \in PageRequest, practiceCall[s].op = "save"
                 PROVE  Awaited(s)' /\ practiceCall[s].question \in PracticeQuestion
        BY <1>4 DEF Awaited
    <3>1. practiceCall[s].question \in PracticeQuestion /\ Awaited(s)
        BY RequestShape DEF Practised, PageTold, RequestFits
    <3> QED
        BY <1>1, <1>2, <1>4, <3>1 DEF Awaited
  <2>2. \A s, z \in PageRequest : OneSave(s, z)'
      BY <1>4 DEF Practised, PageTold, OneSave, HeardSave
  <2>3. PageTold' /\ PracticeTyped'
      BY <1>1, <1>2, <1>3, <1>4, <2>1, <2>2 DEF PageTold, Practised, PracticeTyped
  <2>4. MarksRead' /\ Pra!AnswersHaveQuestions'
      BY <1>1, <1>4 DEF Practised, MarksRead, Pra!Submitted, Pra!AnswersHaveQuestions, Pra!Asked
  <2> QED
      BY <2>3, <2>4 DEF Practised
<1>5. CASE page.saves[q] # "saving" /\ page'.saves[q] = "saving" /\ Pra!Send(r, "save", q, o)
  <2>1. /\ practiceCall[r] = Pra!Idle /\ practiceCall' \in [PageRequest -> Requests]
        /\ \A s \in PageRequest : s # r => practiceCall'[s] = practiceCall[s]
        /\ practiceCall'[r].op = "save" /\ practiceCall'[r].stage = "load" /\ practiceCall'[r].heard
        /\ practiceCall'[r].attempt = page.attempt /\ practiceCall'[r].question = q
      BY <1>5, SentFits
  <2>2. ASSUME NEW s \in PageRequest, s # r, practiceCall[s].op = "save"
        PROVE  /\ Awaited(s)' /\ practiceCall[s].question \in PracticeQuestion
               /\ practiceCall[s].heard => practiceCall[s].question # q
    <3>1. practiceCall[s].question \in PracticeQuestion /\ Awaited(s)
        BY <2>2, RequestShape DEF Practised, PageTold, RequestFits
    <3> QED
        BY <1>1, <1>2, <1>5, <2>1, <2>2, <3>1 DEF Awaited
  <2>3. ASSUME NEW s \in PageRequest PROVE Awaited(s)'
      BY <1>2, <1>5, <2>1, <2>2 DEF Awaited
  <2>4. ASSUME NEW s \in PageRequest, NEW z \in PageRequest PROVE OneSave(s, z)'
    <3>1. OneSave(s, z)
        BY DEF Practised, PageTold
    <3> QED
        BY <2>1, <2>2, <3>1 DEF OneSave, HeardSave
  <2>5. PageTold' /\ PracticeTyped'
      BY <1>1, <1>2, <1>3, <2>1, <2>3, <2>4 DEF PageTold, Practised, PracticeTyped
  <2>6. \A s \in PageRequest : practiceCall'[s].op = "submit" => practiceCall'[s] = practiceCall[s]
      BY <2>1
  <2>7. MarksRead' /\ Pra!AnswersHaveQuestions'
      BY <1>1, <2>6 DEF Practised, MarksRead, Pra!Submitted, Pra!AnswersHaveQuestions, Pra!Asked
  <2> QED
      BY <2>5, <2>7 DEF Practised
<1> QED
    BY <1>2, <1>4, <1>5

\* Steps of a request that store nothing: its page hears of a refusal or a fault, or it goes on.
LEMMA QuietKept ==
    ASSUME PracticeFits, Practised, NEW r \in PageRequest, faults' \in 0..MaxFaults,
           UNCHANGED <<Pra!authoring, Pra!rows, Pra!history>>,
           \/ Released(r)
           \/ \E new \in Requests :
                /\ practiceCall' = [practiceCall EXCEPT ![r] = new] /\ UNCHANGED page
                /\ new.op = practiceCall[r].op /\ new.attempt = practiceCall[r].attempt
                /\ new.question = practiceCall[r].question /\ new.heard = practiceCall[r].heard
                /\ new.op = "submit" =>
                     \/ new.stage = "questions"
                     \/ new.stage = "answers" /\ new.paper = practicePaper
                     \/ /\ new.stage = "apply" /\ practiceCall[r].stage = "answers"
                        /\ new.result = Pra!Evaluation(practiceCall[r].paper, practiceSheet[new.attempt])
    PROVE  Practised'
<1>1. UNCHANGED <<practiceStatus, practicePaper, practiceEditing, practiceAttempt, practiceSheet, late, unsure>>
    BY DEF Pra!authoring, Pra!rows, Pra!history
<1>2. Pra!AnswersHaveQuestions'
    BY <1>1 DEF Practised, Pra!AnswersHaveQuestions, Pra!Asked
<1>3. \A s \in PageRequest : practiceCall[s].op = "submit" => practiceCall[s].attempt \in PracticeTry
    BY RequestShape DEF Practised, RequestFits, PracticeFits, Pra!NoneIsNothing
<1>4. CASE Released(r)
  <2>1. /\ practiceCall' \in [PageRequest -> Requests] /\ page' \in PageKind /\ PageTold'
        /\ \A s \in PageRequest : practiceCall'[s].op = "submit" => practiceCall'[s] = practiceCall[s]
      BY <1>1, <1>4, ReleasedKept DEF Practised
  <2>2. MarksRead'
      BY <1>1, <1>3, <2>1, MarksKept DEF Practised
  <2> QED
      BY <1>1, <1>2, <2>1, <2>2 DEF Practised, PracticeTyped
<1>5. ASSUME NEW new \in Requests,
             practiceCall' = [practiceCall EXCEPT ![r] = new], UNCHANGED page,
             new.op = practiceCall[r].op, new.attempt = practiceCall[r].attempt,
             new.question = practiceCall[r].question, new.heard = practiceCall[r].heard,
             new.op = "submit" =>
                 \/ new.stage = "questions"
                 \/ new.stage = "answers" /\ new.paper = practicePaper
                 \/ /\ new.stage = "apply" /\ practiceCall[r].stage = "answers"
                    /\ new.result = Pra!Evaluation(practiceCall[r].paper, practiceSheet[new.attempt])
      PROVE  Practised'
  <2>1. PageTold'
      BY <1>1, <1>5, MovesTold DEF Practised
  <2>2. /\ practiceCall' \in [PageRequest -> Requests] /\ practiceCall'[r] = new
        /\ \A s \in PageRequest : s # r => practiceCall'[s] = practiceCall[s]
      BY <1>5 DEF Practised, PracticeTyped
  <2>3. new.op = "submit" /\ new.attempt \notin late =>
          /\ new.stage = "answers" => new.paper = practicePaper
          /\ new.stage = "apply" => new.result = Pra!Evaluation(practicePaper, practiceSheet[new.attempt])
      BY <1>5 DEF Practised, MarksRead
  <2>4. MarksRead'
      BY <1>1, <2>2, <2>3 DEF Practised, MarksRead, Pra!Submitted
  <2> QED
      BY <1>1, <1>2, <1>5, <2>1, <2>2, <2>4 DEF Practised, PracticeTyped
<1> QED
    BY <1>4, <1>5

LEMMA SubmitSentKept ==
    ASSUME PracticeFits, Practised, NEW r \in PageRequest, Pra!ConfirmSubmit(r)
    PROVE  Practised'
<1>1. /\ page.attempt \in PracticeTry /\ page' = [page EXCEPT !.submit = "submitting"]
      /\ Pra!Send(r, "submit", None, None) /\ page \in PageKind
      /\ UNCHANGED <<practiceStatus, practicePaper, practiceEditing, practiceAttempt, practiceSheet,
                     faults, late, unsure>>
    BY DEF Pra!ConfirmSubmit, Pra!authoring, Pra!rows, Pra!history, Practised, PracticeTyped, PageKind
<1>2. /\ practiceCall[r] = Pra!Idle /\ practiceCall' \in [PageRequest -> Requests]
      /\ \A s \in PageRequest : s # r => practiceCall'[s] = practiceCall[s]
      /\ practiceCall'[r].op = "submit" /\ practiceCall'[r].stage = "load"
    BY <1>1, SentFits
<1>3. /\ page' \in PageKind /\ page'.attempt = page.attempt /\ page'.acked = page.acked
      /\ page'.saves = page.saves /\ page'.chosen = page.chosen
    BY <1>1 DEF PageKind, Pra!SubmitState
<1>4. \A s \in PageRequest : practiceCall'[s].op = "save" => s # r /\ practiceCall'[s] = practiceCall[s]
    BY <1>2
<1>5. PageTold'
  <2>1. \A q \in PracticeQuestion : ToldOf(q)'
      BY <1>1, <1>3 DEF Practised, PageTold, ToldOf
  <2>2. \A s \in PageRequest : Awaited(s)'
      BY <1>1, <1>3, <1>4 DEF Practised, PageTold, Awaited
  <2>3. \A s, z \in PageRequest : OneSave(s, z)'
      BY <1>4 DEF Practised, PageTold, OneSave, HeardSave
  <2> QED
      BY <2>1, <2>2, <2>3 DEF PageTold
<1>6. MarksRead' /\ Pra!AnswersHaveQuestions'
    BY <1>1, <1>2 DEF Practised, MarksRead, Pra!Submitted, Pra!AnswersHaveQuestions, Pra!Asked
<1> QED
    BY <1>1, <1>2, <1>3, <1>5, <1>6 DEF Practised, PracticeTyped

LEMMA ServedKept ==
    ASSUME PracticeFits, Practised, NEW r \in PageRequest,
           Pra!LoadAttempt(r) \/ Pra!ReadQuestions(r) \/ Pra!Evaluate(r) \/ Pra!Fault(r)
    PROVE  Practised'
<1> DEFINE c == practiceCall[r]
<1>1. c \in RequestKind /\ RequestFits(c) /\ PracticeTyped /\ faults \in 0..MaxFaults
    BY RequestShape DEF Practised, PracticeTyped
<1>2. c.op = None => c.stage = None
    BY <1>1 DEF RequestFits, Pra!Idle
<1>3. \A stage \in {"questions", "answers", "apply"} : None # stage /\ "load" # None /\ "submit" # None
    BY DEF PracticeFits, Pra!NoneIsNothing
<1>4. CASE Pra!LoadAttempt(r)
  <2>1. UNCHANGED <<Pra!authoring, Pra!rows, Pra!history>> /\ faults' \in 0..MaxFaults /\ c.op # None
      BY <1>1, <1>2, <1>3, <1>4 DEF Pra!LoadAttempt
  <2>2. CASE Pra!Hear(r, FALSE)
      BY <1>1, <2>1, <2>2, HearReleases, QuietKept
  <2>3. CASE practiceCall' = [practiceCall EXCEPT ![r].stage = "questions"] /\ UNCHANGED page
    <3>1. PICK new : new = [c EXCEPT !.stage = "questions"]
        OBVIOUS
    <3>2. /\ new \in RequestKind /\ new.stage = "questions" /\ new.op = c.op /\ new.attempt = c.attempt
          /\ new.question = c.question /\ new.heard = c.heard /\ new.option = c.option
          /\ practiceCall' = [practiceCall EXCEPT ![r] = new]
        BY <1>1, <2>3, <3>1 DEF RequestKind
    <3>3. new \in Requests
        BY <1>1, <2>1, <3>2 DEF Requests, RequestFits
    <3> QED
        BY <2>1, <2>3, <3>2, <3>3, QuietKept
  <2> QED
      BY <1>4, <2>2, <2>3 DEF Pra!LoadAttempt
<1>5. CASE Pra!ReadQuestions(r)
  <2>1. UNCHANGED <<Pra!authoring, Pra!rows, Pra!history>> /\ faults' \in 0..MaxFaults /\ c.op # None
      BY <1>1, <1>2, <1>3, <1>5 DEF Pra!ReadQuestions
  <2>2. CASE c.op # "submit" /\ Pra!Hear(r, FALSE)
      BY <1>1, <2>1, <2>2, HearReleases, QuietKept
  <2>3. CASE c.op # "submit" /\ practiceCall' = [practiceCall EXCEPT ![r].stage = "apply"] /\ UNCHANGED page
    <3>1. PICK new : new = [c EXCEPT !.stage = "apply"]
        OBVIOUS
    <3>2. /\ new \in RequestKind /\ new.stage = "apply" /\ new.op = c.op /\ new.attempt = c.attempt
          /\ new.question = c.question /\ new.heard = c.heard /\ new.option = c.option
          /\ practiceCall' = [practiceCall EXCEPT ![r] = new]
        BY <1>1, <2>3, <3>1 DEF RequestKind
    <3>3. new \in Requests
        BY <1>1, <2>1, <2>3, <3>2 DEF Requests, RequestFits
    <3> QED
        BY <2>1, <2>3, <3>2, <3>3, QuietKept
  <2>4. CASE c.op = "submit"
    <3>1. PICK new : new = [c EXCEPT !.stage = "answers", !.paper = practicePaper]
        OBVIOUS
    <3>2. /\ practiceCall' = [practiceCall EXCEPT ![r].stage = "answers", ![r].paper = practicePaper]
          /\ UNCHANGED page
        BY <1>5, <2>4 DEF Pra!ReadQuestions
    <3>3. /\ new \in RequestKind /\ new.stage = "answers" /\ new.op = c.op /\ new.attempt = c.attempt
          /\ new.question = c.question /\ new.heard = c.heard /\ new.paper = practicePaper
          /\ practiceCall' = [practiceCall EXCEPT ![r] = new]
        BY <1>1, <3>1, <3>2 DEF RequestKind, PracticeTyped
    <3>4. new \in Requests
        BY <1>1, <2>1, <2>4, <3>3 DEF Requests, RequestFits, PracticeTyped
    <3> QED
        BY <2>1, <3>2, <3>3, <3>4, QuietKept
  <2> QED
      BY <1>5, <2>2, <2>3, <2>4 DEF Pra!ReadQuestions
<1>6. CASE Pra!Evaluate(r)
  <2>1. /\ UNCHANGED <<Pra!authoring, Pra!rows, Pra!history, page>> /\ faults' \in 0..MaxFaults
        /\ c.stage = "answers" /\ c.op = "submit"
      BY <1>1, <1>2, <1>3, <1>6 DEF Pra!Evaluate, RequestFits, RequestKind
  <2>2. PICK result : result = Pra!Evaluation(c.paper, practiceSheet[c.attempt])
      OBVIOUS
  <2>3. c.attempt \in PracticeTry /\ c.paper \in Pra!Paper /\ result \in PracticeMarked
    <3>1. c.attempt \in PracticeTry /\ c.paper \in Pra!Paper
        BY <1>1, <1>3, <2>1 DEF RequestFits
    <3>2. practiceSheet[c.attempt] \in Pra!Sheet
        BY <1>1, <3>1 DEF PracticeTyped
    <3> QED
        BY <2>2, <3>1, <3>2 DEF PracticeMarked
  <2>4. PICK new : new = [c EXCEPT !.stage = "apply", !.paper = None, !.result = result]
      OBVIOUS
  <2>5. practiceCall' = [practiceCall EXCEPT ![r].stage = "apply", ![r].paper = None, ![r].result = result]
      BY <1>6, <2>2 DEF Pra!Evaluate
  <2>6. /\ new \in RequestKind /\ new.stage = "apply" /\ new.op = "submit" /\ new.attempt = c.attempt
        /\ new.question = c.question /\ new.heard = c.heard /\ new.result = result
        /\ practiceCall' = [practiceCall EXCEPT ![r] = new]
      BY <1>1, <2>1, <2>3, <2>4, <2>5 DEF RequestKind, PracticeTyped
  <2>7. new \in Requests
      BY <1>3, <2>3, <2>6 DEF Requests, RequestFits
  <2> QED
      BY <2>1, <2>2, <2>6, <2>7, QuietKept
<1>7. CASE Pra!Fault(r)
  <2>1. /\ UNCHANGED <<Pra!authoring, Pra!rows, Pra!history>> /\ Pra!Hear(r, FALSE)
        /\ faults < MaxFaults /\ faults' = faults + 1
      BY <1>7 DEF Pra!Fault
  <2>2. faults' \in 0..MaxFaults
      BY <1>1, <2>1 DEF PracticeFits, Pra!FaultBound
  <2> QED
      BY <1>1, <2>1, <2>2, HearReleases, QuietKept
<1> QED
    BY <1>4, <1>5, <1>6, <1>7

\* A save is stored; marking that read before is late.
Stores(r) ==
    LET a == practiceCall[r].attempt
        q == practiceCall[r].question IN
    /\ q \in Pra!Asked(practicePaper)
    /\ practiceSheet' = [practiceSheet EXCEPT ![a][q] = practiceCall[r].option]
    /\ late' = IF a \in Pra!Submitted \/ \E s \in PageRequest : practiceCall[s].attempt = a
                      /\ practiceCall[s].op = "submit" /\ practiceCall[s].stage = "apply"
                 THEN late \cup {a} ELSE late
    /\ UNCHANGED <<practiceStatus, practicePaper, practiceEditing, practiceAttempt>>

LEMMA StoresKept ==
    ASSUME PracticeFits, Practised, NEW r \in PageRequest, practiceCall[r].op = "save", Stores(r)
    PROVE  LET a == practiceCall[r].attempt
               q == practiceCall[r].question IN
           /\ a \in PracticeTry /\ q \in PracticeQuestion /\ practiceCall[r].option \in PracticeOption
           /\ practiceSheet' \in [PracticeTry -> Pra!Sheet] /\ practiceSheet'[a][q] = practiceCall[r].option
           /\ \A b \in PracticeTry, x \in PracticeQuestion :
                b # a \/ x # q => practiceSheet'[b][x] = practiceSheet[b][x]
           /\ \A b \in PracticeTry : b # a => practiceSheet'[b] = practiceSheet[b]
           /\ late' \subseteq PracticeTry /\ Pra!AnswersHaveQuestions'
<1> DEFINE a == practiceCall[r].attempt
           q == practiceCall[r].question
           o == practiceCall[r].option
<1>1. a \in PracticeTry /\ q \in PracticeQuestion /\ o \in PracticeOption
    BY RequestShape DEF Practised, RequestFits, PracticeFits, Pra!NoneIsNothing
<1>2. /\ practiceSheet \in [PracticeTry -> Pra!Sheet] /\ q \in Pra!Asked(practicePaper)
      /\ practiceSheet' = [practiceSheet EXCEPT ![a][q] = o] /\ UNCHANGED practicePaper
    BY DEF Practised, PracticeTyped, Stores
<1>3. late' \subseteq PracticeTry
    BY <1>1 DEF Practised, PracticeTyped, Stores
<1> HIDE DEF a, q, o
<1>4. PICK new : new = [practiceSheet[a] EXCEPT ![q] = o]
    OBVIOUS
<1>5. /\ new \in Pra!Sheet /\ new[q] = o /\ \A x \in PracticeQuestion : x # q => new[x] = practiceSheet[a][x]
      /\ practiceSheet' = [practiceSheet EXCEPT ![a] = new]
    BY <1>1, <1>2, <1>4 DEF Pra!Sheet
<1>6. /\ practiceSheet' \in [PracticeTry -> Pra!Sheet] /\ practiceSheet'[a][q] = o
      /\ \A b \in PracticeTry, x \in PracticeQuestion :
           b # a \/ x # q => practiceSheet'[b][x] = practiceSheet[b][x]
      /\ \A b \in PracticeTry : b # a => practiceSheet'[b] = practiceSheet[b]
    BY <1>1, <1>2, <1>5
<1>7. Pra!AnswersHaveQuestions'
    BY <1>1, <1>2, <1>6 DEF Practised, Pra!AnswersHaveQuestions, Pra!Asked
<1> QED
    BY <1>1, <1>3, <1>6, <1>7 DEF a, q, o

LEMMA StoresMarks ==
    ASSUME PracticeFits, Practised, NEW r \in PageRequest, practiceCall[r].op = "save", Stores(r),
           \A s \in PageRequest : practiceCall'[s].op = "submit" => practiceCall'[s] = practiceCall[s]
    PROVE  MarksRead'
<1> DEFINE a == practiceCall[r].attempt
<1>1. \A b \in PracticeTry : b # a => practiceSheet'[b] = practiceSheet[b]
    BY StoresKept
<1>2. /\ UNCHANGED <<practicePaper, practiceAttempt>> /\ late \subseteq late'
      /\ a \notin late' =>
           /\ a \notin Pra!Submitted
           /\ \A s \in PageRequest : ~(practiceCall[s].attempt = a /\ practiceCall[s].op = "submit"
                                         /\ practiceCall[s].stage = "apply")
    BY DEF Stores
<1> HIDE DEF a
<1>3. \A b \in Pra!Submitted' \ late' :
         practiceAttempt'[b].result = Pra!Evaluation(practicePaper', practiceSheet'[b])
    BY <1>1, <1>2 DEF Practised, MarksRead, Pra!Submitted
<1>4. ASSUME NEW s \in PageRequest, practiceCall'[s].op = "submit", practiceCall'[s].attempt \notin late'
      PROVE  /\ practiceCall'[s].stage = "answers" => practiceCall'[s].paper = practicePaper'
             /\ practiceCall'[s].stage = "apply" =>
                  practiceCall'[s].result = Pra!Evaluation(practicePaper', practiceSheet'[practiceCall'[s].attempt])
  <2>1. practiceCall'[s] = practiceCall[s] /\ practiceCall[s].attempt \in PracticeTry
      BY <1>4, RequestShape DEF Practised, RequestFits, PracticeFits, Pra!NoneIsNothing
  <2> QED
      BY <1>1, <1>2, <1>4, <2>1 DEF Practised, MarksRead
<1> QED
    BY <1>3, <1>4 DEF MarksRead

\* An answer is stored and nobody waits to hear of it, or it is heard as a failure: it is unsure.
LEMMA StoredUnheard ==
    ASSUME PracticeFits, Practised, NEW r \in PageRequest, practiceCall[r].op = "save", Stores(r), Released(r),
           faults' \in 0..MaxFaults, unsure' \subseteq PracticeTry \X PracticeQuestion, unsure \subseteq unsure',
           <<practiceCall[r].attempt, practiceCall[r].question>> \in unsure'
    PROVE  Practised'
<1>1. /\ practiceSheet' \in [PracticeTry -> Pra!Sheet] /\ late' \subseteq PracticeTry
      /\ Pra!AnswersHaveQuestions'
      /\ \A b \in PracticeTry, x \in PracticeQuestion :
           <<b, x>> \notin unsure' => practiceSheet'[b][x] = practiceSheet[b][x]
    BY StoresKept
<1>2. /\ practiceCall' \in [PageRequest -> Requests] /\ page' \in PageKind /\ PageTold'
      /\ \A s \in PageRequest : practiceCall'[s].op = "submit" => practiceCall'[s] = practiceCall[s]
    BY <1>1, ReleasedKept DEF Practised
<1>3. MarksRead'
    BY <1>2, StoresMarks
<1> QED
    BY <1>1, <1>2, <1>3 DEF Practised, PracticeTyped, Stores

\* An answer is stored and its page hears of it.
LEMMA StoredHeard ==
    ASSUME PracticeFits, Practised, NEW r \in PageRequest, practiceCall[r].op = "save", practiceCall[r].heard,
           Stores(r), Pra!Acknowledge(r), UNCHANGED <<faults, unsure>>
    PROVE  Practised'
<1> DEFINE c == practiceCall[r]
           q == c.question
<1>1. /\ c \in RequestKind /\ c.attempt \in PracticeTry /\ q \in PracticeQuestion /\ c.option \in PracticeOption
      /\ c.option # None /\ c.attempt = page.attempt /\ page.saves[q] = "saving"
      /\ page.chosen[q] \in PracticeOption
    BY RequestShape, StoresKept DEF Practised, PageTold, ToldOf, Awaited, PracticeFits, Pra!PaperAssumption
<1>2. /\ page \in PageKind /\ page.saves \in [PracticeQuestion -> Pra!SaveState]
      /\ page.acked \in Pra!Choice
    BY DEF Practised, PracticeTyped, PageKind
<1>3. PICK acked \in Pra!Choice, saves \in [PracticeQuestion -> Pra!SaveState], new \in Requests :
         /\ page' \in PageKind /\ page'.attempt = page.attempt /\ page'.chosen = page.chosen
         /\ page'.acked = acked /\ page'.saves = saves
         /\ acked[q] = c.option /\ \A x \in PracticeQuestion \ {q} : acked[x] = page.acked[x] /\ saves[x] = page.saves[x]
         /\ practiceCall' = [practiceCall EXCEPT ![r] = new]
         /\ \/ saves[q] = "saved" /\ page.chosen[q] = c.option /\ new = Pra!Idle
            \/ saves[q] = "saving" /\ new.op = "save" /\ new.heard /\ new.attempt = c.attempt /\ new.question = q
  <2> DEFINE acked == [page.acked EXCEPT ![q] = c.option]
             saved == [page.saves EXCEPT ![q] = "saved"]
  <2>1. /\ acked \in Pra!Choice /\ saved \in [PracticeQuestion -> Pra!SaveState] /\ acked[q] = c.option
        /\ saved[q] = "saved" /\ \A x \in PracticeQuestion \ {q} : acked[x] = page.acked[x] /\ saved[x] = page.saves[x]
      BY <1>1, <1>2 DEF Pra!Choice, Pra!SaveState
  <2>2. CASE page.chosen[q] = c.option
    <3>1. page' = [page EXCEPT !.acked = acked, !.saves = saved] /\ practiceCall' = [practiceCall EXCEPT ![r] = Pra!Idle]
        BY <1>2, <2>2 DEF Pra!Acknowledge, PageKind
    <3> HIDE DEF acked, saved, c, q
    <3>2. /\ page' \in PageKind /\ page'.attempt = page.attempt /\ page'.chosen = page.chosen
          /\ page'.acked = acked /\ page'.saves = saved
        BY <1>2, <2>1, <3>1 DEF PageKind
    <3> QED
        BY <2>1, <2>2, <3>1, <3>2, BlankFits
  <2>3. CASE page.chosen[q] # c.option
    <3>1. /\ page' = [page EXCEPT !.acked = acked]
          /\ practiceCall' = [practiceCall EXCEPT ![r].stage = "load", ![r].option = page.chosen[q]]
        BY <1>2, <2>3 DEF Pra!Acknowledge, PageKind
    <3>2. PICK new : new = [c EXCEPT !.stage = "load", !.option = page.chosen[q]]
        OBVIOUS
    <3>3. practiceCall' = [practiceCall EXCEPT ![r] = new]
        BY <1>1, <3>1, <3>2 DEF RequestKind, Practised, PracticeTyped
    <3>4. /\ new \in RequestKind /\ new.op = "save" /\ new.heard /\ new.attempt = c.attempt /\ new.question = q
          /\ new.stage = "load" /\ new.option = page.chosen[q]
        BY <1>1, <3>2 DEF RequestKind
    <3>5. new \in Requests
        BY <1>1, <3>4 DEF Requests, RequestFits, PracticeFits, Pra!NoneIsNothing
    <3> HIDE DEF acked, saved, c, q
    <3>6. /\ page' \in PageKind /\ page'.attempt = page.attempt /\ page'.chosen = page.chosen
          /\ page'.acked = acked /\ page'.saves = page.saves
        BY <1>2, <2>1, <3>1 DEF PageKind
    <3>7. page.saves[q] = "saving" /\ \A x \in PracticeQuestion \ {q} : acked[x] = page.acked[x]
        BY <1>1, <2>1
    <3> USE <1>2, <2>1, <3>5
    <3> WITNESS acked \in Pra!Choice, page.saves \in [PracticeQuestion -> Pra!SaveState], new \in Requests
    <3> QED
        BY <2>1, <3>3, <3>4, <3>6, <3>7
  <2> QED
      BY <2>2, <2>3
<1>4. /\ practiceSheet'[page.attempt][q] = c.option
      /\ \A x \in PracticeQuestion : x # q => practiceSheet'[page.attempt][x] = practiceSheet[page.attempt][x]
      /\ practiceSheet' \in [PracticeTry -> Pra!Sheet] /\ late' \subseteq PracticeTry
      /\ Pra!AnswersHaveQuestions'
    BY <1>1, StoresKept
<1>5. /\ practiceCall' \in [PageRequest -> Requests] /\ practiceCall'[r] = new
      /\ \A s \in PageRequest : s # r => practiceCall'[s] = practiceCall[s]
    BY <1>3 DEF Practised, PracticeTyped
<1> HIDE DEF c, q
<1>6. ASSUME NEW x \in PracticeQuestion PROVE ToldOf(x)'
  <2>1. ToldOf(x) /\ page.attempt \in PracticeTry
      BY <1>1 DEF Practised, PageTold
  <2>2. CASE x = q
      BY <1>1, <1>3, <1>4, <2>1, <2>2 DEF ToldOf
  <2>3. CASE x # q
      BY <1>3, <1>4, <2>1, <2>3 DEF ToldOf
  <2> QED
      BY <2>2, <2>3
<1>7. ASSUME NEW s \in PageRequest, s # r, practiceCall[s].op = "save"
      PROVE  /\ Awaited(s)'
             /\ practiceCall[s].heard => practiceCall[s].question # q
  <2>1. practiceCall[s].question \in PracticeQuestion /\ Awaited(s) /\ OneSave(s, r)
      BY <1>7, RequestShape DEF Practised, PageTold, RequestFits
  <2>2. practiceCall[s].heard => practiceCall[s].question # q
      BY <1>7, <2>1 DEF OneSave, HeardSave, q, c
  <2>3. practiceCall'[s] = practiceCall[s]
      BY <1>5, <1>7
  <2>4. CASE practiceCall[s].heard
      BY <1>3, <2>1, <2>2, <2>3, <2>4, <1>7 DEF Awaited
  <2>5. CASE ~practiceCall[s].heard
      BY <2>1, <2>3, <2>5, <1>7 DEF Awaited
  <2> QED
      BY <2>2, <2>4, <2>5
<1>8. new.op # "save" \/ (new.op = "save" /\ new.heard /\ new.attempt = page.attempt /\ new.question = q /\ page'.saves[q] = "saving")
    BY <1>1, <1>3, BlankFits DEF PracticeFits, Pra!NoneIsNothing
<1>9. ASSUME NEW s \in PageRequest PROVE Awaited(s)'
  <2>1. CASE s = r
      BY <1>3, <1>5, <1>8, <2>1 DEF Awaited
  <2>2. CASE s # r
      BY <1>5, <1>7, <2>2 DEF Awaited
  <2> QED
      BY <2>1, <2>2
<1>10. ASSUME NEW s \in PageRequest, NEW z \in PageRequest PROVE OneSave(s, z)'
  <2>1. OneSave(s, z)
      BY DEF Practised, PageTold
  <2>2. \A t \in PageRequest : t # r /\ practiceCall[t].op = "save" /\ practiceCall[t].heard => practiceCall[t].question # q
      BY <1>7
  <2> QED
      BY <1>5, <1>8, <2>1, <2>2 DEF OneSave, HeardSave
<1>11. \A s \in PageRequest : practiceCall'[s].op = "submit" => practiceCall'[s] = practiceCall[s]
    BY <1>3, <1>5, BlankFits DEF PracticeFits, Pra!NoneIsNothing
<1>12. MarksRead'
    BY <1>11, StoresMarks
<1>13. PageTold'
    BY <1>6, <1>9, <1>10 DEF PageTold
<1> QED
    BY <1>3, <1>4, <1>5, <1>12, <1>13 DEF Practised, PracticeTyped, Stores

LEMMA ApplyKept ==
    ASSUME PracticeFits, Practised, NEW r \in PageRequest, Pra!ApplyAnswer(r)
    PROVE  Practised'
<1>1. /\ practiceCall[r].op = "save" /\ practiceCall[r] \in RequestKind /\ PracticeTyped
      /\ practiceCall[r].attempt \in PracticeTry
      /\ UNCHANGED <<practiceStatus, practicePaper, practiceEditing, practiceAttempt, faults, unsure>>
      /\ faults \in 0..MaxFaults /\ unsure \subseteq PracticeTry \X PracticeQuestion
    BY RequestShape DEF Pra!ApplyAnswer, Pra!authoring, Practised, PracticeTyped, RequestFits, PracticeFits,
        Pra!NoneIsNothing
<1>2. CASE practiceCall[r].question \notin Pra!Asked(practicePaper)
  <2>1. Pra!Hear(r, FALSE) /\ UNCHANGED <<Pra!authoring, Pra!rows, Pra!history>> /\ faults' \in 0..MaxFaults
      BY <1>1, <1>2 DEF Pra!ApplyAnswer, Pra!rows, Pra!history
  <2> QED
      BY <1>1, <2>1, HearReleases, QuietKept
<1>3. CASE practiceCall[r].question \in Pra!Asked(practicePaper)
  <2>1. Stores(r) /\ Pra!Hear(r, TRUE)
      BY <1>1, <1>3 DEF Pra!ApplyAnswer, Stores
  <2>2. CASE practiceCall[r].heard
    <3>1. Pra!Acknowledge(r)
        BY <1>1, <2>1, <2>2 DEF Pra!Hear
    <3> QED
        BY <1>1, <2>1, <2>2, <3>1, StoredHeard
  <2>3. CASE ~practiceCall[r].heard
    <3>1. Released(r)
        BY <1>1, <2>1, <2>3, HearReleases
    <3>2. <<practiceCall[r].attempt, practiceCall[r].question>> \in unsure
        BY <1>1, <2>3 DEF Practised, PageTold, Awaited
    <3> QED
        BY <1>1, <2>1, <3>1, <3>2, StoredUnheard
  <2> QED
      BY <2>2, <2>3
<1> QED
    BY <1>2, <1>3

\* The result of an attempt in progress is stored.
LEMMA ResultKeeps ==
    ASSUME PracticeFits, Practised, NEW r \in PageRequest, practiceCall[r].op = "submit",
           practiceCall[r].stage = "apply",
           practiceAttempt' = [practiceAttempt EXCEPT ![practiceCall[r].attempt] =
                                  [status |-> "SUBMITTED", result |-> practiceCall[r].result]],
           Released(r), faults' \in 0..MaxFaults,
           UNCHANGED <<practiceStatus, practicePaper, practiceEditing, practiceSheet, late, unsure>>
    PROVE  Practised'
<1> DEFINE a == practiceCall[r].attempt
           new == [status |-> "SUBMITTED", result |-> practiceCall[r].result]
<1>1. a \in PracticeTry /\ practiceCall[r].result \in PracticeMarked
    BY RequestShape DEF Practised, RequestFits, PracticeFits, Pra!NoneIsNothing
<1>2. new \in TryKind /\ new.status = "SUBMITTED" /\ new.result = practiceCall[r].result /\ new.result # None
    BY <1>1 DEF TryKind, Pra!TryStatus, PracticeMarked, PracticeFits, Pra!NullIsNoResult
<1>3. a \notin late => practiceCall[r].result = Pra!Evaluation(practicePaper, practiceSheet[a])
    BY DEF Practised, MarksRead
<1>4. practiceAttempt' = [practiceAttempt EXCEPT ![a] = new]
    OBVIOUS
<1> HIDE DEF a, new
<1>5. /\ practiceAttempt' \in [PracticeTry -> TryKind] /\ practiceAttempt'[a] = new
      /\ \A b \in PracticeTry : b # a => practiceAttempt'[b] = practiceAttempt[b]
    BY <1>1, <1>2, <1>4 DEF Practised, PracticeTyped
<1>6. /\ practiceCall' \in [PageRequest -> Requests] /\ page' \in PageKind /\ PageTold'
      /\ \A s \in PageRequest : practiceCall'[s].op = "submit" => practiceCall'[s] = practiceCall[s]
    BY ReleasedKept DEF Practised
<1>7. PracticeTyped'
    BY <1>2, <1>5, <1>6 DEF Practised, PracticeTyped
<1>8. MarksRead'
  <2>1. \A s \in PageRequest : practiceCall[s].op = "submit" => practiceCall[s].attempt \in PracticeTry
      BY RequestShape DEF Practised, RequestFits, PracticeFits, Pra!NoneIsNothing
  <2>2. \A b \in PracticeTry : practiceAttempt'[b].status = "SUBMITTED" /\ b \notin late =>
               \/ practiceAttempt'[b] = practiceAttempt[b]
               \/ practiceAttempt'[b].result = Pra!Evaluation(practicePaper, practiceSheet[b])
      BY <1>2, <1>3, <1>5
  <2> QED
      BY <1>6, <2>1, <2>2, MarksKept DEF Practised
<1>9. Pra!AnswersHaveQuestions'
    BY DEF Practised, Pra!AnswersHaveQuestions, Pra!Asked
<1> QED
    BY <1>6, <1>7, <1>8, <1>9 DEF Practised

LEMMA SubmitKept ==
    ASSUME PracticeFits, Practised, NEW r \in PageRequest, Pra!Submit(r)
    PROVE  Practised'
<1>1. /\ practiceCall[r].op = "submit" /\ practiceCall[r].stage = "apply" /\ PracticeTyped
      /\ UNCHANGED <<practiceStatus, practicePaper, practiceEditing, practiceSheet, late, unsure>>
      /\ faults \in 0..MaxFaults /\ faults' = faults
    BY DEF Pra!Submit, Pra!authoring, Pra!history, Practised, PracticeTyped
<1>2. CASE practiceAttempt[practiceCall[r].attempt].status = "IN_PROGRESS"
  <2>1. Released(r)
      BY <1>1, <1>2, HearReleases DEF Pra!Submit
  <2> QED
      BY <1>1, <1>2, <2>1, ResultKeeps DEF Pra!Submit
<1>3. CASE practiceAttempt[practiceCall[r].attempt].status # "IN_PROGRESS"
  <2>1. Pra!Hear(r, FALSE) /\ UNCHANGED <<Pra!authoring, Pra!rows, Pra!history>>
      BY <1>3 DEF Pra!Submit, Pra!rows
  <2> QED
      BY <1>1, <2>1, HearReleases, QuietKept
<1> QED
    BY <1>2, <1>3

LEMMA LoseKept ==
    ASSUME PracticeFits, Practised, NEW r \in PageRequest, Pra!LoseReply(r)
    PROVE  Practised'
<1>1. /\ practiceCall[r].stage = "apply" /\ PracticeTyped /\ Pra!Hear(r, FALSE)
      /\ faults < MaxFaults /\ faults' = faults + 1 /\ faults \in 0..MaxFaults
      /\ UNCHANGED <<practiceStatus, practicePaper, practiceEditing>>
    BY DEF Pra!LoseReply, Pra!authoring, Practised, PracticeTyped
<1>2. faults' \in 0..MaxFaults
    BY <1>1 DEF PracticeFits, Pra!FaultBound
<1>3. Released(r)
    BY <1>1, HearReleases
<1>4. practiceCall[r] \in RequestKind /\ RequestFits(practiceCall[r])
    BY RequestShape DEF Practised
<1>5. CASE practiceCall[r].op = "save"
  <2>1. practiceCall[r].attempt \in PracticeTry /\ practiceCall[r].question \in PracticeQuestion
      BY <1>4, <1>5 DEF RequestFits, PracticeFits, Pra!NoneIsNothing
  <2>2. Stores(r) /\ unsure' = unsure \cup {<<practiceCall[r].attempt, practiceCall[r].question>>}
      BY <1>1, <1>5 DEF Pra!LoseReply, Stores
  <2>3. unsure' \subseteq PracticeTry \X PracticeQuestion
      BY <2>1, <2>2 DEF Practised, PracticeTyped
  <2> QED
      BY <1>2, <1>3, <1>5, <2>2, <2>3, StoredUnheard
<1>6. CASE practiceCall[r].op # "save"
  <2>1. practiceCall[r].op = "submit"
      BY <1>1, <1>4, <1>6 DEF RequestKind, RequestFits, Pra!Idle, PracticeFits, Pra!NoneIsNothing
  <2>2. /\ practiceAttempt' = [practiceAttempt EXCEPT ![practiceCall[r].attempt] =
                                  [status |-> "SUBMITTED", result |-> practiceCall[r].result]]
        /\ UNCHANGED <<practiceSheet, late, unsure>>
      BY <1>6 DEF Pra!LoseReply, Pra!history
  <2> QED
      BY <1>1, <1>2, <1>3, <2>1, <2>2, ResultKeeps
<1> QED
    BY <1>5, <1>6

LEMMA PractisedInductive ==
    ASSUME PracticeFits, Practised, [Pra!Next]_(Pra!vars)
    PROVE  Practised'
<1>1. ASSUME NEW r \in PageRequest, NEW q \in PracticeQuestion, Pra!RetrySave(r, q) PROVE Practised'
  <2>1. /\ Pra!Persist(r, q, page.chosen[q]) /\ page.saves[q] = "error"
        /\ UNCHANGED <<Pra!authoring, Pra!rows, faults, Pra!history>>
      BY <1>1 DEF Pra!RetrySave
  <2>2. page.attempt \in PracticeTry /\ page.chosen[q] \in PracticeOption
      BY <2>1 DEF Practised, PageTold, ToldOf
  <2> QED
      BY <2>1, <2>2, PersistKept
<1>2. ASSUME NEW r \in PageRequest, NEW q \in PracticeQuestion, NEW o \in PracticeOption, Pra!Select(r, q, o)
      PROVE  Practised'
  <2>1. page.attempt \in PracticeTry
      BY <1>2 DEF Pra!Select, Practised, PracticeTyped, PageKind
  <2> QED
      BY <1>2, <2>1, PersistKept DEF Pra!Select
<1>3. CASE UNCHANGED Pra!vars
  <2>1. /\ UNCHANGED <<practiceStatus, practicePaper, practiceEditing, practiceAttempt, practiceSheet>>
        /\ UNCHANGED <<practiceCall, page, faults, late, unsure>>
      BY <1>3 DEF Pra!vars, Pra!authoring, Pra!rows, Pra!history
  <2>2. PracticeTyped' /\ MarksRead' /\ Pra!AnswersHaveQuestions'
      BY <2>1 DEF Practised, PracticeTyped, MarksRead, Pra!Submitted, Pra!AnswersHaveQuestions, Pra!Asked
  <2>3. PageTold'
      BY <2>1 DEF Practised, PageTold, ToldOf, Awaited, OneSave, HeardSave
  <2> QED
      BY <2>2, <2>3 DEF Practised
<1>4. CASE Pra!Authoring
    BY <1>4, AuthoringKept
<1>5. ASSUME NEW a \in PracticeTry, Pra!StartAttempt(a) \/ Pra!OpenPage(a) PROVE Practised'
    BY <1>5, StartKept, OpenKept
<1>6. ASSUME NEW r \in PageRequest, Pra!Server(r) \/ Pra!Fault(r) \/ Pra!LoseReply(r) \/ Pra!ConfirmSubmit(r)
      PROVE  Practised'
    BY <1>6, ServedKept, ApplyKept, SubmitKept, LoseKept, SubmitSentKept DEF Pra!Server
<1> QED
    BY <1>1, <1>2, <1>3, <1>4, <1>5, <1>6 DEF Pra!Next

\* Whatever is edited, sent, lost or abandoned: what a page was told is stored unless it is
\* unsure, and what marking read is right unless something was written since.
THEOREM PracticeInvariant == ASSUME PracticeFits PROVE Pra!Spec => []Practised
BY PracticeInit, PractisedInductive, PTL DEF Pra!Spec

\* Every variable of practices and of the page keeps its type.
THEOREM PracticesTyped == ASSUME PracticeFits PROVE Pra!Spec => []Pra!TypeOK
<1>1. Practised => Pra!TypeOK
  <2> SUFFICES ASSUME Practised PROVE Pra!TypeOK
      OBVIOUS
  <2>1. /\ practiceStatus \in Pra!PracticeStatus /\ practicePaper \in Pra!Paper /\ practiceEditing \subseteq Author
        /\ practiceSheet \in [PracticeTry -> Pra!Sheet] /\ faults \in 0..MaxFaults
        /\ late \subseteq PracticeTry /\ unsure \subseteq PracticeTry \X PracticeQuestion
      BY DEF Practised, PracticeTyped
  <2>2. \A a \in PracticeTry :
         /\ practiceAttempt[a].status \in Pra!TryStatus
         /\ (practiceAttempt[a].result = None) = (practiceAttempt[a].status # "SUBMITTED")
      BY DEF Practised, PracticeTyped, TryKind
  <2>3. \A r \in PageRequest :
         /\ practiceCall[r].op \in {None, "save", "submit"}
         /\ practiceCall[r].stage \in {None, "load", "questions", "answers", "apply"}
      BY RequestShape DEF Practised, RequestKind
  <2>4. /\ page.attempt \in PracticeTry \cup {None} /\ page.paper \in Pra!Paper
        /\ page.chosen \in Pra!Choice /\ page.acked \in Pra!Choice
        /\ page.saves \in [PracticeQuestion -> Pra!SaveState] /\ page.submit \in Pra!SubmitState
      BY DEF Practised, PracticeTyped, PageKind
  <2> QED
      BY <2>1, <2>2, <2>3, <2>4 DEF Pra!TypeOK
<1> QED
    BY <1>1, PracticeInvariant, PTL

\* The option a page shows as saved is the one stored, unless a save of that question is of
\* unknown outcome (AttemptPage persistAnswer).
THEOREM SavedTruly == ASSUME PracticeFits PROVE Pra!Spec => []Pra!SavedIsStored
<1>1. Practised => Pra!SavedIsStored
  <2> SUFFICES ASSUME Practised, NEW q \in PracticeQuestion, page.saves[q] = "saved", page.attempt # None,
                      <<page.attempt, q>> \notin unsure
               PROVE  practiceSheet[page.attempt][q] = page.chosen[q]
      BY DEF Pra!SavedIsStored
  <2>1. ToldOf(q) /\ None \notin PracticeOption
      BY DEF Practised, PageTold, PracticeFits, Pra!PaperAssumption
  <2> QED
      BY <2>1 DEF ToldOf
<1> QED
    BY <1>1, PracticeInvariant, PTL

\* No answer is left without its question.
THEOREM AnswersAsked == ASSUME PracticeFits PROVE Pra!Spec => []Pra!AnswersHaveQuestions
<1>1. Practised => Pra!AnswersHaveQuestions
    BY DEF Practised
<1> QED
    BY <1>1, PracticeInvariant, PTL

-----------------------------------------------------------------------------
(* What the review of a practice shows *)

LEMMA PracticeCounts == \A S : Pra!Cardinality(S) = Cardinality(S)
BY DEF Pra!Cardinality, Cardinality

LEMMA PracticeMarksTotal ==
    ASSUME NEW p, NEW S, IsFiniteSet(S)
    PROVE  Pra!MarksOf(p, S) = Total([q \in S |-> p[q].marks], S)
<1> DEFINE F == [q \in S |-> p[q].marks]
           body(h) == [s \in SUBSET S |-> IF s = {} THEN 0
                          ELSE p[CHOOSE x \in s : TRUE].marks + h[s \ {CHOOSE x \in s : TRUE}]]
           it == CHOOSE h : h = body(h)
<1>1. Pra!MarksOf(p, S) = it[S]
    BY DEF Pra!MarksOf, Pra!MapThenSumSet, Pra!MapThenFoldSet
<1>2. ASSUME NEW h PROVE IsTotal(h, F, S) <=> h = body(h)
  <2>1. \A s \in SUBSET S : s # {} => F[Pick(s)] = p[CHOOSE x \in s : TRUE].marks
      BY DEF Pick
  <2>2. body(h) = [s \in SUBSET S |-> IF s = {} THEN 0 ELSE F[Pick(s)] + h[s \ {Pick(s)}]]
    <3> HIDE DEF F
    <3> QED
        BY <2>1 DEF Pick
  <2> HIDE DEF body, F
  <2> QED
      BY <2>2 DEF IsTotal
<1> HIDE DEF F, body
<1>3. \E h : h = body(h)
    BY <1>2, TotalExists
<1>4. IsTotal(it, F, S)
    BY <1>2, <1>3
<1> HIDE DEF it
<1> QED
    BY <1>1, <1>4, TotalOf DEF F

\* The marks a review awards.
AwardedSum(of) == Pra!MapThenSumSet(LAMBDA q : of[q].awarded, DOMAIN of)

LEMMA AwardedTotal ==
    ASSUME NEW e, NEW S, S = DOMAIN e, IsFiniteSet(S)
    PROVE  AwardedSum(e) = Total([q \in S |-> e[q].awarded], S)
<1> DEFINE F == [q \in S |-> e[q].awarded]
           body(h) == [s \in SUBSET S |-> IF s = {} THEN 0
                          ELSE e[CHOOSE x \in s : TRUE].awarded + h[s \ {CHOOSE x \in s : TRUE}]]
           it == CHOOSE h : h = body(h)
<1>1. AwardedSum(e) = it[S]
    BY DEF AwardedSum, Pra!MapThenSumSet, Pra!MapThenFoldSet
<1>2. ASSUME NEW h PROVE IsTotal(h, F, S) <=> h = body(h)
  <2>1. \A s \in SUBSET S : s # {} => F[Pick(s)] = e[CHOOSE x \in s : TRUE].awarded
      BY DEF Pick
  <2>2. body(h) = [s \in SUBSET S |-> IF s = {} THEN 0 ELSE F[Pick(s)] + h[s \ {Pick(s)}]]
    <3> HIDE DEF F
    <3> QED
        BY <2>1 DEF Pick
  <2> HIDE DEF body, F
  <2> QED
      BY <2>2 DEF IsTotal
<1> HIDE DEF F, body
<1>3. \E h : h = body(h)
    BY <1>2, TotalExists
<1>4. IsTotal(it, F, S)
    BY <1>2, <1>3
<1> HIDE DEF it
<1> QED
    BY <1>1, <1>4, TotalOf DEF F

\* The score, question by question, and the questions counted.
Shows(sum, of) ==
    /\ sum.score = AwardedSum(of)
    /\ sum.correct = Pra!Cardinality({q \in DOMAIN of : of[q].right})
    /\ sum.unanswered = Pra!Cardinality({q \in DOMAIN of : of[q].selected = None})
    /\ sum.incorrect = Pra!Cardinality({q \in DOMAIN of : ~of[q].right /\ of[q].selected # None})

LEMMA ReviewAdds ==
    ASSUME Pra!PaperAssumption, IsFiniteSet(PracticeQuestion), NEW p \in Pra!Paper, NEW s \in Pra!Sheet,
           NEW sum, sum = Pra!Evaluation(p, s), NEW of, of = Pra!Review(p, s)
    PROVE  Shows(sum, of)
<1> DEFINE asked == Pra!Asked(p)
           good == Pra!Right(p, s)
<1>1. /\ DOMAIN of = asked
      /\ \A q \in asked : /\ of[q].selected = s[q]
                          /\ of[q].right <=> s[q] = p[q].correct
                          /\ of[q].awarded = IF s[q] = p[q].correct THEN p[q].marks ELSE 0
    BY DEF Pra!Review
<1>2. good \in SUBSET asked /\ \A q \in asked : q \in good <=> s[q] = p[q].correct
    BY DEF Pra!Right
<1>3. IsFiniteSet(asked) /\ IsFiniteSet(good)
    BY <1>2, FS_Subset DEF Pra!Asked
<1>4. ASSUME NEW q \in asked PROVE p[q].marks \in Int
  <2>1. PICK r \in Pra!Row : r = p[q]
      BY DEF Pra!Asked
  <2>2. r.marks \in PracticeMarks /\ PracticeMarks \subseteq Nat
      BY DEF Pra!Row, Pra!PaperAssumption
  <2>3. r.marks \in Nat
      BY <2>2
  <2> HIDE DEF asked
  <2> QED
      BY <2>1, <2>3
<1>5. /\ sum.score = Pra!MarksOf(p, good)
      /\ sum.correct = Pra!Cardinality(good)
      /\ sum.incorrect = Pra!Cardinality(asked \ (good \cup Pra!Blank(p, s)))
      /\ sum.unanswered = Pra!Cardinality(Pra!Blank(p, s))
    BY DEF Pra!Evaluation
<1>6. Pra!Blank(p, s) = {q \in asked : s[q] = None}
    BY DEF Pra!Blank
<1> HIDE DEF asked, good
<1>7. sum.score = AwardedSum(of)
  <2> DEFINE F == [q \in asked |-> of[q].awarded]
             E == [q \in good |-> p[q].marks]
  <2>1. /\ \A q \in good : F[q] = E[q] /\ F[q] \in Int
        /\ \A q \in asked \ good : F[q] = 0
      BY <1>1, <1>2, <1>4
  <2>2. Pra!MarksOf(p, good) = Total(E, good)
      BY <1>3, PracticeMarksTotal
  <2>3. AwardedSum(of) = Total(F, asked)
      BY <1>1, <1>3, AwardedTotal
  <2> HIDE DEF F, E
  <2>4. Total(F, asked) = Total(E, good)
      BY <1>2, <1>3, <2>1, TotalOnly
  <2> QED
      BY <1>5, <2>2, <2>3, <2>4
<1>8. {q \in DOMAIN of : of[q].right} = good
    BY <1>1, <1>2
<1>9. {q \in DOMAIN of : of[q].selected = None} = Pra!Blank(p, s)
    BY <1>1, <1>6
<1>10. {q \in DOMAIN of : ~of[q].right /\ of[q].selected # None} = asked \ (good \cup Pra!Blank(p, s))
    BY <1>1, <1>2, <1>6
<1>11. /\ sum.correct = Pra!Cardinality({q \in DOMAIN of : of[q].right})
       /\ sum.unanswered = Pra!Cardinality({q \in DOMAIN of : of[q].selected = None})
       /\ sum.incorrect = Pra!Cardinality({q \in DOMAIN of : ~of[q].right /\ of[q].selected # None})
    BY <1>5, <1>8, <1>9, <1>10
<1> QED
    BY <1>7, <1>11 DEF Shows

\* The score that is stored is the one the review shows, question by question, unless an
\* answer or a question was written after marking had read it (submitAttempt, getResult).
THEOREM ReviewedTruly ==
    ASSUME PracticeFits, IsFiniteSet(PracticeQuestion) PROVE Pra!Spec => []Pra!ReviewAgrees
<1>1. Practised => Pra!ReviewAgrees
  <2> SUFFICES ASSUME Practised, NEW a \in Pra!Submitted \ late
               PROVE  Shows(Pra!ResultView(a).summary, Pra!ResultView(a).review)
      BY DEF Pra!ReviewAgrees, Shows, AwardedSum
  <2>1. /\ Pra!ResultView(a).summary = Pra!Evaluation(practicePaper, practiceSheet[a])
        /\ Pra!ResultView(a).review = Pra!Review(practicePaper, practiceSheet[a])
      BY DEF Practised, MarksRead, Pra!ResultView
  <2>2. practicePaper \in Pra!Paper /\ practiceSheet[a] \in Pra!Sheet /\ Pra!PaperAssumption
      BY DEF Practised, PracticeTyped, Pra!Submitted, PracticeFits
  <2>3. PICK sum, of : sum = Pra!ResultView(a).summary /\ of = Pra!ResultView(a).review
      OBVIOUS
  <2>4. Shows(sum, of)
      BY <2>1, <2>2, <2>3, ReviewAdds
  <2> QED
      BY <2>3, <2>4
<1> QED
    BY <1>1, PracticeInvariant, PTL

-----------------------------------------------------------------------------
(* What a practice keeps *)

\* Each id has its attempt.
AttemptsThere == practiceAttempt = [a \in PracticeTry |-> practiceAttempt[a]]

LEMMA AttemptsStep ==
    ASSUME Pra!NoneIsNothing, AttemptsThere, [Pra!Next]_(Pra!vars)
    PROVE  AttemptsThere' /\ Pra!ResultKept /\ Pra!PaperSettles
<1>1. CASE UNCHANGED <<practiceStatus, practicePaper, practiceEditing, practiceAttempt>>
    BY <1>1 DEF AttemptsThere, Pra!ResultKept, Pra!PaperSettles
<1>2. CASE Pra!Authoring
    BY <1>2
    DEF Pra!Authoring, Pra!PublishPractice, Pra!ArchivePractice, Pra!OpenDraft, Pra!RefuseQuestion,
        Pra!AddQuestion, Pra!UpdateQuestion,
        Pra!DeleteQuestion, Pra!Written, Pra!rows, AttemptsThere, Pra!ResultKept, Pra!PaperSettles
<1>3. ASSUME NEW a \in PracticeTry, Pra!StartAttempt(a) PROVE AttemptsThere' /\ Pra!ResultKept /\ Pra!PaperSettles
    <2>1. \A b \in Pra!Submitted : b # a
        BY <1>3 DEF Pra!StartAttempt, Pra!Submitted, Pra!NoneIsNothing
    <2> QED
        BY <1>3, <2>1
            DEF Pra!StartAttempt, Pra!authoring, AttemptsThere, Pra!ResultKept, Pra!PaperSettles,
            Pra!Submitted
<1>4. ASSUME NEW r \in PageRequest, Pra!Submit(r) \/ Pra!LoseReply(r)
      PROVE  AttemptsThere' /\ Pra!ResultKept /\ Pra!PaperSettles
    <2>1. /\ UNCHANGED Pra!authoring
          /\ \/ practiceAttempt' = practiceAttempt
             \/ \E new : /\ practiceAttempt[practiceCall[r].attempt].status = "IN_PROGRESS"
                         /\ practiceAttempt' = [practiceAttempt EXCEPT ![practiceCall[r].attempt] = new]
        BY <1>4 DEF Pra!Submit, Pra!LoseReply
    <2> QED
        BY <2>1 DEF Pra!authoring, AttemptsThere, Pra!ResultKept, Pra!PaperSettles, Pra!Submitted
<1>5. CASE \E r \in PageRequest : Pra!LoadAttempt(r) \/ Pra!ReadQuestions(r) \/ Pra!ApplyAnswer(r)
                                       \/ Pra!Evaluate(r) \/ Pra!Fault(r)
                                  \/ Pra!ConfirmSubmit(r)
    BY <1>1, <1>5 DEF Pra!LoadAttempt, Pra!ReadQuestions, Pra!ApplyAnswer, Pra!Evaluate, Pra!Fault,
        Pra!ConfirmSubmit, Pra!authoring, Pra!rows
<1>6. CASE \/ \E r \in PageRequest, q \in PracticeQuestion : Pra!RetrySave(r, q)
           \/ \E r \in PageRequest, q \in PracticeQuestion, o \in PracticeOption : Pra!Select(r, q, o)
           \/ \E a \in PracticeTry : Pra!OpenPage(a)
           \/ UNCHANGED Pra!vars
    BY <1>1, <1>6 DEF Pra!RetrySave, Pra!Select, Pra!OpenPage, Pra!authoring, Pra!rows, Pra!vars
<1> QED
    BY <1>2, <1>3, <1>4, <1>5, <1>6 DEF Pra!Next, Pra!Server

LEMMA AttemptsInit == Pra!Init => AttemptsThere
BY DEF Pra!Init, AttemptsThere

\* A practice result never changes, and a published paper is settled by its open requests.
THEOREM PracticeStays ==
    ASSUME Pra!NoneIsNothing
    PROVE Pra!Spec => [][Pra!ResultKept /\ Pra!PaperSettles]_(Pra!vars)
<1>1. AttemptsThere /\ [Pra!Next]_(Pra!vars) => AttemptsThere' /\ [Pra!ResultKept /\ Pra!PaperSettles]_(Pra!vars)
    BY AttemptsStep
<1> QED
    BY <1>1, AttemptsInit, PTL DEF Pra!Spec

-----------------------------------------------------------------------------
(* Progress *)

LEMMA ShownFinite == \A S : Pro!IsFiniteSet(S) = IsFiniteSet(S)
BY DEF Pro!IsFiniteSet, IsFiniteSet

LEMMA ShownCardinal == \A S : Pro!Cardinality(S) = Cardinality(S)
BY DEF Pro!Cardinality, Cardinality



Try == [of : Pro!Work \cup {None}, status : {None, "IN_PROGRESS", "SUBMITTED"},
        right : {h.right : h \in Answers} \cup {{}}, wrong : {h.wrong : h \in Answers} \cup {{}}]
Moment == [status : [Practice -> {"DRAFT", "PUBLISHED", "ARCHIVED"}], attempt : [ProgressAttempt -> Try]]

\* The moments a request may see are in order, and the last one is now.
Watched ==
    /\ shownStatus \in [Practice -> {"DRAFT", "PUBLISHED", "ARCHIVED"}] /\ tried \in [ProgressAttempt -> Try]
    /\ moments \in Seq(Moment)
    /\ \A i, j \in 1..Len(moments) : i <= j => Pro!Completed(moments[i]) \subseteq Pro!Completed(moments[j])
    /\ asking # None => Len(moments) > 0 /\ moments[Len(moments)] = Pro!Now
    /\ Pro!CoverageTimely

\* What is handed in stays handed in, of the same work and with all its answers, right or wrong.
StaysIn(t, u) ==
    \A a \in Pro!Submitted(t) :
        /\ a \in Pro!Submitted(u) /\ u.attempt[a].of = t.attempt[a].of
        /\ Pro!Answered(t.attempt[a]) \subseteq Pro!Answered(u.attempt[a])

LEMMA StaysCompleted ==
    ASSUME NEW t, NEW u, StaysIn(t, u)
    PROVE  Pro!Completed(t) \subseteq Pro!Completed(u)
BY DEF StaysIn, Pro!Completed, Pro!OfPractice, Pro!Submitted

LEMMA MoreCounts ==
    ASSUME NEW S, NEW T, S \subseteq T, IsFiniteSet(T)
    PROVE  /\ Cardinality(S) \in Nat /\ Cardinality(T) \in Nat
           /\ Cardinality(S) <= Cardinality(T)
BY FS_Subset, FS_CardinalityType

\* A concept stays a repeated mistake while none of the mistakes counted is made right.
LEMMA StaysRepeated ==
    ASSUME Pro!Finite, NEW t, NEW u, StaysIn(t, u), NEW k \in Concept, k \in Pro!Repeated(t),
           \A x \in Pro!Mistakes(t, k) : x[2] \notin u.attempt[x[1]].right
    PROVE  k \in Pro!Repeated(u)
<1>1. PICK R, S : R = Pro!Mistakes(t, k) /\ S = Pro!Mistakes(u, k)
    OBVIOUS
<1> DEFINE asked(v, rows) == {<<v.attempt[x[1]].of, x[2]>> : x \in rows}
           tries(rows) == {x[1] : x \in rows}
<1>2. /\ Cardinality(R) >= 3 /\ Cardinality(asked(t, R)) >= 3 /\ Cardinality(tries(R)) >= 2
    BY <1>1, ShownCardinal DEF Pro!Repeated
<1>3. R \subseteq S /\ \A x \in R : u.attempt[x[1]].of = t.attempt[x[1]].of
    <2> SUFFICES ASSUME NEW x \in R PROVE x \in S /\ u.attempt[x[1]].of = t.attempt[x[1]].of
        OBVIOUS
    <2>1. /\ x \in Pro!Submitted(t) \X ProgressQuestion /\ x[1] \in Pro!Submitted(t)
          /\ x[2] \in t.attempt[x[1]].wrong /\ x[2] \notin u.attempt[x[1]].right
        BY <1>1 DEF Pro!Mistakes
    <2>2. x \in Pro!Submitted(u) \X ProgressQuestion /\ u.attempt[x[1]].of = t.attempt[x[1]].of
        BY <2>1 DEF StaysIn
    <2>3. x[2] \in u.attempt[x[1]].wrong
        BY <2>1 DEF StaysIn, Pro!Answered
    <2> QED
        BY <1>1, <2>1, <2>2, <2>3 DEF Pro!Mistakes
<1>4. IsFiniteSet(S)
    <2>1. IsFiniteSet(ProgressAttempt \X ProgressQuestion)
        BY FS_Product, ShownFinite DEF Pro!Finite
    <2>2. S \in SUBSET (ProgressAttempt \X ProgressQuestion)
        BY <1>1 DEF Pro!Mistakes, Pro!Submitted
    <2> QED
        BY <2>1, <2>2, FS_Subset
<1>5. asked(t, R) \subseteq asked(u, S) /\ tries(R) \subseteq tries(S)
    BY <1>3
<1>6. IsFiniteSet(asked(u, S)) /\ IsFiniteSet(tries(S))
    <2>1. [x \in S |-> <<u.attempt[x[1]].of, x[2]>>] \in Surjection(S, asked(u, S))
        BY DEF Surjection
    <2>2. [x \in S |-> x[1]] \in Surjection(S, tries(S))
        BY DEF Surjection
    <2> QED
        BY <1>4, <2>1, <2>2, FS_Surjection
<1> HIDE DEF asked, tries
<1>7. Cardinality(S) >= 3 /\ Cardinality(asked(u, S)) >= 3 /\ Cardinality(tries(S)) >= 2
    BY <1>2, <1>3, <1>4, <1>5, <1>6, MoreCounts
<1> QED
    BY <1>1, <1>7, ShownCardinal DEF Pro!Repeated, asked, tries

\* A topic is completed when what is available in it is done, and unfinished when some is not.
LEMMA TopicSays ==
    ASSUME Pro!Finite, Pro!NoneIsNothing, Pro!NodesHold, NEW n \in Chapter, NEW av \in SUBSET Practice, NEW done
    PROVE  LET says == Pro!BuildUnfinished(Pro!BuildProgress(av, done))[n] IN
           /\ says = "COMPLETED" => av \cap Under[n] \subseteq done
           /\ says = "UNFINISHED" => ~(av \cap Under[n] \subseteq done)
<1>1. n \in DOMAIN Under
    BY DEF Pro!NodesHold
<1>2. PICK P, Q : P = (av \cap done) \cap Under[n] /\ Q = av \cap Under[n]
    OBVIOUS
<1>3. PICK row : row = Pro!BuildProgress(av, done)[n]
    OBVIOUS
<1>4. row.completed = Cardinality(P) /\ row.available = Cardinality(Q)
    BY <1>1, <1>2, <1>3, ShownCardinal DEF Pro!BuildProgress
<1>5. Pro!BuildUnfinished(Pro!BuildProgress(av, done))[n] =
            IF row.available = 0 THEN None
            ELSE IF row.completed = row.available THEN "COMPLETED" ELSE "UNFINISHED"
    BY <1>3 DEF Pro!BuildUnfinished
<1>6. IsFiniteSet(Q) /\ P \in SUBSET Q
    BY <1>2, FS_Subset, ShownFinite DEF Pro!Finite
<1>7. Cardinality(P) = Cardinality(Q) <=> P = Q
    BY <1>6, FS_Subset
<1> QED
    BY <1>2, <1>4, <1>5, <1>7 DEF Pro!NoneIsNothing

LEMMA NowIs ==
    ASSUME Watched
    PROVE  Pro!Now \in Moment /\ Pro!Now.status = shownStatus /\ Pro!Now.attempt = tried
BY DEF Watched, Pro!Now, Moment

LEMMA StaysStep ==
    ASSUME Pro!NoneIsNothing, Watched, [Pro!Next]_(Pro!vars)
    PROVE  /\ StaysIn(Pro!Now, Pro!Now')
           /\ shownStatus' \in [Practice -> {"DRAFT", "PUBLISHED", "ARCHIVED"}] /\ tried' \in [ProgressAttempt -> Try]
<1>0. /\ Pro!Now.attempt = tried /\ Pro!Now'.attempt = tried' /\ tried \in [ProgressAttempt -> Try]
      /\ shownStatus \in [Practice -> {"DRAFT", "PUBLISHED", "ARCHIVED"}]
    BY DEF Pro!Now, Watched
<1>1. CASE UNCHANGED tried
    <2>1. shownStatus' \in [Practice -> {"DRAFT", "PUBLISHED", "ARCHIVED"}]
        BY <1>0 DEF Pro!Next, Pro!PracticeMoves, Pro!HandIn, Pro!WorkOn, Pro!Save, Pro!EditKeys,
            Pro!Ask, Pro!Answer, Pro!vars, Pro!tables
    <2> QED
        BY <1>0, <1>1, <2>1 DEF StaysIn, Pro!Submitted
<1>2. ASSUME NEW a \in ProgressAttempt, NEW w \in Pro!Work, NEW h \in Answers, Pro!WorkOn(a, w, h)
      PROVE  StaysIn(Pro!Now, Pro!Now') /\ UNCHANGED shownStatus /\ tried' \in [ProgressAttempt -> Try]
    <2>1. PICK new : new = [of |-> w, status |-> "IN_PROGRESS", right |-> h.right, wrong |-> h.wrong]
        OBVIOUS
    <2>2. new \in Try
        BY <2>1 DEF Try
    <2>3. tried' = [tried EXCEPT ![a] = new] /\ UNCHANGED shownStatus /\ tried[a].status # "SUBMITTED"
        BY <1>2, <2>1 DEF Pro!WorkOn, Pro!Blank, Pro!NoneIsNothing
    <2> QED
        BY <1>0, <2>2, <2>3 DEF StaysIn, Pro!Submitted
<1>3. ASSUME NEW a \in ProgressAttempt, Pro!HandIn(a)
      PROVE  StaysIn(Pro!Now, Pro!Now') /\ UNCHANGED shownStatus /\ tried' \in [ProgressAttempt -> Try]
    <2>1. PICK new : new = [tried[a] EXCEPT !.status = "SUBMITTED"]
        OBVIOUS
    <2>2. new \in Try
        BY <1>0, <2>1 DEF Try
    <2>3. tried' = [tried EXCEPT ![a] = new] /\ UNCHANGED shownStatus /\ tried[a].status # "SUBMITTED"
        BY <1>0, <1>3, <2>1 DEF Pro!HandIn
    <2> QED
        BY <1>0, <2>2, <2>3 DEF StaysIn, Pro!Submitted
<1>4. ASSUME NEW a \in ProgressAttempt, NEW h \in Answers, Pro!Save(a, h)
      PROVE  StaysIn(Pro!Now, Pro!Now') /\ UNCHANGED shownStatus /\ tried' \in [ProgressAttempt -> Try]
    <2>1. PICK new : new = [tried[a] EXCEPT !.right = h.right, !.wrong = h.wrong]
        OBVIOUS
    <2>2. /\ new \in Try /\ new.status = tried[a].status /\ new.of = tried[a].of
          /\ new.right = h.right /\ new.wrong = h.wrong
        BY <1>0, <2>1 DEF Try
    <2>3. tried' = [tried EXCEPT ![a] = new] /\ UNCHANGED shownStatus
        BY <1>0, <1>4, <2>1 DEF Pro!Save
    <2>4. Pro!Answered(tried[a]) \subseteq Pro!Answered(new)
        BY <1>4, <2>2 DEF Pro!Save, Pro!Answered
    <2> QED
        BY <1>0, <2>2, <2>3, <2>4 DEF StaysIn, Pro!Submitted
<1>5. ASSUME NEW w \in Pro!Work, NEW new \in [ProgressAttempt -> Answers], Pro!EditKeys(w, new)
      PROVE  StaysIn(Pro!Now, Pro!Now') /\ UNCHANGED shownStatus /\ tried' \in [ProgressAttempt -> Try]
    <2>1. /\ UNCHANGED shownStatus
          /\ tried' = [a \in ProgressAttempt |-> IF tried[a].of = w
                THEN [tried[a] EXCEPT !.right = new[a].right, !.wrong = new[a].wrong] ELSE tried[a]]
          /\ \A a \in ProgressAttempt : tried[a].of = w => Pro!Answered(new[a]) = Pro!Answered(tried[a])
        BY <1>5 DEF Pro!EditKeys
    <2>2. \A a \in ProgressAttempt : tried[a] \in Try /\ new[a] \in Answers
        BY <1>0
    <2>3. ASSUME NEW a \in ProgressAttempt
          PROVE  /\ tried'[a] \in Try /\ tried'[a].status = tried[a].status /\ tried'[a].of = tried[a].of
                 /\ Pro!Answered(tried[a]) \subseteq Pro!Answered(tried'[a])
        <3>1. CASE tried[a].of = w
            <4>1. tried'[a] = [tried[a] EXCEPT !.right = new[a].right, !.wrong = new[a].wrong]
                BY <2>1, <3>1
            <4>2. /\ tried'[a] \in Try /\ tried'[a].status = tried[a].status /\ tried'[a].of = tried[a].of
                  /\ tried'[a].right = new[a].right /\ tried'[a].wrong = new[a].wrong
                BY <2>2, <4>1 DEF Try
            <4> QED
                BY <2>1, <3>1, <4>2 DEF Pro!Answered
        <3>2. CASE tried[a].of # w
            BY <2>1, <2>2, <3>2
        <3> QED
            BY <3>1, <3>2
    <2>4. tried' \in [ProgressAttempt -> Try]
        BY <2>1, <2>3
    <2> QED
        BY <1>0, <2>1, <2>3, <2>4 DEF StaysIn, Pro!Submitted
<1> QED
    BY <1>0, <1>1, <1>2, <1>3, <1>4, <1>5
        DEF Pro!Next, Pro!PracticeMoves, Pro!Ask, Pro!Answer, Pro!vars, Pro!tables

\* The state after a change is one more that a request may see.
LEMMA ObservedWatched ==
    ASSUME Pro!NoneIsNothing, Watched, [Pro!Next]_(Pro!vars), Pro!Observed, asking' = asking
    PROVE  Watched'
<1>1. /\ shownStatus' \in [Practice -> {"DRAFT", "PUBLISHED", "ARCHIVED"}] /\ tried' \in [ProgressAttempt -> Try]
      /\ Pro!Completed(Pro!Now) \subseteq Pro!Completed(Pro!Now')
    BY StaysStep, StaysCompleted
<1>2. CASE asking = None
    BY <1>1, <1>2 DEF Pro!Observed, Watched, Pro!CoverageTimely, Pro!Answering
<1>3. CASE asking # None
    <2>1. PICK new : new = Pro!Now'
        OBVIOUS
    <2>2. new \in Moment /\ moments \in Seq(Moment) /\ moments' = Append(moments, new) /\ told' = told
        BY <1>1, <1>3, <2>1 DEF Pro!Observed, Pro!Now, Moment, Watched
    <2>3. /\ moments' \in Seq(Moment) /\ Len(moments') = Len(moments) + 1 /\ moments'[Len(moments')] = new
          /\ \A i \in 1..Len(moments) : moments'[i] = moments[i]
        BY <2>2, AppendProperties
    <2>4. /\ Len(moments) \in Nat /\ Len(moments) > 0 /\ moments[Len(moments)] = Pro!Now
          /\ \A i, j \in 1..Len(moments) : i <= j => Pro!Completed(moments[i]) \subseteq Pro!Completed(moments[j])
        BY <1>3, <2>2, LenProperties DEF Watched
    <2>5. \A i \in 1..Len(moments) : Pro!Completed(moments[i]) \subseteq Pro!Completed(new)
        BY <1>1, <2>1, <2>4
    <2>6. \A i, j \in 1..Len(moments') : i <= j => Pro!Completed(moments'[i]) \subseteq Pro!Completed(moments'[j])
        <3> SUFFICES ASSUME NEW i \in 1..Len(moments'), NEW j \in 1..Len(moments'), i <= j
                     PROVE  Pro!Completed(moments'[i]) \subseteq Pro!Completed(moments'[j])
            OBVIOUS
        <3>1. CASE j <= Len(moments)
            <4>1. i \in 1..Len(moments) /\ j \in 1..Len(moments)
                BY <2>3, <2>4, <3>1
            <4> QED
                BY <2>3, <2>4, <4>1
        <3>2. CASE j = Len(moments')
            <4>1. i \in 1..Len(moments) \/ i = j
                BY <2>3, <2>4, <3>2
            <4> QED
                BY <2>3, <2>5, <3>2, <4>1
        <3> QED
            BY <2>3, <2>4, <3>1, <3>2
    <2> QED
        BY <1>1, <1>3, <2>1, <2>3, <2>4, <2>6 DEF Watched, Pro!CoverageTimely, Pro!Answering
<1> QED
    BY <1>2, <1>3

LEMMA AskWatched ==
    ASSUME Watched, NEW sections, Pro!Ask(sections)
    PROVE  Watched'
<1>1. /\ moments' = <<Pro!Now>> /\ Pro!Now \in Moment /\ Pro!Now' = Pro!Now /\ UNCHANGED <<shownStatus, tried>>
      /\ told' = Pro!Unasked
    BY NowIs DEF Pro!Ask, Pro!tables, Pro!Now
<1>2. moments' \in Seq(Moment) /\ Len(moments') = 1 /\ moments'[1] = Pro!Now
    BY <1>1
<1>3. Pro!CoverageTimely'
    BY <1>1 DEF Pro!CoverageTimely, Pro!Unasked, Pro!Section
<1> QED
    BY <1>1, <1>2, <1>3 DEF Watched

LEMMA AnswerTimely ==
    ASSUME Pro!Finite, Pro!NoneIsNothing, Pro!NodesHold, Watched, Pro!Answer
    PROVE  Pro!CoverageTimely'
<1>1. /\ UNCHANGED <<Pro!tables, moments>> /\ moments \in Seq(Moment)
      /\ Len(moments) \in Nat /\ DOMAIN moments = 1..Len(moments)
    BY LenProperties DEF Pro!Answer, Watched
<1> SUFFICES ASSUME told'["unfinished"] # None, NEW n \in Chapter
             PROVE  /\ told'["unfinished"][n] = "COMPLETED" =>
                         \A p \in Under[n] : (\A i \in DOMAIN moments : p \in Under[n] \cap Pro!Available(moments[i]))
                                             => p \in Pro!Completed(moments[Len(moments)])
                    /\ told'["unfinished"][n] = "UNFINISHED" =>
                         \E i \in DOMAIN moments : ~(Under[n] \cap Pro!Available(moments[i]) \subseteq Pro!Completed(moments[1]))
    BY <1>1 DEF Pro!CoverageTimely
<1>2. PICK first, second \in [asking -> DOMAIN moments] :
         told' = [s \in Pro!Section |-> IF s \in asking THEN Pro!Says(s, moments[first[s]], moments[second[s]]) ELSE None]
    BY DEF Pro!Answer
<1>3. /\ "unfinished" \in asking
      /\ told'["unfinished"] = Pro!Says("unfinished", moments[first["unfinished"]], moments[second["unfinished"]])
    BY <1>2 DEF Pro!Section
<1>4. PICK i, j \in DOMAIN moments : told'["unfinished"] = Pro!Says("unfinished", moments[i], moments[j])
    BY <1>2, <1>3
<1>5. told'["unfinished"] = Pro!BuildUnfinished(Pro!BuildProgress(Pro!Available(moments[i]), Pro!Completed(moments[j])))
    BY <1>4 DEF Pro!Says, Pro!Coverage
<1>6. Pro!Available(moments[i]) \in SUBSET Practice
    BY DEF Pro!Available
<1>7. /\ told'["unfinished"][n] = "COMPLETED" =>
            Pro!Available(moments[i]) \cap Under[n] \subseteq Pro!Completed(moments[j])
      /\ told'["unfinished"][n] = "UNFINISHED" =>
            ~(Pro!Available(moments[i]) \cap Under[n] \subseteq Pro!Completed(moments[j]))
    BY <1>5, <1>6, TopicSays
<1>8. /\ Pro!Completed(moments[j]) \subseteq Pro!Completed(moments[Len(moments)])
      /\ Pro!Completed(moments[1]) \subseteq Pro!Completed(moments[j])
    <2>1. /\ 1 \in 1..Len(moments) /\ Len(moments) \in 1..Len(moments)
          /\ j \in 1..Len(moments) /\ 1 <= j /\ j <= Len(moments)
        BY <1>1, <1>4
    <2> QED
        BY <2>1 DEF Watched
<1> QED
    BY <1>4, <1>7, <1>8

LEMMA WatchedStep ==
    ASSUME Pro!Finite, Pro!NoneIsNothing, Pro!NodesHold, Watched, [Pro!Next]_(Pro!vars)
    PROVE  Watched'
<1>1. CASE \/ \E p \in Practice, to \in {"PUBLISHED", "ARCHIVED"} : Pro!PracticeMoves(p, to)
           \/ \E a \in ProgressAttempt : Pro!HandIn(a)
           \/ \E a \in ProgressAttempt, h \in Answers : Pro!Save(a, h) \/ \E w \in Pro!Work : Pro!WorkOn(a, w, h)
           \/ \E w \in Pro!Work, new \in [ProgressAttempt -> Answers] : Pro!EditKeys(w, new)
    BY <1>1, ObservedWatched DEF Pro!PracticeMoves, Pro!HandIn, Pro!WorkOn, Pro!Save, Pro!EditKeys
<1>2. CASE \E sections \in Looked : Pro!Ask(sections)
    BY <1>2, AskWatched
<1>3. CASE Pro!Answer
    <2>1. asking' = None /\ UNCHANGED <<Pro!tables, moments>>
        BY <1>3 DEF Pro!Answer
    <2> QED
        BY <1>3, <2>1, AnswerTimely DEF Watched, Pro!tables
<1>4. CASE UNCHANGED Pro!vars
    BY <1>4 DEF Pro!vars, Pro!tables, Watched, Pro!Now, Pro!CoverageTimely, Pro!Answering
<1> QED
    BY <1>1, <1>2, <1>3, <1>4 DEF Pro!Next

LEMMA WatchedInit == ASSUME Pro!NoneIsNothing, Pro!Init PROVE Watched
<1>1. Pro!Blank \in Try
    BY DEF Pro!Blank, Try
<1>2. moments = <<>> /\ moments \in Seq(Moment) /\ Len(moments) = 0
    BY DEF Pro!Init
<1> QED
    BY <1>1, <1>2 DEF Pro!Init, Watched, Pro!CoverageTimely, Pro!Answering

\* A topic is reported completed or unfinished only if it was so while the report was made.
THEOREM CoverageWatched ==
    ASSUME Pro!Finite, Pro!NoneIsNothing, Pro!NodesHold PROVE Pro!Spec => []Watched
BY WatchedInit, WatchedStep, PTL DEF Pro!Spec

\* A result is not taken back, and a repeated mistake only by a late answer or key that makes
\* right one of the mistakes it counted.
THEOREM PastStays ==
    ASSUME Pro!Finite, Pro!NoneIsNothing, Pro!NodesHold PROVE Pro!Spec => [][Pro!PastKept]_(Pro!vars)
<1>1. Watched /\ [Pro!Next]_(Pro!vars) => [Pro!PastKept]_(Pro!vars)
    <2> SUFFICES ASSUME Watched, [Pro!Next]_(Pro!vars) PROVE Pro!PastKept
        OBVIOUS
    <2>1. StaysIn(Pro!Now, Pro!Now')
        BY StaysStep
    <2>2. Pro!Submitted(Pro!Now) \subseteq Pro!Submitted(Pro!Now')
        BY <2>1 DEF StaysIn
    <2>3. ASSUME NEW k \in Pro!Repeated(Pro!Now) \ Pro!Repeated(Pro!Now')
          PROVE  \E x \in Pro!Mistakes(Pro!Now, k) : x[2] \in tried'[x[1]].right
        <3>1. k \in Concept /\ Pro!Now'.attempt = tried'
            BY DEF Pro!Repeated, Pro!Now
        <3> QED
            BY <2>1, <2>3, <3>1, StaysRepeated
    <2> QED
        BY <2>2, <2>3 DEF Pro!PastKept
<1> QED
    BY <1>1, CoverageWatched, PTL DEF Pro!Spec

-----------------------------------------------------------------------------
(* What the sections of a profile say to each other *)

WrittenTries == {[of |-> w, status |-> st, right |-> h.right, wrong |-> h.wrong] :
                     w \in Pro!Work, st \in {"IN_PROGRESS", "SUBMITTED"}, h \in Answers}
Tries == {Pro!Blank} \cup WrittenTries
Moments == [status : [Practice -> {"DRAFT", "PUBLISHED", "ARCHIVED"}], attempt : [ProgressAttempt -> Tries]]

LEMMA TryShape ==
    ASSUME NEW x \in Tries, x # Pro!Blank
    PROVE  \E w \in Pro!Work, st \in {"IN_PROGRESS", "SUBMITTED"}, h \in Answers :
               x = [of |-> w, status |-> st, right |-> h.right, wrong |-> h.wrong]
<1>1. x \in WrittenTries
    BY DEF Tries
<1> QED
    BY <1>1 DEF WrittenTries

LEMMA TryWritten ==
    ASSUME NEW w \in Pro!Work, NEW st \in {"IN_PROGRESS", "SUBMITTED"}, NEW h \in Answers,
           NEW x, x = [of |-> w, status |-> st, right |-> h.right, wrong |-> h.wrong]
    PROVE  x \in Tries
<1>1. x \in WrittenTries
    BY DEF WrittenTries
<1> QED
    BY <1>1 DEF Tries

LEMMA RewrittenTry ==
    ASSUME NEW x \in Tries, x # Pro!Blank, NEW h \in Answers
    PROVE  [x EXCEPT !.right = h.right, !.wrong = h.wrong] \in Tries
<1>1. PICK w \in Pro!Work, st \in {"IN_PROGRESS", "SUBMITTED"}, g \in Answers :
         x = [of |-> w, status |-> st, right |-> g.right, wrong |-> g.wrong]
    BY TryShape
<1>2. PICK new : new = [x EXCEPT !.right = h.right, !.wrong = h.wrong]
    OBVIOUS
<1>3. new = [of |-> w, status |-> st, right |-> h.right, wrong |-> h.wrong]
    BY <1>1, <1>2
<1>4. new \in Tries
    BY <1>3, TryWritten
<1> QED
    BY <1>2, <1>4

\* An answer made while nothing changed is of the one moment there was.
ToldAtOnce == asking = None /\ Len(moments) = 1 =>
                \A s \in Pro!Section : told[s] # None => told[s] = Pro!Says(s, moments[1], moments[1])

Profiled ==
    /\ Pro!Now \in Moments
    /\ asking \in Looked \cup {None}
    /\ moments \in Seq(Moments) /\ Len(moments) <= MaxMoments
    /\ asking # None => Len(moments) > 0
    /\ DOMAIN told = Pro!Section
    /\ ToldAtOnce

ProgressFits ==
    /\ Pro!LooksFit /\ Pro!NoneIsNothing /\ Pro!Finite /\ Pro!NodesHold /\ Pro!AnswersHold

LEMMA MomentIs ==
    /\ Pro!Now.status = shownStatus /\ Pro!Now.attempt = tried
    /\ Pro!Now \in Moments <=>
         shownStatus \in [Practice -> {"DRAFT", "PUBLISHED", "ARCHIVED"}] /\ tried \in [ProgressAttempt -> Tries]
BY DEF Pro!Now, Moments

LEMMA ProfiledInit == ASSUME ProgressFits, Pro!Init PROVE Profiled
<1>1. Pro!Now \in Moments
    BY MomentIs DEF Pro!Init, Tries
<1>2. moments = <<>> /\ moments \in Seq(Moments) /\ Len(moments) = 0
    BY DEF Pro!Init
<1> QED
    BY <1>1, <1>2 DEF Pro!Init, Profiled, ToldAtOnce, ProgressFits, Pro!LooksFit

\* A change of the tables: one moment more for who waits, and no answer for who does not.
LEMMA ChangeProfiled ==
    ASSUME ProgressFits, Profiled, Pro!Now' \in Moments, Pro!Observed, asking' = asking
    PROVE  Profiled'
<1>1. MaxMoments \in Nat \ {0} /\ moments \in Seq(Moments) /\ Len(moments) \in Nat
    BY LenProperties DEF ProgressFits, Pro!LooksFit, Profiled
<1>2. CASE asking = None
  <2>1. moments' = <<>> /\ told' = Pro!Unasked /\ moments' \in Seq(Moments) /\ Len(moments') = 0
      BY <1>2 DEF Pro!Observed
  <2> QED
      BY <1>1, <1>2, <2>1 DEF Profiled, ToldAtOnce, Pro!Unasked
<1>3. CASE asking # None
  <2>1. PICK new : new = Pro!Now'
      OBVIOUS
  <2>2. Len(moments) < MaxMoments /\ moments' = Append(moments, new) /\ told' = told /\ new \in Moments
      BY <1>3, <2>1 DEF Pro!Observed
  <2>3. moments' \in Seq(Moments) /\ Len(moments') = Len(moments) + 1
      BY <1>1, <2>2, AppendProperties
  <2> QED
      BY <1>1, <1>3, <2>2, <2>3 DEF Profiled, ToldAtOnce
<1> QED
    BY <1>2, <1>3

LEMMA AnswerProfiled ==
    ASSUME ProgressFits, Profiled, Pro!Answer
    PROVE  Profiled'
<1>1. /\ asking # None /\ asking' = None /\ UNCHANGED <<shownStatus, tried, moments>>
      /\ moments \in Seq(Moments) /\ DOMAIN moments = 1..Len(moments)
    BY LenProperties DEF Pro!Answer, Pro!tables, Profiled
<1>2. PICK first, second \in [asking -> DOMAIN moments] :
         told' = [s \in Pro!Section |-> IF s \in asking THEN Pro!Says(s, moments[first[s]], moments[second[s]]) ELSE None]
    BY DEF Pro!Answer
<1>3. Pro!Now' = Pro!Now
    BY <1>1 DEF Pro!Now
<1>4. ToldAtOnce'
  <2> SUFFICES ASSUME Len(moments) = 1, NEW s \in Pro!Section, told'[s] # None
               PROVE  told'[s] = Pro!Says(s, moments[1], moments[1])
      BY <1>1 DEF ToldAtOnce
  <2>1. s \in asking /\ told'[s] = Pro!Says(s, moments[first[s]], moments[second[s]])
      BY <1>2
  <2>2. first[s] = 1 /\ second[s] = 1
    <3>1. first[s] \in 1..1 /\ second[s] \in 1..1
        BY <1>1, <1>2, <2>1
    <3> QED
        BY <3>1
  <2> QED
      BY <2>1, <2>2
<1>5. DOMAIN told' = Pro!Section
    BY <1>2
<1> QED
    BY <1>1, <1>3, <1>4, <1>5 DEF Profiled

LEMMA ProfiledStep ==
    ASSUME ProgressFits, Profiled, [Pro!Next]_(Pro!vars)
    PROVE  Profiled'
<1>0. /\ shownStatus \in [Practice -> {"DRAFT", "PUBLISHED", "ARCHIVED"}]
      /\ tried \in [ProgressAttempt -> Tries]
      /\ (Pro!Now \in Moments)' <=>
            shownStatus' \in [Practice -> {"DRAFT", "PUBLISHED", "ARCHIVED"}] /\ tried' \in [ProgressAttempt -> Tries]
    BY MomentIs DEF Profiled, Pro!Now, Moments
<1>1. ASSUME NEW p \in Practice, NEW to \in {"PUBLISHED", "ARCHIVED"}, Pro!PracticeMoves(p, to)
      PROVE  Profiled'
  <2>1. shownStatus' = [shownStatus EXCEPT ![p] = to] /\ tried' = tried /\ asking' = asking /\ Pro!Observed
      BY <1>1 DEF Pro!PracticeMoves
  <2>2. Pro!Now' \in Moments
      BY <1>0, <2>1
  <2> QED
      BY <2>1, <2>2, ChangeProfiled
<1>2. ASSUME NEW a \in ProgressAttempt, Pro!HandIn(a) PROVE Profiled'
  <2>1. /\ tried[a].status = "IN_PROGRESS" /\ tried' = [tried EXCEPT ![a].status = "SUBMITTED"]
        /\ shownStatus' = shownStatus /\ asking' = asking /\ Pro!Observed
      BY <1>2 DEF Pro!HandIn
  <2>2. tried[a] # Pro!Blank
      BY <2>1 DEF Pro!Blank, ProgressFits, Pro!NoneIsNothing
  <2>3. PICK w \in Pro!Work, st \in {"IN_PROGRESS", "SUBMITTED"}, h \in Answers :
           tried[a] = [of |-> w, status |-> st, right |-> h.right, wrong |-> h.wrong]
      BY <1>0, <2>2, TryShape
  <2>4. PICK new : new = [of |-> w, status |-> "SUBMITTED", right |-> h.right, wrong |-> h.wrong]
      OBVIOUS
  <2>5. new \in Tries /\ [tried[a] EXCEPT !.status = "SUBMITTED"] = new
      BY <2>3, <2>4, TryWritten
  <2>6. tried' = [tried EXCEPT ![a] = new]
      BY <2>1, <2>5
  <2>7. Pro!Now' \in Moments
      BY <1>0, <2>1, <2>5, <2>6
  <2> QED
      BY <2>1, <2>7, ChangeProfiled
<1>3. ASSUME NEW a \in ProgressAttempt, NEW w \in Pro!Work, NEW h \in Answers, Pro!WorkOn(a, w, h)
      PROVE  Profiled'
  <2>1. PICK new : new = [of |-> w, status |-> "IN_PROGRESS", right |-> h.right, wrong |-> h.wrong]
      OBVIOUS
  <2>2. /\ tried' = [tried EXCEPT ![a] = new] /\ shownStatus' = shownStatus /\ asking' = asking
        /\ Pro!Observed
      BY <1>3, <2>1 DEF Pro!WorkOn
  <2>3. new \in Tries
      BY <2>1, TryWritten
  <2>4. Pro!Now' \in Moments
      BY <1>0, <2>2, <2>3
  <2> QED
      BY <2>2, <2>4, ChangeProfiled
<1>4. ASSUME NEW a \in ProgressAttempt, NEW h \in Answers, Pro!Save(a, h) PROVE Profiled'
  <2>1. /\ tried[a] # Pro!Blank /\ tried' = [tried EXCEPT ![a].right = h.right, ![a].wrong = h.wrong]
        /\ shownStatus' = shownStatus /\ asking' = asking /\ Pro!Observed
      BY <1>4 DEF Pro!Save
  <2>2. PICK new : new = [tried[a] EXCEPT !.right = h.right, !.wrong = h.wrong]
      OBVIOUS
  <2>3. new \in Tries
      BY <1>0, <2>1, <2>2, RewrittenTry
  <2>4. tried' = [tried EXCEPT ![a] = new]
      BY <1>0, <2>1, <2>2
  <2>5. Pro!Now' \in Moments
      BY <1>0, <2>1, <2>3, <2>4
  <2> QED
      BY <2>1, <2>5, ChangeProfiled
<1>5. ASSUME NEW w \in Pro!Work, NEW new \in [ProgressAttempt -> Answers], Pro!EditKeys(w, new)
      PROVE  Profiled'
  <2>1. /\ shownStatus' = shownStatus /\ asking' = asking /\ Pro!Observed
        /\ tried' = [a \in ProgressAttempt |-> IF tried[a].of = w
              THEN [tried[a] EXCEPT !.right = new[a].right, !.wrong = new[a].wrong] ELSE tried[a]]
      BY <1>5 DEF Pro!EditKeys
  <2>2. ASSUME NEW a \in ProgressAttempt PROVE tried'[a] \in Tries
    <3>1. CASE tried[a].of = w
      <4>1. tried[a] # Pro!Blank
          BY <3>1 DEF Pro!Blank, ProgressFits, Pro!NoneIsNothing
      <4>2. tried'[a] = [tried[a] EXCEPT !.right = new[a].right, !.wrong = new[a].wrong]
          BY <2>1, <3>1
      <4>3. tried[a] \in Tries /\ new[a] \in Answers
          BY <1>0
      <4>4. [tried[a] EXCEPT !.right = new[a].right, !.wrong = new[a].wrong] \in Tries
          BY <4>1, <4>3, RewrittenTry
      <4> QED
          BY <4>2, <4>4
    <3>2. CASE tried[a].of # w
        BY <1>0, <2>1, <3>2
    <3> QED
        BY <3>1, <3>2
  <2>3. tried' \in [ProgressAttempt -> Tries]
      BY <2>1, <2>2
  <2>4. Pro!Now' \in Moments
      BY <1>0, <2>1, <2>3
  <2> QED
      BY <2>1, <2>4, ChangeProfiled
<1>6. ASSUME NEW sections \in Looked, Pro!Ask(sections) PROVE Profiled'
  <2>1. /\ moments' = <<Pro!Now>> /\ told' = Pro!Unasked /\ asking' = sections
        /\ UNCHANGED <<shownStatus, tried>> /\ Pro!Now \in Moments
      BY <1>6 DEF Pro!Ask, Pro!tables, Profiled
  <2>2. moments' \in Seq(Moments) /\ Len(moments') = 1
      BY <2>1
  <2>3. Pro!Now' \in Moments
      BY <1>0, <2>1
  <2>4. 1 <= MaxMoments
      BY DEF ProgressFits, Pro!LooksFit
  <2> QED
      BY <2>1, <2>2, <2>3, <2>4 DEF Profiled, ToldAtOnce, Pro!Unasked
<1>7. CASE Pro!Answer
    BY <1>7, AnswerProfiled
<1>8. CASE UNCHANGED Pro!vars
    BY <1>8 DEF Pro!vars, Pro!tables, Profiled, ToldAtOnce, Pro!Now
<1> QED
    BY <1>1, <1>2, <1>3, <1>4, <1>5, <1>6, <1>7, <1>8 DEF Pro!Next

LEMMA ProfiledAlways == ASSUME ProgressFits PROVE Pro!Spec => []Profiled
BY ProfiledInit, ProfiledStep, PTL DEF Pro!Spec

\* The tables, the request and the sections that were answered keep their types.
THEOREM ProgressTyped == ASSUME ProgressFits PROVE Pro!Spec => []Pro!TypeOK
<1>1. Profiled => Pro!TypeOK
  <2> SUFFICES ASSUME Profiled PROVE Pro!TypeOK
      OBVIOUS
  <2>1. shownStatus \in [Practice -> {"DRAFT", "PUBLISHED", "ARCHIVED"}] /\ tried \in [ProgressAttempt -> Tries]
      BY MomentIs DEF Profiled
  <2>2. ASSUME NEW a \in ProgressAttempt, tried[a] # Pro!Blank
        PROVE  /\ tried[a].of \in Pro!Work /\ tried[a].status \in {"IN_PROGRESS", "SUBMITTED"}
               /\ [right |-> tried[a].right, wrong |-> tried[a].wrong] \in Answers
    <3>1. PICK w \in Pro!Work, st \in {"IN_PROGRESS", "SUBMITTED"}, h \in Answers :
             tried[a] = [of |-> w, status |-> st, right |-> h.right, wrong |-> h.wrong]
        BY <2>1, <2>2, TryShape
    <3>2. h = [right |-> h.right, wrong |-> h.wrong]
        BY DEF ProgressFits, Pro!AnswersHold
    <3> QED
        BY <3>1, <3>2
  <2> QED
      BY <2>1, <2>2 DEF Profiled, Pro!TypeOK
<1> QED
    BY <1>1, ProfiledAlways, PTL

\* What the mean of the attempts is taken of.
ShareSum(t, as) ==
    Pro!MapThenSumSet(LAMBDA a : (100 * 2520 * Pro!Cardinality(t.attempt[a].right))
                                    \div Pro!Cardinality(Pro!Answered(t.attempt[a])), as)

Share(t, a) == (100 * 2520 * Pro!Cardinality(t.attempt[a].right)) \div Pro!Cardinality(Pro!Answered(t.attempt[a]))

LEMMA ShareTotal ==
    ASSUME NEW t, NEW S, IsFiniteSet(S)
    PROVE  ShareSum(t, S) = Total([a \in S |-> Share(t, a)], S)
<1> DEFINE F == [a \in S |-> Share(t, a)]
           body(h) == [s \in SUBSET S |-> IF s = {} THEN 0
                          ELSE Share(t, CHOOSE x \in s : TRUE) + h[s \ {CHOOSE x \in s : TRUE}]]
           it == CHOOSE h : h = body(h)
<1>1. ShareSum(t, S) = it[S]
    BY DEF ShareSum, Share, Pro!MapThenSumSet, Pro!MapThenFoldSet
<1>2. ASSUME NEW h PROVE IsTotal(h, F, S) <=> h = body(h)
  <2>1. \A s \in SUBSET S : s # {} => F[Pick(s)] = Share(t, CHOOSE x \in s : TRUE)
      BY DEF Pick
  <2>2. body(h) = [s \in SUBSET S |-> IF s = {} THEN 0 ELSE F[Pick(s)] + h[s \ {Pick(s)}]]
    <3> HIDE DEF F
    <3> QED
        BY <2>1 DEF Pick
  <2> HIDE DEF body, F
  <2> QED
      BY <2>2 DEF IsTotal
<1> HIDE DEF F, body
<1>3. \E h : h = body(h)
    BY <1>2, TotalExists
<1>4. IsTotal(it, F, S)
    BY <1>2, <1>3
<1> HIDE DEF it
<1> QED
    BY <1>1, <1>4, TotalOf DEF F

LEMMA DivInt == ASSUME NEW m \in Int, NEW n \in Nat \ {0} PROVE m \div n \in Int
OBVIOUS

\* A mean is a number: every attempt it is taken of has answers.
LEMMA PerformanceInt ==
    ASSUME Pro!Finite, Pro!AnswersHold, NEW t \in Moments, NEW those \in SUBSET ProgressAttempt, those # {},
           \A a \in those : Pro!Answered(t.attempt[a]) # {}
    PROVE  Pro!Performance(t, those) \in Int
<1>1. IsFiniteSet(those) /\ IsFiniteSet(ProgressQuestion) /\ Cardinality(those) \in Nat \ {0}
    BY ShownFinite, FS_Subset, FS_CardinalityType, FS_EmptySet DEF Pro!Finite
<1>2. ASSUME NEW a \in those PROVE Share(t, a) \in Int
  <2>1. t.attempt[a] \in Tries /\ t.attempt[a] # Pro!Blank
    <3>1. Pro!Answered(Pro!Blank) = {}
        BY DEF Pro!Answered, Pro!Blank
    <3>2. Pro!Answered(t.attempt[a]) # {}
        BY <1>2
    <3>3. t.attempt[a] \in Tries
        BY <1>2 DEF Moments
    <3> QED
        BY <3>1, <3>2, <3>3
  <2>2. PICK w \in Pro!Work, st \in {"IN_PROGRESS", "SUBMITTED"}, h \in Answers :
           t.attempt[a] = [of |-> w, status |-> st, right |-> h.right, wrong |-> h.wrong]
      BY <2>1, TryShape
  <2>3. /\ t.attempt[a].right \in SUBSET ProgressQuestion
        /\ Pro!Answered(t.attempt[a]) \in SUBSET ProgressQuestion
    <3>1. h.right \in SUBSET ProgressQuestion /\ h.wrong \in SUBSET ProgressQuestion
        BY <2>2 DEF Pro!AnswersHold
    <3>2. t.attempt[a].right = h.right /\ t.attempt[a].wrong = h.wrong
        BY <2>2
    <3> QED
        BY <3>1, <3>2 DEF Pro!Answered
  <2>4. /\ Cardinality(t.attempt[a].right) \in Nat
        /\ Cardinality(Pro!Answered(t.attempt[a])) \in Nat \ {0}
      BY <1>1, <1>2, <2>3, FS_Subset, FS_CardinalityType, FS_EmptySet
  <2>5. PICK m \in Nat, n \in Nat \ {0} :
           m = Cardinality(t.attempt[a].right) /\ n = Cardinality(Pro!Answered(t.attempt[a]))
      BY <2>4
  <2>6. Share(t, a) = (100 * 2520 * m) \div n
      BY <2>5, ShownCardinal DEF Share
  <2>7. 100 * 2520 * m \in Int
      OBVIOUS
  <2> QED
      BY <2>6, <2>7, DivInt
<1>3. ShareSum(t, those) \in Int
  <2> DEFINE F == [a \in those |-> Share(t, a)]
  <2>1. \A a \in those : F[a] \in Int
      BY <1>2
  <2>2. ShareSum(t, those) = Total(F, those)
      BY <1>1, ShareTotal
  <2> HIDE DEF F
  <2>3. Total(F, those) \in Int
      BY <1>1, <2>1, TotalSplit
  <2> QED
      BY <2>2, <2>3
<1>4. PICK sum \in Int, n \in Nat \ {0} : sum = ShareSum(t, those) /\ n = Cardinality(those)
    BY <1>1, <1>3
<1>5. Pro!Performance(t, those) = Pro!Round2(ShareSum(t, those), 2520 * Pro!Cardinality(those))
    BY DEF Pro!Performance, ShareSum
<1>6. Pro!Performance(t, those) = (200 * sum + 2520 * n) \div (2 * (2520 * n))
  <2>1. ShareSum(t, those) = sum /\ 2520 * Pro!Cardinality(those) = 2520 * n
      BY <1>4, ShownCardinal
  <2>2. Pro!Performance(t, those) = Pro!Round2(sum, 2520 * n)
      BY <1>5, <2>1
  <2> QED
      BY <2>2 DEF Pro!Round2
<1>7. 200 * sum + 2520 * n \in Int /\ 2 * (2520 * n) \in Nat \ {0}
    OBVIOUS
<1> QED
    BY <1>6, <1>7, DivInt

\* No topic is weak and strong at one moment, and a strong one has a practice completed.
LEMMA StrongOrWeak ==
    ASSUME ProgressFits, NEW t \in Moments, NEW n \in Chapter
    PROVE  /\ ~(n \in Pro!Weak(t) /\ n \in Pro!Strong(t))
           /\ n \in Pro!Strong(t) => \E p \in Pro!Available(t) \cap Pro!Completed(t) : p \in Under[n]
<1> DEFINE those == Pro!Evidence(t, n)
<1>1. /\ those \in SUBSET ProgressAttempt
      /\ \A a \in those : /\ Pro!Answered(t.attempt[a]) # {} /\ a \in Pro!OfPractice(t)
                       /\ t.attempt[a].of \in Under[n] \cap Pro!Available(t)
    BY DEF Pro!Evidence, Pro!OfPractice, Pro!Submitted
<1>2. /\ n \in Pro!Weak(t) => those # {} /\ Pro!Performance(t, those) < 6000
      /\ n \in Pro!Strong(t) => those # {} /\ Pro!Performance(t, those) >= 9000
    BY DEF Pro!Weak, Pro!Strong
<1>3. \A a \in those : t.attempt[a].of \in Pro!Completed(t)
    BY <1>1 DEF Pro!Completed
<1> HIDE DEF those
<1>4. those # {} => Pro!Performance(t, those) \in Int
    BY <1>1, PerformanceInt DEF ProgressFits
<1>5. ~(n \in Pro!Weak(t) /\ n \in Pro!Strong(t))
    BY <1>2, <1>4
<1>6. ASSUME n \in Pro!Strong(t) PROVE \E p \in Pro!Available(t) \cap Pro!Completed(t) : p \in Under[n]
  <2>1. PICK a : a \in those
      BY <1>2, <1>6
  <2>2. /\ t.attempt[a].of \in Under[n] /\ t.attempt[a].of \in Pro!Available(t)
        /\ t.attempt[a].of \in Pro!Completed(t)
      BY <1>1, <1>3, <2>1
  <2> QED
      BY <2>2
<1> QED
    BY <1>5, <1>6

LEMMA ProgressNumbers ==
    ASSUME ProgressFits, NEW t \in Moments, NEW n \in Chapter
    PROVE  LET row == Pro!Coverage(t, t)[n] IN
           /\ row.available \in Nat /\ row.completed \in Nat
           /\ Pro!BuildUnfinished(Pro!Coverage(t, t))[n] =
                 IF row.available = 0 THEN None
                 ELSE IF row.completed = row.available THEN "COMPLETED" ELSE "UNFINISHED"
           /\ (\E p \in Pro!Available(t) \cap Pro!Completed(t) : p \in Under[n]) => row.completed > 0
<1>1. n \in DOMAIN Under
    BY DEF ProgressFits, Pro!NodesHold
<1>2. PICK row : row = Pro!Coverage(t, t)[n]
    OBVIOUS
<1>3. PICK av, done : av = Pro!Available(t) /\ done = Pro!Completed(t)
    OBVIOUS
<1>4. row.completed = Cardinality((av \cap done) \cap Under[n]) /\ row.available = Cardinality(av \cap Under[n])
    BY <1>1, <1>2, <1>3, ShownCardinal DEF Pro!Coverage, Pro!BuildProgress
<1>5. Pro!BuildUnfinished(Pro!Coverage(t, t))[n] =
            IF row.available = 0 THEN None
            ELSE IF row.completed = row.available THEN "COMPLETED" ELSE "UNFINISHED"
    BY <1>2 DEF Pro!BuildUnfinished
<1>6. av \in SUBSET Practice /\ IsFiniteSet(Practice)
    BY <1>3, ShownFinite DEF Pro!Available, ProgressFits, Pro!Finite
<1>7. IsFiniteSet((av \cap done) \cap Under[n]) /\ IsFiniteSet(av \cap Under[n])
    BY <1>6, FS_Subset
<1>8. row.available \in Nat /\ row.completed \in Nat
    BY <1>4, <1>7, FS_CardinalityType
<1>9. (\E p \in av \cap done : p \in Under[n]) => row.completed # 0
    BY <1>4, <1>7, FS_EmptySet
<1> QED
    BY <1>2, <1>3, <1>5, <1>8, <1>9

\* While nothing changes, the sections of a profile agree: a topic is completed where all of
\* its practices are, no topic is both weak and strong, and a strong one is not untouched.
THEOREM SectionsTruly == ASSUME ProgressFits PROVE Pro!Spec => []Pro!SectionsAgree
<1>1. Profiled => Pro!SectionsAgree
  <2> SUFFICES ASSUME Profiled, Pro!Answering, Len(moments) = 1, NEW n \in Chapter
               PROVE  /\ told["progress"] # None /\ told["unfinished"] # None =>
                            (told["unfinished"][n] = "COMPLETED" <=>
                               told["progress"][n].available > 0
                               /\ told["progress"][n].completed = told["progress"][n].available)
                      /\ told["weak"] # None /\ told["strong"] # None =>
                            n \notin told["weak"] \cap told["strong"]
                      /\ told["progress"] # None /\ told["strong"] # None /\ n \in told["strong"] =>
                            told["progress"][n].completed > 0
      BY DEF Pro!SectionsAgree
  <2>1. PICK t \in Moments : t = moments[1]
    <3>1. moments \in Seq(Moments) /\ 1 \in 1..Len(moments)
        BY DEF Profiled
    <3> QED
        BY <3>1, ElementOfSeq
  <2>2. \A s \in {"progress", "unfinished", "weak", "strong"} : told[s] # None => told[s] = Pro!Says(s, t, t)
      BY <2>1 DEF Profiled, ToldAtOnce, Pro!Answering, Pro!Section
  <2>3. /\ told["progress"] # None => told["progress"] = Pro!Coverage(t, t)
        /\ told["unfinished"] # None => told["unfinished"] = Pro!BuildUnfinished(Pro!Coverage(t, t))
        /\ told["weak"] # None => told["weak"] = Pro!Weak(t)
        /\ told["strong"] # None => told["strong"] = Pro!Strong(t)
      BY <2>2 DEF Pro!Says
  <2>4. None # "COMPLETED"
      BY DEF ProgressFits, Pro!NoneIsNothing
  <2> QED
      BY <2>3, <2>4, ProgressNumbers, StrongOrWeak
<1> QED
    BY <1>1, ProfiledAlways, PTL
=============================================================================
