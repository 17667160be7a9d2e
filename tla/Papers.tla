------------------------------- MODULE Papers -------------------------------
(***************************************************************************)
(* Questions, answers and marking, as formal assessments and practices     *)
(* share them: a paper is the question table of one event or practice, a   *)
(* sheet the answers of one attempt.  Both evaluators award full marks for *)
(* the one correct option and nothing otherwise (evaluation.ts).           *)
(*                                                                         *)
(* Abstracted: question and option texts, explanations, and the percentage *)
(* column, which is a function of score and maximum.                       *)
(***************************************************************************)
EXTENDS Naturals, FiniteSets, FiniteSetsExt

CONSTANTS
    Question,    \* ids questions may be given
    Option,      \* option keys
    OptionSets,  \* the sets of option keys a question may offer
    Marks,       \* marks a question may carry
    MaxSeq,      \* bound on sequence numbers
    None,        \* SQL NULL / absent
    Gone         \* a question that was deleted

ASSUME PaperAssumption ==
    /\ OptionSets \subseteq SUBSET Option
    /\ {} \notin OptionSets
    /\ Marks \subseteq Nat
    /\ MaxSeq \in Nat
    /\ None \notin Option

\* A question row; both authoring services refuse a correct key outside the options.
Row == {r \in [options : OptionSets, correct : Option, marks : Marks, seq : 0..MaxSeq] :
            r.correct \in r.options}

ASSUME NullIsNoRow == None \notin Row /\ Gone \notin Row /\ Gone # None

Paper == [Question -> Row \cup {None, Gone}]
Sheet == [Question -> Option \cup {None}]

BlankPaper == [q \in Question |-> None]
BlankSheet == [q \in Question |-> None]

Asked(paper) == {q \in Question : paper[q] \in Row}

\* findQuestionBySequence, and the unique index on the sequence number.
Taken(paper, seq, but) == \E q \in Asked(paper) \ {but} : paper[q].seq = seq

\* nextQuestionSequence: one more than the largest, from zero.
NextSequence(paper) ==
    IF Asked(paper) = {} THEN 0 ELSE Max({paper[q].seq : q \in Asked(paper)}) + 1

MarksOf(paper, questions) == MapThenSumSet(LAMBDA q : paper[q].marks, questions)

Right(paper, sheet) == {q \in Asked(paper) : sheet[q] = paper[q].correct}
Blank(paper, sheet) == {q \in Asked(paper) : sheet[q] = None}

\* An answer that is none of its question's options.
Inconsistent(paper, sheet) ==
    \E q \in Asked(paper) : sheet[q] \notin paper[q].options \cup {None}

Evaluation(paper, sheet) ==
    [score      |-> MarksOf(paper, Right(paper, sheet)),
     max        |-> MarksOf(paper, Asked(paper)),
     correct    |-> Cardinality(Right(paper, sheet)),
     incorrect  |-> Cardinality(Asked(paper) \ (Right(paper, sheet) \cup Blank(paper, sheet))),
     unanswered |-> Cardinality(Blank(paper, sheet))]

\* NULL is not what marking returns.
ASSUME NullIsNoResult == \A p \in Paper, s \in Sheet : Evaluation(p, s) # None

Result == [score : Nat, max : Nat, correct : Nat, incorrect : Nat, unanswered : Nat]
=============================================================================
