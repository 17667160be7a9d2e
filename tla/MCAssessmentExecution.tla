----------------------- MODULE MCAssessmentExecution ------------------------
EXTENDS AssessmentExecution, TLC

\* Ids and calls are interchangeable, and so are the two options, of which a question offers
\* one, so that an answer to it need not fit what it is rewritten to.
CONSTANTS A, B
Symmetry == Permutations(Author) \cup Permutations(Learner) \cup Permutations(Student)
            \cup Permutations(Attempt) \cup Permutations({A, B})
OneChoice  == {{A}, {B}}

\* Bound: two calls at a time, which are a check and a write and what comes between them; and
\* students only once there is a second attempt, which shares no more than the questions
\* with the first.
Busy(callers) == {c \in callers : call[c] # Idle}
TwoAtATime == Cardinality(Busy(Caller)) <= 2 /\ (Unused = {} => Busy(Author) = {})
=============================================================================
