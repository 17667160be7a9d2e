SPECIFICATION Spec
SYMMETRY Symmetry
CONSTRAINT TwoAtATime
CONSTANTS
    Question = {q1}
    A = A
    B = B
    Option = {A, B}
    OptionSets <- OneChoice
    Marks = {1}
    MaxSeq = 0
    None = None
    Gone = Gone
    Author = {t1, t2}
    Learner = {h1, h2}
    Student = {s1}
    Attempt = {a1, a2}
    MaxItems = 1
INVARIANTS OneOpenAttempt ResultPerSubmission ResultsTruthful
PROPERTIES ResultsFinal
