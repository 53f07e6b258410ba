SPECIFICATION Spec
CONSTANTS
    NULL = NULL
    c1 = c1
    c2 = c2
    Case = {c1, c2}
    Step = {1, 2}
    StepsOf <- StepsOfCases
    Deletable = {c1}
    Request = {q1, q2}
    StepMarks = {"passed"}
    CaseMarks = {"passed", "untested"}
    Plans <- Lists
    Manual = {"closed"}
    Shared = {c1}
    Fatal = {"read", "seed", "unseed"}
SYMMETRY Interchangeable
INVARIANTS NeverDoneEarly
PROPERTIES SerialResultsSettle ImplementsSheet
CHECK_DEADLOCK FALSE
