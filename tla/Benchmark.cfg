SPECIFICATION Spec
CHECK_DEADLOCK FALSE
CONSTANTS
    Runs = {r1, r2}
    Requests = {q1}
    MaxClock = 2
SYMMETRY MCSymmetry
INVARIANTS
    QuietSummaryIsComplete
    NeverOlder
    NumbersAreFinal
