\* A read is cancelled inside DPT_Read.
SPECIFICATION Spec
CONSTANTS
    Files = {f1}
    Subscribers = {s1}
    Reads = {r1}
    Cancellable = {r1}
    Callers = {q1}
    Broadcasters = {}
    Answers = {}
    Ids = {1, 2, 3}
    CloseAfterIrps = TRUE
    NoOne = NoOne
INVARIANTS CancelFieldIsSafe
