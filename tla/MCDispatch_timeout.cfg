\* A request times out.
SPECIFICATION Spec
CONSTANTS
    Files = {f1}
    Subscribers = {s1}
    Reads = {}
    Cancellable = {}
    Callers = {q1}
    Broadcasters = {}
    Answers = {a1}
    Ids = {1, 2, 3}
    CloseAfterIrps = TRUE
    NoOne = NoOne
INVARIANTS SuccessHasResponse
