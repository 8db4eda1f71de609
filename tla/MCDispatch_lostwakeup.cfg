\* A read pends between the failed send and the queueing.
SPECIFICATION Spec
CONSTANTS
    Files = {f1}
    Subscribers = {s1}
    Reads = {r1}
    Cancellable = {}
    Callers = {q1}
    Broadcasters = {}
    Answers = {}
    Ids = {1, 2, 3}
    CloseAfterIrps = TRUE
    NoOne = NoOne
INVARIANTS QueuedOnlyWithoutReader
