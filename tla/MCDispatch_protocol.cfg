\* Two requests and two answers, a reader that may be cancelled, a close that does
\* not wait for it, all scheduled fairly.
SPECIFICATION FairSpec
CONSTANTS
    Files = {f1}
    Subscribers = {s1}
    Reads = {r1}
    Cancellable = {r1}
    Callers = {q1, q2}
    Broadcasters = {}
    Answers = {a1, a2}
    Ids = {1, 2, 3}
    CloseAfterIrps = FALSE
    NoOne = NoOne
\* A driver that nobody calls rests; the liveness properties say more.
CHECK_DEADLOCK FALSE
INVARIANT AnswerReachesItsRequest
PROPERTIES
    ImplementsPromise
    RequestReturns
    CancelledReadCompletes
    CloseReturns
