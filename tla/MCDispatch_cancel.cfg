\* Two cancellable reads, a broadcast and a request against two racing
\* subscriptions of one file and a close that does not wait for reads.
SPECIFICATION Spec
CONSTANTS
    Files = {f1}
    Subscribers = {s1, s2}
    Reads = {r1, r2}
    Cancellable = {r1, r2}
    Callers = {q1, q2}
    Broadcasters = {q1}
    Answers = {}
    Ids = {1, 2, 3}
    CloseAfterIrps = FALSE
    NoOne = NoOne
SYMMETRY Symmetry
INVARIANTS
    TypeOK
    PendedReadOwned
    CancelFaultsOnlyEarly
    MessageOnce
    ClosedContextEmpty
