\* Two threads ask for the recovery status; up to two notifications.
SPECIFICATION FairSpec
\* A fault stops the machine, and a close may wait for a rundown reference for ever.
CHECK_DEADLOCK FALSE
CONSTANTS
    Queriers = {q1, q2}
    Vsp = vsp
    NoOne = none
    Notifications = 2
INVARIANTS
    TypeOK
    DirectIrpExclusive
    RundownCovers
    InstanceReleased
PROPERTIES
    OpenReturns CloseReturns
    QuerierAnswered
