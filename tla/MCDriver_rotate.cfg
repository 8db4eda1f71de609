\* Two threads and a worker rotate a file of one line until four were started, and the
\* driver is loaded twice.
SPECIFICATION Spec
CONSTANTS
    Threads = {t1, t2, w1}
    Deferred = {w1}
    MaxFileSize = 1
    MaxKepts = {0, 1, 3, 4}
    Limit = 3
    Generations = 4
    Loads = 2
SYMMETRY Symmetry
INVARIANTS
    TypeOK
    RotationFlag
    
    UnloadReleases
PROPERTY OnlyOldestDeleted
