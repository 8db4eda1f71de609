SPECIFICATION Spec
CONSTANTS
    Packets = {p1, p2}
    Contexts = {c1, c2}
    Algorithms = {aes, twofish}
    Null = Null
    Width = 3
    StateSize = 2
    Sizes = {0, 1, 5, 6, 7}
SYMMETRY Symmetry
INVARIANTS
    TypeOK
    MemorySafe
    InnerFreed
    CleanupReleases
