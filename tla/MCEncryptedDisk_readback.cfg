SPECIFICATION Spec
CONSTANTS
    Requests = {r1, r2}
    LastSector = 1
    CdbLengths = {10, 12}
    Byte = 2
    SectorBlocks = 1
    Data = {d1}
    Keys = {k1, k2}
    NoCipher = NoCipher
    Blank = Blank
    Noise = Noise
SYMMETRY Symmetry
INVARIANTS TypeOK Decipherable
PROPERTY ImplementsStore
