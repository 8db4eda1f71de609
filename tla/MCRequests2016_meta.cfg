\* Two meta operations, two packets; sizes around the wrap of a three-bit sum.
SPECIFICATION Spec
CONSTANTS
    Operations = {o1, o2}
    Packets = {p1, p2}
    Width = 3
    HeaderSize = 2
    Sizes = {0, 1, 3, 5, 6, 7}
SYMMETRY Symmetry
INVARIANTS
    TypeOK
    RequestsSafe
    CalledBackOnce
    NothingKept
    PacketAnsweredOnce
