CONSTANTS
    a = a
    b = b
    other = other
    FrameId = {a, b, other}
    Frames <- MCFrames
    Parts = 2
    PACKET_DUMP_SIZE = 1024
    EthernetHeader = 14

SYMMETRY Symmetry

SPECIFICATION Spec

INVARIANTS
    ResultTellsStream
    OwnRecordsWhole
    LogShowsIt
