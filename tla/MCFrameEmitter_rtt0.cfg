CONSTANTS
    Shapes <- MCShapes
    PACKET_WINDOW = 2
    MaxPackets = 2
    FRAME_WINDOW = 2
    MAX_FRAME_SIZE = 4
    DATA_FRAME_OVERHEAD = 1
    Budgets = {2, 5}
    Rtts = {0}
    MaxTime = 3
    MaxFlushes = 3
    MaxFlushId = 0
    HonestPeer = FALSE

SPECIFICATION Spec
INVARIANT FlushDistinct
CHECK_DEADLOCK FALSE
