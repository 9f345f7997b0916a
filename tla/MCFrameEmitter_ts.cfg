CONSTANTS
    Shapes <- MCShapes
    PACKET_WINDOW = 2
    MaxPackets = 2
    FRAME_WINDOW = 2
    MAX_FRAME_SIZE = 4
    DATA_FRAME_OVERHEAD = 1
    Budgets = {2, 5}
    Rtts = {1}
    MaxTime = 3
    MaxFlushes = 3
    MaxFlushId = 1
    HonestPeer = TRUE

SPECIFICATION Spec
INVARIANT TimeSensitiveDrop
CHECK_DEADLOCK FALSE
