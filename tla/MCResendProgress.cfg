CONSTANTS
    Shapes <- MCShapes
    PACKET_WINDOW = 2
    MaxPackets = 1
    FRAME_WINDOW = 2
    MAX_FRAME_SIZE = 4
    DATA_FRAME_OVERHEAD = 1
    Budgets = {2, 5}
    Rtts = {1}
    MaxTime = 3
    MaxFlushes = 1
    MaxFlushId = 0
    HonestPeer = TRUE

SPECIFICATION ProgressSpec
PROPERTY ResendProgress
PROPERTY DataProgress
CHECK_DEADLOCK FALSE
