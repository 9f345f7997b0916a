CONSTANTS
    Shapes <- TestShapes
    PACKET_WINDOW = 16
    MaxPackets = 5
    FRAME_WINDOW = 16
    MAX_FRAME_SIZE = 4
    DATA_FRAME_OVERHEAD = 1
    Budgets = {4, 10000}
    Rtts = {100}
    MaxTime = 2301
    MaxFlushes = 23
    MaxFlushId = 1
    HonestPeer = FALSE

INIT TestInit
NEXT TestNext
INVARIANT TestAssertions
