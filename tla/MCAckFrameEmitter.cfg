CONSTANTS
    AckSizes = {1, 2}
    MaxAcks = 4
    MAX_FRAME_SIZE = 4
    ACK_FRAME_HEADER = 2
    SYNC_FRAME_SIZE = 3
    Budgets = {1, 3, 7}
    MaxCalls = 3

SPECIFICATION Spec
INVARIANT TypeOK
INVARIANT AckConservation
INVARIANT AckBudget
PROPERTY AckPackingMatches
CHECK_DEADLOCK FALSE
