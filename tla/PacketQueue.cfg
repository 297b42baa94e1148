SPECIFICATION QueueSpec
CONSTANTS
    MaxBuffers = 3
    MaxMemory = 7
    GuardBufLen = 3
    Zero = b0
    Byte = {b0, b1}
    DropRange = 2
INVARIANTS
    RingLayout
    LentBufferFree
    EmptyQueueAccepts
PROPERTY
    AbsSpec
