SPECIFICATION Spec
CONSTANTS
    NPackets = 3
    Capacity = 2
INVARIANTS
    ProcessedOnceInOrder
    DrainedBeforeExport
    SleepsOnlyWhenEmpty
PROPERTY
    EveryPacketProcessed
\* The meter may stop: mpc = "done" ends all threads.
CHECK_DEADLOCK FALSE
