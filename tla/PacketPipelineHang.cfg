SPECIFICATION Spec
CONSTANTS
    NPackets = 1
    Capacity = 2
PROPERTY
    Terminates
\* The meter may stop: mpc = "done" ends all threads.
CHECK_DEADLOCK FALSE
