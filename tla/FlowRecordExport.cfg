SPECIFICATION RecordsSpec
CONSTANTS
    Rules = {r1, r2}
    ExpMods = {all, some}
    NRecords = 3
    Expiry = "idle"
INVARIANTS
    RecordsOwned
    ExportedOnceInOrder
PROPERTIES
    ExportFinishes
\* The meter may stop: mpc = "stopped" ends all threads.
CHECK_DEADLOCK FALSE
