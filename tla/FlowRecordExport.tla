-------------------------- MODULE FlowRecordExport --------------------------
(***************************************************************************)
(* The way of a flow record from the meter to the export modules           *)
(* (FlowRecordDB.cc, Exporter.cc).  A record is queued for export, and     *)
(* kept in a table as the latest of its rule and export modules until the  *)
(* next one replaces it.  Queue and table share the record, so whoever     *)
(* lets go of it first marks it, and the other one frees it: that is the   *)
(* whole protocol for the life of a record.                                *)
(*                                                                         *)
(* The exporter works on records without the mutex of the FlowRecordDB,    *)
(* and each of its accesses to a record is a step of its own; so is each   *)
(* part of storeData that looks at, and then changes, a shared record.     *)
(* Records are numbered in the order they are stored.                      *)
(***************************************************************************)
EXTENDS Integers, Sequences, SequencesExt

CONSTANTS Rules,        \* rules (their ids)
          ExpMods,      \* sets of export modules a record may be meant for
          NRecords,     \* bound on the records stored in a behaviour
          Expiry        \* when rules may be removed while the meter runs

\* "idle": only while none of their records waits for its export.
ASSUME ExportAssumption == NRecords \in Nat /\ Expiry \in {"idle", "any"}

Keys == Rules \X ExpMods
Records == 1 .. NRecords
None == 0

VARIABLES threaded,   \* TRUE: the exporter has a thread of its own
          rules,      \* the rules the exporter has export modules for
          elist,      \* the records to be exported, oldest first
          db,         \* the latest record of each rule and set of modules
          alive,      \* the records that are allocated
          marked,     \* the records with deleteRec set
          key,        \* the rule and export modules of each record stored
          exported,   \* history: the records given to the export modules
          spc, old, freeOld,  \* storeData: where it is, the record it replaces
          epc, cur, freeCur,  \* the exporter: where it is, the record it holds
          mpc,        \* the meter: where it is
          locked,     \* TRUE while the meter holds the exporter's mutex
          owed        \* history: records stored when the meter began to wait

\* The records the exporter has, or will have, to look at.
Queued == ToSet(elist) \cup ({cur} \ {None})

store == <<spc, old, freeOld>>
exporter == <<epc, cur, freeCur>>
recordVars == <<threaded, rules, elist, db, alive, marked, key, exported,
          store, exporter, mpc, locked, owed>>

RecordsInit ==
    /\ threaded \in BOOLEAN
    /\ rules = Rules
    /\ elist = <<>>
    /\ db = [k \in Keys |-> None]
    /\ alive = {} /\ marked = {}
    /\ key = <<>>
    /\ exported = <<>>
    /\ spc = "idle" /\ old = None /\ freeOld = FALSE
    /\ epc = IF threaded THEN "next" ELSE "idle"
    /\ cur = None /\ freeCur = FALSE
    /\ mpc = "run" /\ locked = FALSE /\ owed = 0

-----------------------------------------------------------------------------
(* storeData: by the meter, or by the processor thread for an export a     *)
(* processing module asked for.                                            *)

StoreOnly == UNCHANGED <<threaded, rules, exported, mpc, locked, owed>>

\* The record is queued; the record it replaces is looked up and tested.
StoreBegin(k) ==
    /\ mpc # "stopped" /\ spc = "idle" /\ (threaded \/ (epc = "idle" /\ mpc = "run"))
    /\ k[1] \in rules
    /\ Len(key) < NRecords
    /\ LET n == Len(key) + 1 IN
       /\ key' = Append(key, k)
       /\ alive' = alive \cup {n}
       /\ elist' = Append(elist, n)
    /\ old' = db[k]
    /\ freeOld' = (db[k] \in marked)
    /\ spc' = "replace"
    /\ UNCHANGED <<db, marked, exporter>>
    /\ StoreOnly

\* Mutant of Replace: the test of the mark is dropped.
ReplaceFreeing == alive' = alive \ {old} /\ UNCHANGED marked

\* The record replaced: freed if the exporter let go of it, else marked.
Replace ==
    IF old = None THEN UNCHANGED <<alive, marked>>
    ELSE IF freeOld THEN alive' = alive \ {old} /\ UNCHANGED marked
    ELSE marked' = marked \cup {old} /\ UNCHANGED alive

\* Mutant of Wakened: the second record in the queue wakes it.
WakenedLate(p) == IF p = "asleep" /\ Len(elist) = 2 THEN "next" ELSE p

\* An exporter that sleeps is woken when the queue was empty.
Wakened(p) == IF p = "asleep" /\ Len(elist) = 1 THEN "next" ELSE p

\* The new record takes the place of the old one.
StoreEnd ==
    /\ spc = "replace"
    /\ Replace
    /\ db' = [db EXCEPT ![Last(key)] = Len(key)]
    /\ spc' = "idle" /\ old' = None /\ freeOld' = FALSE
    /\ epc' = Wakened(epc)
    /\ UNCHANGED <<elist, key, cur, freeCur>>
    /\ StoreOnly

-----------------------------------------------------------------------------
(* The exporter: handleFDEvent, called over and over by its thread or once *)
(* per round of the meter's loop; without a thread it returns when the     *)
(* queue is empty.                                                         *)

ExporterOnly == UNCHANGED <<threaded, rules, db, key, store, locked, owed>>

Call ==
    /\ ~threaded /\ epc = "idle" /\ spc = "idle" /\ mpc = "run"
    /\ epc' = "next"
    /\ UNCHANGED <<elist, alive, marked, exported, cur, freeCur, mpc>>
    /\ ExporterOnly

PopBack == cur' = Last(elist) /\ elist' = Front(elist)  \* mutant of PopFront
PopFront == cur' = Head(elist) /\ elist' = Tail(elist)

\* getNextRec
GetNextRec ==
    /\ mpc # "stopped" /\ epc = "next" /\ spc = "idle"
    /\ IF elist = <<>>
       THEN /\ epc' = IF threaded THEN "asleep" ELSE "idle"
            /\ UNCHANGED <<elist, cur>>
       ELSE /\ PopFront
            /\ epc' = "export"
    /\ UNCHANGED <<alive, marked, exported, freeCur, mpc>>
    /\ ExporterOnly

\* exportFlowRecord, with the exporter's mutex: the record goes to the
\* modules of its rule, to none if the rule is gone.
ExportFlowRecord ==
    /\ mpc # "stopped" /\ epc = "export" /\ ~locked
    /\ exported' = IF key[cur][1] \in rules THEN Append(exported, cur) ELSE exported
    /\ epc' = "test"
    /\ UNCHANGED <<elist, alive, marked, cur, freeCur, mpc>>
    /\ ExporterOnly

TestDelete ==
    /\ mpc # "stopped" /\ epc = "test"
    /\ freeCur' = (cur \in marked)
    /\ epc' = "free"
    /\ UNCHANGED <<elist, alive, marked, exported, cur, mpc>>
    /\ ExporterOnly

\* The record is freed if the table let go of it, and marked otherwise.
LetGo ==
    IF freeCur THEN alive' = alive \ {cur} /\ UNCHANGED marked
    ELSE marked' = marked \cup {cur} /\ UNCHANGED alive

FreeOrMark ==
    /\ mpc # "stopped" /\ epc = "free"
    /\ LetGo
    /\ cur' = None /\ freeCur' = FALSE
    /\ epc' = IF threaded THEN "signal" ELSE "next"
    /\ UNCHANGED <<elist, exported, mpc>>
    /\ ExporterOnly

\* The meter is signalled when the queue is empty.
Signalled(p) == IF p = "asleep" /\ elist = <<>> THEN "lock" ELSE p

SignalDone ==
    /\ mpc # "stopped" /\ epc = "signal"
    /\ epc' = "next"
    /\ mpc' = Signalled(mpc)
    /\ UNCHANGED <<elist, alive, marked, exported, cur, freeCur>>
    /\ ExporterOnly

-----------------------------------------------------------------------------
(* The meter: removing a rule (Exporter::delRule, FlowRecordDB::delData),  *)
(* and waiting for the last exports (Exporter::waitUntilDone).             *)

MeterOnly == UNCHANGED <<threaded, elist, marked, key, exported,
                         store, exporter>>

DelRule(r) ==
    /\ Expiry = "idle" => \A n \in Queued : key[n][1] # r
    /\ mpc = "run" /\ spc = "idle" /\ (threaded \/ epc = "idle")
    /\ r \in rules
    /\ rules' = rules \ {r}
    /\ alive' = alive \ {db[k] : k \in {r} \X ExpMods}
    /\ db' = [k \in Keys |-> IF k[1] = r THEN None ELSE db[k]]
    /\ UNCHANGED <<mpc, locked, owed>>
    /\ MeterOnly

\* The main loop ends, after a last call of an exporter without thread.
Shutdown ==
    /\ mpc = "run" /\ spc = "idle"
    /\ (threaded \/ (epc = "idle" /\ elist = <<>>))
    /\ owed' = Len(key)
    /\ mpc' = IF threaded THEN "lock" ELSE "done"
    /\ UNCHANGED <<rules, db, alive, locked>>
    /\ MeterOnly

WaitLock ==
    /\ mpc = "lock"
    /\ mpc' = "check" /\ locked' = TRUE
    /\ UNCHANGED <<rules, db, alive, owed>>
    /\ MeterOnly

WaitCheck ==
    /\ mpc = "check"
    /\ mpc' = IF elist = <<>> THEN "done" ELSE "wait"
    /\ locked' = (elist # <<>>)
    /\ UNCHANGED <<rules, db, alive, owed>>
    /\ MeterOnly

WaitSleep ==
    /\ mpc = "wait"
    /\ mpc' = "asleep" /\ locked' = FALSE
    /\ UNCHANGED <<rules, db, alive, owed>>
    /\ MeterOnly

\* The components are deleted; the exporter's thread ran until now.
Stop ==
    /\ mpc = "done"
    /\ mpc' = "stopped"
    /\ UNCHANGED <<rules, db, alive, locked, owed>>
    /\ MeterOnly

-----------------------------------------------------------------------------
ExporterStep == GetNextRec \/ ExportFlowRecord \/ TestDelete \/ FreeOrMark \/ SignalDone
WaitStep == WaitLock \/ WaitCheck \/ WaitSleep

RecordsNext ==
    \/ \E k \in Keys : StoreBegin(k)
    \/ StoreEnd
    \/ Call
    \/ ExporterStep
    \/ \E r \in Rules : DelRule(r)
    \/ Shutdown
    \/ WaitStep
    \/ Stop

\* Every thread that can run does; records need not be stored, rules need
\* not be removed, and the meter need not be shut down.
RecordsSpec == RecordsInit /\ [][RecordsNext]_recordVars
        /\ WF_recordVars(StoreEnd) /\ WF_recordVars(Call) /\ WF_recordVars(ExporterStep) /\ WF_recordVars(WaitStep)

-----------------------------------------------------------------------------
\* Every variable has values of its type: the table and the queue have records
\* of the model, and the threads are where the code can stop.
TypeOK ==
    /\ threaded \in BOOLEAN /\ rules \subseteq Rules
    /\ elist \in Seq(Records)
    /\ db \in [Keys -> Records \cup {None}]
    /\ alive \subseteq Records /\ marked \subseteq Records
    /\ key \in Seq(Keys) /\ Len(key) <= NRecords
    /\ exported \in Seq(Records)
    /\ spc \in {"idle", "replace"} /\ epc \in {"idle", "next", "asleep", "export",
                                               "test", "free", "signal"}
    /\ old \in Records \cup {None} /\ cur \in Records \cup {None}
    /\ freeOld \in BOOLEAN /\ freeCur \in BOOLEAN /\ locked \in BOOLEAN
    /\ mpc \in {"run", "lock", "check", "wait", "asleep", "done", "stopped"}
    /\ owed \in 0 .. NRecords

\* The records the table refers to.
Kept == {db[k] : k \in Keys} \ {None}

\* No record is freed while it waits in the exporter's queue or the exporter
\* works on it (FlowRecord.h, deleteRec: a record is "deleted after poped
\* from the exporter queue").
QueuedRecordsAlive == Queued \subseteq alive

\* The table never refers to a freed record, whoever let go of it first.
KeptRecordsAlive == Kept \subseteq alive

\* Without a thread for the exporter, a record that nobody refers to is
\* freed.  (With one, storeData and the exporter may both find it unmarked.)
NoRecordLeaks ==
    ~threaded /\ spc = "idle" => alive \subseteq Queued \cup Kept

\* While no rule with records in the queue is removed, records are exported
\* once each and in the order they were stored: at any time, those exported
\* and those queued are all.
ExportedOnceInOrder ==
    exported \o (IF epc = "export" THEN <<cur>> ELSE <<>>) \o elist
        = [n \in 1 .. Len(key) |-> n]

\* Of every record: it lives while somebody refers to it, and no longer.
RecordsOwned == TypeOK /\ QueuedRecordsAlive /\ KeptRecordsAlive /\ NoRecordLeaks

\* Every record is exported, unless the meter shuts down first.
EveryRecordExported ==
    \A n \in Records : Len(key) >= n ~> (Contains(exported, n) \/ mpc # "run")

\* waitUntilDone returns: its wakeup cannot be lost.
WaitReturns == mpc = "lock" ~> mpc = "done"

\* No wakeup of the exporter or of the meter that waits for it is lost.
ExportFinishes == EveryRecordExported /\ WaitReturns

\* When waitUntilDone has returned, every record stored before it was called
\* has been exported (Meter.cc:1062: "wait for exporter to handle all
\* remaining exports").
DrainedAtShutdown ==
    mpc = "done" => Len(exported) >= owed
=============================================================================
