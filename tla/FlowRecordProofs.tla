-------------------------- MODULE FlowRecordProofs --------------------------
(***************************************************************************)
(* Proofs about flow records: their life, and what is measured for them.   *)
(*                                                                         *)
(* FlowRecordExport, for any number of records, rules and sets of export   *)
(* modules, with and without an exporter thread: as long as rules are      *)
(* removed only while none of their records is queued, no record is used   *)
(* after it was freed, and all are exported once and in order.             *)
(*                                                                         *)
(* ProcModules, for any numbers of packets and any constants: the          *)
(* assertions of the flow statistics hold, a connection's record is asked  *)
(* for when the connection ends, what is kept of packets fits in the       *)
(* memory that is allocated, and nothing is measured twice or forgotten.   *)
(* The distributions of the two directions are followed packet by packet.  *)
(* The two ends of a connection and the two states the module has of them  *)
(* are related by Ends: what each sees of the other's segments.            *)
(***************************************************************************)
EXTENDS ProcModules, FlowRecordExport, FiniteSetTheorems, SequenceTheorems, TLAPS

-----------------------------------------------------------------------------
(* The life of flow records *)

\* The number of the last record that is no longer in the queue.
Gone == Len(key) - Len(elist)

Holding == epc \in {"export", "test", "free"}

\* The queue has the newest records, in the order they were stored, and the
\* exporter holds the one before them.
InOrder ==
    /\ Len(elist) <= Len(key)
    /\ \A i \in 1 .. Len(elist) : elist[i] = Gone + i
    /\ cur # None <=> Holding
    /\ cur # None => cur = Gone

\* Each record before them was exported.
ExportedSoFar ==
    /\ Len(exported) = IF epc = "export" THEN Gone - 1 ELSE Gone
    /\ \A i \in 1 .. Len(exported) : exported[i] = i

\* The table has a record where its key says.  The newest one is not in the
\* table until storeData is done with the one it replaces, which is known.
TableByKey ==
    /\ \A k \in Keys : db[k] # None => db[k] <= Len(key) /\ key[db[k]] = k
    /\ spc = "replace" => /\ elist # <<>> /\ Len(key) \notin marked
                          /\ \A k \in Keys : db[k] # Len(key)
                          /\ old = db[Last(key)]

\* A record is marked by the first of the two, table and exporter, that lets
\* go of it; a test that found it marked stays true.
MarkedOnceLetGo ==
    /\ \A n \in marked : n <= Len(key) /\ ~(n \in Kept /\ n \in Queued)
    /\ spc = "replace" /\ freeOld => old \notin Queued
    /\ epc = "free" /\ freeCur => cur \notin Kept

\* Without a thread nothing happens between test and mark: what is unmarked
\* is in table and queue.
NothingBetween ==
    ~threaded =>
        /\ spc = "replace" => epc = "idle" /\ (freeOld <=> old \in marked)
        /\ epc = "free" => (freeCur <=> cur \in marked)
        /\ alive \subseteq Queued \cup Kept
        /\ \A n \in Kept \ marked : n \in Queued
        /\ \A n \in Queued \ marked : n \in Kept \/ (spc = "replace" /\ n = Len(key))

\* The rule of a queued record is there.
RulesOfQueued == \A n \in Queued : n <= Len(key) /\ key[n][1] \in rules

\* The inductive invariant.
IInv ==
    /\ TypeOK
    /\ InOrder
    /\ ExportedSoFar
    /\ TableByKey
    /\ MarkedOnceLetGo
    /\ NothingBetween
    /\ RulesOfQueued
    /\ QueuedRecordsAlive
    /\ KeptRecordsAlive

USE ExportAssumption DEF Records, None

-----------------------------------------------------------------------------
(* Queues. *)

LEMMA AppendSet ==
    ASSUME NEW S, NEW e \in Seq(S), NEW n \in S
    PROVE  /\ Append(e, n) \in Seq(S) /\ Len(Append(e, n)) = Len(e) + 1
           /\ ToSet(Append(e, n)) = ToSet(e) \cup {n}
<1>1. Append(e, n) \in Seq(S) /\ Len(Append(e, n)) = Len(e) + 1
  OBVIOUS
<1>2. ToSet(Append(e, n)) \subseteq ToSet(e) \cup {n}
  BY DEF ToSet
<1>3. n \in ToSet(Append(e, n))
  <2>1. Append(e, n)[Len(e) + 1] = n /\ Len(e) + 1 \in DOMAIN Append(e, n)
    OBVIOUS
  <2> QED BY <2>1 DEF ToSet
<1>4. ToSet(e) \subseteq ToSet(Append(e, n))
  <2> SUFFICES ASSUME NEW i \in DOMAIN e PROVE e[i] \in ToSet(Append(e, n))
    BY DEF ToSet
  <2>1. Append(e, n)[i] = e[i] /\ i \in DOMAIN Append(e, n)
    OBVIOUS
  <2> QED BY <2>1 DEF ToSet
<1> QED BY <1>1, <1>2, <1>3, <1>4

LEMMA HeadAndTailSet ==
    ASSUME NEW S, NEW e \in Seq(S), e # <<>>
    PROVE  /\ Head(e) \in S /\ Tail(e) \in Seq(S) /\ Len(Tail(e)) = Len(e) - 1
           /\ \A i \in 1 .. Len(Tail(e)) : Tail(e)[i] = e[i + 1]
           /\ ToSet(Tail(e)) \cup {Head(e)} = ToSet(e)
<1>1. /\ Head(e) \in S /\ Tail(e) \in Seq(S) /\ Len(Tail(e)) = Len(e) - 1
      /\ \A i \in 1 .. Len(Tail(e)) : Tail(e)[i] = e[i + 1]
      /\ Head(e) = e[1] /\ 1 \in DOMAIN e
  OBVIOUS
<1>2. ToSet(Tail(e)) \cup {Head(e)} \subseteq ToSet(e)
  <2>1. \A i \in DOMAIN Tail(e) : i + 1 \in DOMAIN e /\ Tail(e)[i] = e[i + 1]
    BY <1>1
  <2> QED BY <1>1, <2>1 DEF ToSet
<1>3. ToSet(e) \subseteq ToSet(Tail(e)) \cup {Head(e)}
  <2> SUFFICES ASSUME NEW i \in DOMAIN e PROVE e[i] \in ToSet(Tail(e)) \cup {Head(e)}
    BY DEF ToSet
  <2>1. CASE i = 1
    BY <1>1, <2>1
  <2>2. CASE i # 1
    <3>1. i - 1 \in DOMAIN Tail(e) /\ Tail(e)[i - 1] = e[i]
      BY <1>1, <2>2
    <3> QED BY <3>1 DEF ToSet
  <2> QED BY <2>1, <2>2
<1> QED BY <1>1, <1>2, <1>3

\* The queue is not empty just if there is a record in it.
LEMMA QueuedAfter ==
    ASSUME TypeOK, InOrder
    PROVE  /\ Gone \in Nat /\ Len(key) \in Nat
           /\ \A n \in ToSet(elist) : n \in Nat /\ Gone < n /\ n <= Len(key)
           /\ elist # <<>> => Len(key) \in ToSet(elist)
           /\ \A n \in Queued : n \in Records /\ n <= Len(key)
<1>1. /\ elist \in Seq(Records) /\ key \in Seq(Keys) /\ cur \in Records \cup {None}
      /\ Len(elist) \in Nat /\ Len(key) \in Nat /\ Gone \in Nat /\ Gone + Len(elist) = Len(key)
  BY DEF TypeOK, InOrder, Gone
<1>2. \A i \in DOMAIN elist : elist[i] = Gone + i /\ i \in Nat /\ 1 <= i /\ i <= Len(elist)
  BY <1>1 DEF InOrder
<1>3. \A n \in ToSet(elist) : n \in Nat /\ Gone < n /\ n <= Len(key)
  BY <1>1, <1>2 DEF ToSet
<1>4. elist # <<>> => Len(key) \in ToSet(elist)
  <2> SUFFICES ASSUME elist # <<>> PROVE Len(key) \in ToSet(elist)
    OBVIOUS
  <2>1. Len(elist) \in DOMAIN elist
    BY <1>1
  <2> QED BY <1>1, <1>2, <2>1 DEF ToSet
<1>5. ToSet(elist) \subseteq Records
  BY <1>1 DEF ToSet
<1>6. \A n \in Queued : n \in Records /\ n <= Len(key)
  BY <1>1, <1>3, <1>5 DEF Queued, InOrder
<1> QED BY <1>1, <1>3, <1>4, <1>6

-----------------------------------------------------------------------------
\* At the start there is no record.
LEMMA InitLemma == RecordsInit => IInv
<1> SUFFICES ASSUME RecordsInit PROVE IInv
  OBVIOUS
<1>1. /\ elist = <<>> /\ key = <<>> /\ exported = <<>> /\ cur = None /\ old = None
      /\ spc = "idle" /\ epc \in {"next", "idle"} /\ mpc = "run" /\ owed = 0
      /\ alive = {} /\ marked = {} /\ rules = Rules /\ db = [k \in Keys |-> None]
      /\ threaded \in BOOLEAN /\ freeOld = FALSE /\ freeCur = FALSE /\ locked = FALSE
  BY DEF RecordsInit
<1>2. Queued = {} /\ Kept = {}
  BY <1>1 DEF Queued, Kept, ToSet
<1>3. TypeOK
  <2>1. elist \in Seq(Records) /\ exported \in Seq(Records) /\ key \in Seq(Keys)
        /\ Len(key) <= NRecords /\ db \in [Keys -> Records \cup {None}]
    BY <1>1
  <2>2. rules \subseteq Rules /\ alive \subseteq Records /\ marked \subseteq Records
    BY <1>1
  <2>3. owed \in 0 .. NRecords /\ old \in Records \cup {None} /\ cur \in Records \cup {None}
    BY <1>1
  <2>4. /\ spc \in {"idle", "replace"}
        /\ epc \in {"idle", "next", "asleep", "export", "test", "free", "signal"}
        /\ mpc \in {"run", "lock", "check", "wait", "asleep", "done", "stopped"}
    BY <1>1
  <2>5. threaded \in BOOLEAN /\ freeOld \in BOOLEAN /\ freeCur \in BOOLEAN /\ locked \in BOOLEAN
    BY <1>1
  <2> QED BY <2>1, <2>2, <2>3, <2>4, <2>5 DEF TypeOK
<1>4. InOrder /\ ExportedSoFar
  <2>1. Len(elist) = 0 /\ Len(key) = 0 /\ Len(exported) = 0 /\ Gone = 0
    BY <1>1 DEF Gone
  <2>2. ~Holding /\ epc # "export"
    BY <1>1 DEF Holding
  <2>3. InOrder
    BY <1>1, <2>1, <2>2 DEF InOrder
  <2>4. Len(exported) = IF epc = "export" THEN Gone - 1 ELSE Gone
    BY <2>1, <2>2
  <2>5. \A i \in 1 .. Len(exported) : exported[i] = i
    BY <2>1
  <2>6. ExportedSoFar
    BY <2>4, <2>5 DEF ExportedSoFar
  <2> QED BY <2>3, <2>6
<1>5. TableByKey /\ MarkedOnceLetGo /\ NothingBetween /\ RulesOfQueued
  BY <1>1, <1>2 DEF TableByKey, MarkedOnceLetGo, NothingBetween, RulesOfQueued
<1>6. QueuedRecordsAlive /\ KeptRecordsAlive
  BY <1>2 DEF QueuedRecordsAlive, KeptRecordsAlive
<1> QED BY <1>3, <1>4, <1>5, <1>6 DEF IInv

-----------------------------------------------------------------------------
(* The steps. *)

\* storeData begins: the new record is in the queue and not in the table.
LEMMA StoreBeginLemma ==
    ASSUME IInv, NEW k \in Keys, StoreBegin(k)
    PROVE  IInv'
<1> USE DEF IInv
<1> DEFINE n == Len(key) + 1
<1>1. /\ spc = "idle" /\ Len(key) < NRecords /\ k[1] \in rules
      /\ key' = Append(key, k) /\ alive' = alive \cup {n} /\ elist' = Append(elist, n)
      /\ old' = db[k] /\ freeOld' = (db[k] \in marked) /\ spc' = "replace"
      /\ UNCHANGED <<db, marked, epc, cur, freeCur, threaded, rules, exported, mpc, locked, owed>>
      /\ threaded \/ epc = "idle"
  BY DEF StoreBegin, StoreOnly, exporter
<1>2. /\ elist \in Seq(Records) /\ key \in Seq(Keys) /\ n \in Records /\ n \in Nat
      /\ Len(key) \in Nat /\ Len(elist) \in Nat /\ n > Len(key)
  BY <1>1 DEF TypeOK
<1>3. /\ elist' \in Seq(Records) /\ Len(elist') = Len(elist) + 1
      /\ ToSet(elist') = ToSet(elist) \cup {n}
  BY <1>1, <1>2, AppendSet
<1>4. /\ key' \in Seq(Keys) /\ Len(key') = n /\ key'[n] = k /\ elist' # <<>>
      /\ \A i \in 1 .. Len(key) : key'[i] = key[i]
      /\ elist'[Len(elist) + 1] = n /\ \A i \in 1 .. Len(elist) : elist'[i] = elist[i]
  BY <1>1, <1>2
<1>5. Queued' = Queued \cup {n} /\ Kept' = Kept
  BY <1>1, <1>3 DEF Queued, Kept
<1>6. Gone' = Gone /\ Gone \in Nat /\ Gone + Len(elist) = Len(key)
  BY <1>2, <1>3, <1>4 DEF Gone, InOrder
<1>7. /\ \A m \in Queued : m \in Nat /\ m <= Len(key) /\ m # n
      /\ \A m \in Kept : m \in Nat /\ m <= Len(key) /\ m # n
      /\ \A m \in marked : m \in Nat /\ m <= Len(key) /\ m # n
  <2>1. \A m \in Queued : m \in Nat /\ m <= Len(key)
    BY QueuedAfter
  <2>2. \A m \in Kept : m \in Nat /\ m <= Len(key)
    BY DEF Kept, TableByKey, TypeOK
  <2>3. \A m \in marked : m \in Nat /\ m <= Len(key)
    BY DEF MarkedOnceLetGo, TypeOK
  <2> QED BY <1>2, <2>1, <2>2, <2>3
<1>8. db[k] \in Records \cup {None}
  BY DEF TypeOK
<1>9. TypeOK'
  <2>1. old' \in Records \cup {None} /\ freeOld' \in BOOLEAN /\ spc' \in {"idle", "replace"}
    BY <1>1, <1>8
  <2>2. alive' \subseteq Records /\ Len(key') <= NRecords
    <3>1. alive \subseteq Records
      BY DEF TypeOK
    <3>2. n <= NRecords
      BY <1>2
    <3> QED BY <1>1, <1>2, <1>4, <3>1, <3>2
  <2>3. /\ threaded \in BOOLEAN /\ rules \subseteq Rules /\ db \in [Keys -> Records \cup {None}]
        /\ marked \subseteq Records /\ exported \in Seq(Records) /\ cur \in Records \cup {None}
        /\ freeCur \in BOOLEAN /\ locked \in BOOLEAN /\ owed \in 0 .. NRecords
    BY DEF TypeOK
  <2>4. /\ epc \in {"idle", "next", "asleep", "export", "test", "free", "signal"}
        /\ mpc \in {"run", "lock", "check", "wait", "asleep", "done", "stopped"}
    BY DEF TypeOK
  <2> QED BY <1>1, <1>3, <1>4, <2>1, <2>2, <2>3, <2>4 DEF TypeOK
<1>10. InOrder'
  <2>1. ASSUME NEW i \in 1 .. Len(elist') PROVE elist'[i] = Gone + i
    <3>1. CASE i = Len(elist) + 1
      <4>1. elist'[i] = n
        BY <1>4, <3>1
      <4>2. Gone + i = n
        BY <1>2, <1>6, <3>1
      <4> QED BY <4>1, <4>2
    <3>2. CASE i \in 1 .. Len(elist)
      BY <1>4, <3>2 DEF InOrder
    <3> QED BY <1>2, <1>3, <3>1, <3>2
  <2> QED BY <1>1, <1>2, <1>3, <1>4, <1>6, <2>1 DEF InOrder, Holding
<1>11. ExportedSoFar'
  BY <1>1, <1>6 DEF ExportedSoFar
<1>12. TableByKey'
  <2>1. \A c \in Keys : db[c] # None => db[c] \in 1 .. Len(key)
    BY <1>2 DEF TableByKey, TypeOK
  <2>2. \A c \in Keys : db[c] # None => db[c] <= n /\ key'[db[c]] = c
    BY <1>2, <1>4, <2>1 DEF TableByKey
  <2>3. \A c \in Keys : db[c] # n
    BY <1>2, <2>1 DEF None
  <2>4. Last(key') = k
    BY <1>4 DEF Last
  <2> QED BY <1>1, <1>4, <1>7, <2>2, <2>3, <2>4 DEF TableByKey
<1>13. MarkedOnceLetGo'
  <2>1. freeOld' => old' \notin Queued'
    <3> SUFFICES ASSUME db[k] \in marked PROVE db[k] \notin Queued'
      BY <1>1
    <3>1. db[k] \in Kept
      BY DEF TypeOK, Kept
    <3>2. db[k] \notin Queued /\ db[k] # n
      BY <1>7, <3>1 DEF MarkedOnceLetGo
    <3> QED BY <1>5, <3>2
  <2>2. \A m \in marked : m <= n /\ ~(m \in Kept /\ m \in Queued')
    BY <1>2, <1>5, <1>7 DEF MarkedOnceLetGo
  <2> QED BY <1>1, <1>4, <1>5, <2>1, <2>2 DEF MarkedOnceLetGo
<1>14. NothingBetween'
  <2> SUFFICES ASSUME ~threaded PROVE NothingBetween'
    BY <1>1 DEF NothingBetween
  <2>1. epc = "idle" /\ (freeOld' <=> old' \in marked')
    BY <1>1
  <2>2. alive' \subseteq Queued' \cup Kept'
    BY <1>1, <1>5 DEF NothingBetween
  <2>3. \A m \in Kept' \ marked' : m \in Queued'
    BY <1>1, <1>5 DEF NothingBetween
  <2>4. \A m \in Queued' \ marked' : m \in Kept' \/ m = n
    BY <1>1, <1>5 DEF NothingBetween
  <2> QED BY <1>1, <1>4, <2>1, <2>2, <2>3, <2>4 DEF NothingBetween
<1>15. RulesOfQueued'
  <2>1. \A m \in Queued : m \in 1 .. Len(key)
    BY <1>2, <1>7, QueuedAfter
  <2> QED BY <1>1, <1>2, <1>4, <1>5, <2>1 DEF RulesOfQueued
<1>16. QueuedRecordsAlive' /\ KeptRecordsAlive'
  BY <1>1, <1>5 DEF QueuedRecordsAlive, KeptRecordsAlive
<1> QED BY <1>9, <1>10, <1>11, <1>12, <1>13, <1>14, <1>15, <1>16

\* storeData ends: the new record replaces the old one in the table.
LEMMA StoreEndLemma == IInv /\ StoreEnd => IInv'
<1> SUFFICES ASSUME IInv, StoreEnd PROVE IInv'
  OBVIOUS
<1> USE DEF IInv
<1> DEFINE n == Len(key)
           k0 == Last(key)
<1>1. /\ spc = "replace" /\ Replace /\ db' = [db EXCEPT ![k0] = n]
      /\ spc' = "idle" /\ old' = None /\ freeOld' = FALSE /\ epc' = Wakened(epc)
      /\ UNCHANGED <<elist, key, cur, freeCur, threaded, rules, exported, mpc, locked, owed>>
  BY DEF StoreEnd, StoreOnly
<1>2. /\ elist # <<>> /\ n \notin marked /\ \A k \in Keys : db[k] # n
      /\ old = db[k0]
  BY <1>1 DEF TableByKey
<1>3. /\ n \in Nat /\ Gone \in Nat /\ Gone < n /\ n \in Queued /\ n \in Records
      /\ \A m \in Queued : m \in Nat /\ m <= n
  BY <1>2, QueuedAfter DEF Queued
<1>4. key \in Seq(Keys) /\ k0 = key[n] /\ k0 \in Keys /\ db \in [Keys -> Records \cup {None}]
  BY <1>3 DEF TypeOK, Last
<1>5. old \in Records \cup {None} /\ old # n
  BY <1>2, <1>4
<1>6. Kept' = (Kept \ {old}) \cup {n}
  <2>1. ASSUME NEW k \in Keys, k # k0, db[k] = old PROVE old = None
    BY <1>2, <1>4, <2>1 DEF TableByKey
  <2>2. /\ db'[k0] = n /\ \A k \in Keys : k # k0 => db'[k] = db[k]
    BY <1>1, <1>4
  <2>3. ASSUME NEW m, m \in Kept' PROVE m \in (Kept \ {old}) \cup {n}
    BY <2>1, <2>2, <2>3 DEF Kept
  <2>4. ASSUME NEW m, m \in (Kept \ {old}) \cup {n} PROVE m \in Kept'
    BY <1>2, <1>3, <1>4, <2>2, <2>4 DEF Kept
  <2> QED BY <2>3, <2>4
<1>7. /\ Queued' = Queued /\ Gone' = Gone
      /\ Holding' = Holding /\ (epc' = "export") = (epc = "export") /\ (epc' = "free") = (epc = "free")
  BY <1>1 DEF Queued, Gone, Holding, Wakened
<1>8. /\ alive' = IF old # None /\ freeOld THEN alive \ {old} ELSE alive
      /\ marked' = IF old # None /\ ~freeOld THEN marked \cup {old} ELSE marked
  BY <1>1 DEF Replace
<1>9. n \notin Kept /\ (freeOld => old \notin Queued)
  BY <1>1, <1>2 DEF Kept, MarkedOnceLetGo
<1>10. TypeOK'
  <2>1. db' \in [Keys -> Records \cup {None}]
    BY <1>1, <1>3, <1>4
  <2>2. alive' \subseteq Records /\ marked' \subseteq Records
    BY <1>5, <1>8 DEF TypeOK
  <2>3. epc' \in {"idle", "next", "asleep", "export", "test", "free", "signal"}
    BY <1>1 DEF TypeOK, Wakened
  <2> QED BY <1>1, <2>1, <2>2, <2>3 DEF TypeOK
<1>11. InOrder' /\ ExportedSoFar'
  BY <1>1, <1>7 DEF InOrder, ExportedSoFar
<1>12. TableByKey'
  <2>1. ASSUME NEW k \in Keys, db'[k] # None PROVE db'[k] <= n /\ key[db'[k]] = k
    BY <1>1, <1>3, <1>4, <2>1 DEF TableByKey
  <2> QED BY <1>1, <2>1 DEF TableByKey
<1>13. MarkedOnceLetGo'
  <2>1. ASSUME NEW m \in marked' PROVE m <= n /\ ~(m \in Kept' /\ m \in Queued)
    <3>1. CASE m \in marked
      BY <1>2, <1>6, <3>1 DEF MarkedOnceLetGo
    <3>2. CASE m = old /\ old # None
      <4>1. m <= n
        BY <1>2, <1>4, <3>2 DEF TableByKey
      <4> QED BY <1>5, <1>6, <3>2, <4>1
    <3> QED BY <1>8, <2>1, <3>1, <3>2
  <2>2. epc = "free" /\ freeCur => cur \notin Kept'
    <3> SUFFICES ASSUME epc = "free", freeCur PROVE cur \notin Kept'
      OBVIOUS
    <3>1. cur \notin Kept /\ cur # n
      BY <1>3 DEF MarkedOnceLetGo, InOrder, Holding
    <3> QED BY <1>6, <3>1
  <2> QED BY <1>1, <1>7, <2>1, <2>2 DEF MarkedOnceLetGo
<1>14. NothingBetween'
  <2> SUFFICES ASSUME ~threaded PROVE NothingBetween'
    BY <1>1 DEF NothingBetween
  <2>1. epc = "idle" /\ (freeOld <=> old \in marked)
    BY <1>1 DEF NothingBetween
  <2>2. ASSUME NEW m \in alive' PROVE m \in Queued \cup Kept'
    <3>1. m \in Queued \cup Kept
      BY <1>8 DEF NothingBetween
    <3>2. CASE m = old /\ m \in Kept
      BY <1>8, <2>1, <3>2 DEF NothingBetween, Kept
    <3> QED BY <1>6, <3>1, <3>2
  <2>3. \A m \in Kept' \ marked' : m \in Queued
    BY <1>3, <1>6, <1>8 DEF NothingBetween
  <2>4. ASSUME NEW m \in Queued \ marked' PROVE m \in Kept'
    <3>1. m \notin marked /\ m # None
      BY <1>8, QueuedAfter
    <3>2. m \in Kept \/ m = n
      BY <3>1 DEF NothingBetween
    <3>3. m # old
      BY <1>8, <2>1, <3>1
    <3> QED BY <1>6, <3>2, <3>3
  <2> QED BY <1>1, <1>7, <2>1, <2>2, <2>3, <2>4 DEF NothingBetween
<1>15. RulesOfQueued'
  BY <1>1, <1>7 DEF RulesOfQueued
<1>16. QueuedRecordsAlive' /\ KeptRecordsAlive'
  BY <1>3, <1>5, <1>6, <1>7, <1>8, <1>9 DEF QueuedRecordsAlive, KeptRecordsAlive
<1> QED BY <1>10, <1>11, <1>12, <1>13, <1>14, <1>15, <1>16

\* A step that changes no record, and does not begin or end the exporter's
\* work on one, changes nothing the invariant is about.
LEMMA QuietLemma ==
    ASSUME IInv, TypeOK',
           UNCHANGED <<threaded, rules, elist, db, alive, marked, key, exported,
                       spc, old, freeOld, cur, freeCur>>,
           epc' = epc \/ (spc = "idle" /\ epc' = "next" /\ epc = "idle")
               \/ (epc' = "next" /\ epc = "signal")
    PROVE  IInv'
<1> USE DEF IInv
<1>1. /\ Queued' = Queued /\ Kept' = Kept /\ Gone' = Gone
      /\ Holding' = Holding /\ (epc' = "export") = (epc = "export") /\ (epc' = "free") = (epc = "free")
  BY DEF Queued, Kept, Gone, Holding
<1>2. InOrder' /\ ExportedSoFar'
  BY <1>1 DEF InOrder, ExportedSoFar
<1>3. TableByKey'
  BY DEF TableByKey
<1>4. MarkedOnceLetGo'
  BY <1>1 DEF MarkedOnceLetGo
<1>5. NothingBetween'
  BY <1>1 DEF NothingBetween
<1>6. RulesOfQueued' /\ QueuedRecordsAlive' /\ KeptRecordsAlive'
  BY <1>1 DEF RulesOfQueued, QueuedRecordsAlive, KeptRecordsAlive
<1> QED BY <1>2, <1>3, <1>4, <1>5, <1>6

\* getNextRec: an empty queue changes no record; else the oldest record goes
\* from the queue to the exporter.
LEMMA GetNextRecLemma == IInv /\ GetNextRec => IInv'
<1> SUFFICES ASSUME IInv, GetNextRec PROVE IInv'
  OBVIOUS
<1> USE DEF IInv
<1>1. /\ epc = "next" /\ spc = "idle"
      /\ UNCHANGED <<alive, marked, exported, freeCur, mpc, threaded, rules, db, key,
                     spc, old, freeOld, locked, owed>>
  BY DEF GetNextRec, ExporterOnly, store
<1>2. cur = None /\ Queued = ToSet(elist)
  BY <1>1 DEF InOrder, Holding, Queued
<1>3. Kept' = Kept
  BY <1>1 DEF Kept
<1>4. CASE elist = <<>>
  <2>1. elist' = elist /\ cur' = cur /\ epc' \in {"asleep", "idle"}
    BY <1>4 DEF GetNextRec
  <2>2. Queued' = Queued /\ Gone' = Gone
    BY <1>1, <2>1 DEF Queued, Gone
  <2>3. TypeOK'
    BY <1>1, <2>1 DEF TypeOK
  <2>4. InOrder' /\ ExportedSoFar'
    BY <1>1, <1>2, <2>1, <2>2 DEF InOrder, ExportedSoFar, Holding
  <2>5. TableByKey' /\ MarkedOnceLetGo'
    BY <1>1, <1>3, <2>1, <2>2 DEF TableByKey, MarkedOnceLetGo
  <2>6. NothingBetween' /\ RulesOfQueued' /\ QueuedRecordsAlive' /\ KeptRecordsAlive'
    BY <1>1, <1>3, <2>1, <2>2
       DEF NothingBetween, RulesOfQueued, QueuedRecordsAlive, KeptRecordsAlive
  <2> QED BY <2>3, <2>4, <2>5, <2>6
<1>5. CASE elist # <<>>
  <2>1. cur' = Head(elist) /\ elist' = Tail(elist) /\ epc' = "export"
    BY <1>5 DEF GetNextRec, PopFront
  <2>2. /\ elist \in Seq(Records) /\ key \in Seq(Keys) /\ Len(key) \in Nat /\ Len(elist) \in Nat
        /\ Len(elist) > 0 /\ Len(elist) <= Len(key)
    BY <1>5 DEF TypeOK, InOrder
  <2>3. /\ cur' \in Records /\ elist' \in Seq(Records) /\ Len(elist') = Len(elist) - 1
        /\ \A i \in 1 .. Len(elist') : elist'[i] = elist[i + 1]
        /\ ToSet(elist') \cup {cur'} = ToSet(elist)
    BY <1>5, <2>1, <2>2, HeadAndTailSet
  <2>4. Gone' = Gone + 1 /\ Gone \in Nat
    BY <1>1, <2>2, <2>3 DEF Gone
  <2>5. cur' # None /\ cur' = Gone'
    <3>1. cur' = elist[1]
      BY <2>1, <2>2
    <3>2. elist[1] = Gone + 1
      BY <2>2 DEF InOrder
    <3> QED BY <2>4, <3>1, <3>2
  <2>6. Queued' = Queued
    BY <1>2, <2>3, <2>5 DEF Queued
  <2>7. TypeOK'
    BY <1>1, <2>1, <2>3 DEF TypeOK
  <2>8. InOrder'
    <3>1. \A i \in 1 .. Len(elist') : elist'[i] = Gone' + i
      BY <2>2, <2>3, <2>4 DEF InOrder
    <3>2. Len(elist') <= Len(key')
      BY <1>1, <2>2, <2>3
    <3> QED BY <2>1, <2>5, <3>1, <3>2 DEF InOrder, Holding
  <2>9. ExportedSoFar'
    <3>1. Len(exported) = Gone
      BY <1>1 DEF ExportedSoFar
    <3> QED BY <1>1, <2>1, <2>4, <3>1 DEF ExportedSoFar
  <2>10. TableByKey' /\ MarkedOnceLetGo'
    BY <1>1, <1>3, <2>1, <2>6 DEF TableByKey, MarkedOnceLetGo
  <2>11. NothingBetween' /\ RulesOfQueued' /\ QueuedRecordsAlive' /\ KeptRecordsAlive'
    BY <1>1, <1>3, <2>1, <2>6
       DEF NothingBetween, RulesOfQueued, QueuedRecordsAlive, KeptRecordsAlive
  <2> QED BY <2>7, <2>8, <2>9, <2>10, <2>11
<1> QED BY <1>4, <1>5

\* The record the exporter holds is the next one to be exported, and its rule
\* is there.
LEMMA ExportFlowRecordLemma == IInv /\ ExportFlowRecord => IInv'
<1> SUFFICES ASSUME IInv, ExportFlowRecord PROVE IInv'
  OBVIOUS
<1> USE DEF IInv
<1>1. /\ epc = "export" /\ epc' = "test"
      /\ exported' = IF key[cur][1] \in rules THEN Append(exported, cur) ELSE exported
      /\ UNCHANGED <<elist, alive, marked, cur, freeCur, mpc, threaded, rules, db, key,
                     spc, old, freeOld, locked, owed>>
  BY DEF ExportFlowRecord, ExporterOnly, store
<1>2. cur # None /\ cur = Gone /\ cur \in Records /\ cur \in Queued
  BY <1>1 DEF InOrder, Holding, TypeOK, Queued
<1>3. exported' = Append(exported, cur)
  BY <1>1, <1>2 DEF RulesOfQueued
<1>4. Queued' = Queued /\ Kept' = Kept /\ Gone' = Gone
  BY <1>1 DEF Queued, Kept, Gone
<1>5. exported \in Seq(Records) /\ Len(exported) = Gone - 1 /\ Gone \in Nat /\ Len(exported) \in Nat
  BY <1>1, <1>2, QueuedAfter DEF TypeOK, ExportedSoFar
<1>6. /\ exported' \in Seq(Records) /\ Len(exported') = Gone
      /\ exported'[Gone] = Gone
      /\ \A i \in 1 .. Len(exported) : exported'[i] = exported[i]
  BY <1>2, <1>3, <1>5
<1>7. TypeOK'
  BY <1>1, <1>6 DEF TypeOK
<1>8. InOrder'
  BY <1>1, <1>2, <1>4 DEF InOrder, Holding
<1>9. ExportedSoFar'
  <2>1. ASSUME NEW i \in 1 .. Len(exported') PROVE exported'[i] = i
    <3>1. CASE i = Gone
      BY <1>6, <3>1
    <3>2. CASE i # Gone
      <4>1. i \in 1 .. Len(exported)
        BY <1>5, <1>6, <3>2
      <4> QED BY <1>6, <4>1 DEF ExportedSoFar
    <3> QED BY <3>1, <3>2
  <2> QED BY <1>1, <1>4, <1>6, <2>1 DEF ExportedSoFar
<1>10. TableByKey' /\ MarkedOnceLetGo'
  BY <1>1, <1>4 DEF TableByKey, MarkedOnceLetGo
<1>11. NothingBetween' /\ RulesOfQueued' /\ QueuedRecordsAlive' /\ KeptRecordsAlive'
  BY <1>1, <1>4 DEF NothingBetween, RulesOfQueued, QueuedRecordsAlive, KeptRecordsAlive
<1> QED BY <1>7, <1>8, <1>9, <1>10, <1>11

\* A queued record that is marked is not in the table.
LEMMA TestDeleteLemma == IInv /\ TestDelete => IInv'
<1> SUFFICES ASSUME IInv, TestDelete PROVE IInv'
  OBVIOUS
<1> USE DEF IInv
<1>1. /\ epc = "test" /\ epc' = "free" /\ freeCur' = (cur \in marked)
      /\ UNCHANGED <<elist, alive, marked, exported, cur, mpc, threaded, rules, db, key,
                     spc, old, freeOld, locked, owed>>
  BY DEF TestDelete, ExporterOnly, store
<1>2. cur # None /\ cur \in Queued
  BY <1>1 DEF InOrder, Holding, Queued
<1>3. Queued' = Queued /\ Kept' = Kept /\ Gone' = Gone
  BY <1>1 DEF Queued, Kept, Gone
<1>4. TypeOK'
  <2>1. freeCur' \in BOOLEAN
    BY <1>1
  <2> QED BY <1>1, <2>1 DEF TypeOK
<1>5. InOrder' /\ ExportedSoFar'
  BY <1>1, <1>3 DEF InOrder, Holding, ExportedSoFar
<1>6. TableByKey'
  BY <1>1 DEF TableByKey
<1>7. MarkedOnceLetGo'
  <2>1. freeCur' => cur \notin Kept
    BY <1>1, <1>2 DEF MarkedOnceLetGo
  <2> QED BY <1>1, <1>3, <2>1 DEF MarkedOnceLetGo
<1>8. NothingBetween'
  BY <1>1, <1>3 DEF NothingBetween
<1>9. RulesOfQueued' /\ QueuedRecordsAlive' /\ KeptRecordsAlive'
  BY <1>1, <1>3 DEF RulesOfQueued, QueuedRecordsAlive, KeptRecordsAlive
<1> QED BY <1>4, <1>5, <1>6, <1>7, <1>8, <1>9

\* The exporter lets go of its record: it frees it if the table did, and else
\* leaves that to the table.
LEMMA FreeOrMarkLemma == IInv /\ FreeOrMark => IInv'
<1> SUFFICES ASSUME IInv, FreeOrMark PROVE IInv'
  OBVIOUS
<1> USE DEF IInv
<1>1. /\ epc = "free" /\ LetGo /\ cur' = None /\ freeCur' = FALSE
      /\ epc' \in {"signal", "next"}
      /\ UNCHANGED <<elist, exported, mpc, threaded, rules, db, key, spc, old, freeOld, locked, owed>>
  BY DEF FreeOrMark, ExporterOnly, store
<1>2. /\ alive' = IF freeCur THEN alive \ {cur} ELSE alive
      /\ marked' = IF freeCur THEN marked ELSE marked \cup {cur}
  BY <1>1 DEF LetGo
<1>3. cur # None /\ cur = Gone /\ cur \in Records /\ cur \in Queued /\ cur <= Len(key)
  BY <1>1, QueuedAfter DEF InOrder, Holding, TypeOK, Queued
<1>4. Queued' = Queued \ {cur}
  <2>1. cur \notin ToSet(elist)
    BY <1>3, QueuedAfter
  <2> QED BY <1>1, <1>3, <2>1 DEF Queued
<1>5. Kept' = Kept /\ Gone' = Gone
  BY <1>1 DEF Kept, Gone
<1>6. freeCur => cur \notin Kept
  BY <1>1 DEF MarkedOnceLetGo
<1>7. TypeOK'
  <2>1. alive' \subseteq Records /\ marked' \subseteq Records
    BY <1>2, <1>3 DEF TypeOK
  <2>2. epc' \in {"idle", "next", "asleep", "export", "test", "free", "signal"}
    BY <1>1
  <2>3. freeCur' \in BOOLEAN /\ cur' \in Records \cup {None}
    BY <1>1
  <2> QED BY <1>1, <2>1, <2>2, <2>3 DEF TypeOK
<1>8. InOrder' /\ ExportedSoFar'
  BY <1>1, <1>5 DEF InOrder, ExportedSoFar, Holding
<1>9. TableByKey'
  <2>1. spc = "replace" => Len(key) \notin marked'
    <3> SUFFICES ASSUME spc = "replace" PROVE Len(key) \notin marked'
      OBVIOUS
    <3>1. Len(key) \notin marked /\ elist # <<>>
      BY DEF TableByKey
    <3>2. Len(key) \in ToSet(elist) /\ Len(key) # cur
      BY <1>3, <3>1, QueuedAfter
    <3> QED BY <1>2, <3>1, <3>2
  <2> QED BY <1>1, <2>1 DEF TableByKey
<1>10. MarkedOnceLetGo'
  <2>1. \A n \in marked' : n <= Len(key) /\ ~(n \in Kept /\ n \in Queued')
    BY <1>2, <1>3, <1>4 DEF MarkedOnceLetGo
  <2>2. spc = "replace" /\ freeOld => old \notin Queued'
    BY <1>4 DEF MarkedOnceLetGo
  <2> QED BY <1>1, <1>5, <2>1, <2>2 DEF MarkedOnceLetGo
<1>11. NothingBetween'
  <2> SUFFICES ASSUME ~threaded PROVE NothingBetween'
    BY <1>1 DEF NothingBetween
  <2>1. spc # "replace" /\ (freeCur <=> cur \in marked)
    BY <1>1 DEF NothingBetween
  <2>2. alive' \subseteq Queued' \cup Kept
    <3>1. alive \subseteq Queued \cup Kept
      BY DEF NothingBetween
    <3>2. ~freeCur => cur \in Kept
      BY <1>3, <2>1 DEF NothingBetween
    <3> QED BY <1>2, <1>4, <3>1, <3>2
  <2>3. \A n \in Kept \ marked' : n \in Queued'
    <3>1. \A n \in Kept \ marked : n \in Queued
      BY DEF NothingBetween
    <3> QED BY <1>2, <1>4, <1>6, <3>1
  <2>4. \A n \in Queued' \ marked' : n \in Kept
    <3>1. \A n \in Queued \ marked : n \in Kept
      BY <2>1 DEF NothingBetween
    <3> QED BY <1>2, <1>4, <3>1
  <2> QED BY <1>1, <1>5, <2>1, <2>2, <2>3, <2>4 DEF NothingBetween
<1>12. RulesOfQueued'
  BY <1>1, <1>4 DEF RulesOfQueued
<1>13. QueuedRecordsAlive' /\ KeptRecordsAlive'
  BY <1>2, <1>4, <1>5, <1>6 DEF QueuedRecordsAlive, KeptRecordsAlive
<1> QED BY <1>7, <1>8, <1>9, <1>10, <1>11, <1>12, <1>13

\* A rule that has no record in the queue is removed: its records leave the
\* table and are freed.
LEMMA DelRuleLemma ==
    ASSUME Expiry = "idle", IInv, NEW r \in Rules, DelRule(r)
    PROVE  IInv'
<1> USE DEF IInv
<1> DEFINE Removed == {db[k] : k \in {r} \X ExpMods}
<1>1. /\ spc = "idle" /\ (threaded \/ epc = "idle") /\ rules' = rules \ {r}
      /\ alive' = alive \ Removed /\ db' = [k \in Keys |-> IF k[1] = r THEN None ELSE db[k]]
      /\ UNCHANGED <<mpc, locked, owed, threaded, elist, marked, key, exported,
                     spc, old, freeOld, epc, cur, freeCur>>
  BY DEF DelRule, MeterOnly, store, exporter
<1>2. \A n \in Queued : key[n][1] # r
  BY DEF DelRule
<1>3. \A k \in Keys : db[k] \in Records \cup {None}
  BY DEF TypeOK
<1>4. ASSUME NEW m \in Removed, m # None PROVE m \notin Queued
  <2>1. PICK k \in {r} \X ExpMods : m = db[k]
    BY <1>4
  <2>2. k \in Keys /\ k[1] = r
    BY <2>1 DEF Keys
  <2>3. key[m] = k
    BY <1>4, <2>1, <2>2 DEF TableByKey
  <2> QED BY <1>2, <2>2, <2>3
<1>5. Kept' = Kept \ Removed
  <2>1. Kept' \subseteq Kept \ Removed
    <3> SUFFICES ASSUME NEW m \in Kept' PROVE m \in Kept /\ m \notin Removed
      OBVIOUS
    <3>1. PICK k \in Keys : m = db'[k] /\ m # None
      BY DEF Kept
    <3>2. k[1] # r /\ m = db[k]
      BY <1>1, <3>1
    <3>3. m \in Kept /\ key[m] = k
      BY <3>1, <3>2 DEF Kept, TableByKey
    <3>4. ASSUME NEW c \in {r} \X ExpMods, m = db[c] PROVE FALSE
      <4>1. c \in Keys /\ c[1] = r
        BY DEF Keys
      <4>2. key[m] = c
        BY <3>1, <3>4, <4>1 DEF TableByKey
      <4> QED BY <3>2, <3>3, <4>1, <4>2
    <3> QED BY <3>3, <3>4
  <2>2. Kept \ Removed \subseteq Kept'
    <3> SUFFICES ASSUME NEW m \in Kept, m \notin Removed PROVE m \in Kept'
      OBVIOUS
    <3>1. PICK k \in Keys : m = db[k] /\ m # None
      BY DEF Kept
    <3>2. k[1] # r
      BY <3>1 DEF Keys
    <3>3. db'[k] = m
      BY <1>1, <3>1, <3>2
    <3> QED BY <3>1, <3>3 DEF Kept
  <2> QED BY <2>1, <2>2
<1>6. Queued' = Queued /\ Gone' = Gone /\ Holding' = Holding
  BY <1>1 DEF Queued, Gone, Holding
<1>7. \A n \in Queued : n \notin Removed
  BY <1>4, QueuedAfter
<1>8. TypeOK'
  <2>1. db' \in [Keys -> Records \cup {None}]
    BY <1>1, <1>3
  <2>2. rules' \subseteq Rules /\ alive' \subseteq Records
    BY <1>1 DEF TypeOK
  <2> QED BY <1>1, <2>1, <2>2 DEF TypeOK
<1>9. InOrder' /\ ExportedSoFar'
  BY <1>1, <1>6 DEF InOrder, ExportedSoFar
<1>10. TableByKey'
  BY <1>1 DEF TableByKey
<1>11. MarkedOnceLetGo'
  BY <1>1, <1>5, <1>6 DEF MarkedOnceLetGo
<1>12. NothingBetween'
  <2> SUFFICES ASSUME ~threaded PROVE NothingBetween'
    BY <1>1 DEF NothingBetween
  <2>1. alive' \subseteq Queued \cup Kept'
    BY <1>1, <1>5 DEF NothingBetween
  <2>2. \A n \in Kept' \ marked : n \in Queued
    BY <1>5 DEF NothingBetween
  <2>3. \A n \in Queued \ marked : n \in Kept'
    BY <1>1, <1>5, <1>7 DEF NothingBetween
  <2> QED BY <1>1, <1>6, <2>1, <2>2, <2>3 DEF NothingBetween
<1>13. RulesOfQueued'
  BY <1>1, <1>2, <1>6 DEF RulesOfQueued
<1>14. QueuedRecordsAlive' /\ KeptRecordsAlive'
  BY <1>1, <1>5, <1>6, <1>7 DEF QueuedRecordsAlive, KeptRecordsAlive
<1> QED BY <1>8, <1>9, <1>10, <1>11, <1>12, <1>13, <1>14

\* Every step, the meter's among them, keeps the invariant.
LEMMA NextLemma ==
    ASSUME Expiry = "idle", IInv, [RecordsNext]_recordVars
    PROVE  IInv'
<1> DEFINE Quiet == UNCHANGED <<threaded, rules, elist, db, alive, marked, key, exported,
                               spc, old, freeOld, cur, freeCur>>
<1>1. ASSUME NEW k \in Keys, StoreBegin(k) PROVE IInv'
  BY <1>1, StoreBeginLemma
<1>2. CASE StoreEnd
  BY <1>2, StoreEndLemma
<1>3. CASE Call
  <2>1. Quiet /\ epc' = "next" /\ epc = "idle" /\ spc = "idle" /\ UNCHANGED <<mpc, locked, owed>>
    BY <1>3 DEF Call, ExporterOnly, store
  <2>2. TypeOK'
    BY <2>1 DEF IInv, TypeOK
  <2> QED BY <2>1, <2>2, QuietLemma
<1>4. CASE GetNextRec \/ ExportFlowRecord \/ TestDelete \/ FreeOrMark
  BY <1>4, GetNextRecLemma, ExportFlowRecordLemma, TestDeleteLemma, FreeOrMarkLemma
<1>5. CASE SignalDone
  <2>1. Quiet /\ epc' = "next" /\ epc = "signal" /\ mpc' \in {mpc, "lock"} /\ UNCHANGED <<locked, owed>>
    BY <1>5 DEF SignalDone, ExporterOnly, store, Signalled
  <2>2. TypeOK'
    BY <2>1 DEF IInv, TypeOK
  <2> QED BY <2>1, <2>2, QuietLemma
<1>6. ASSUME NEW r \in Rules, DelRule(r) PROVE IInv'
  BY <1>6, DelRuleLemma
<1>7. CASE Shutdown
  <2>1. Quiet /\ epc' = epc /\ mpc' \in {"lock", "done"} /\ locked' = locked /\ owed' = Len(key)
    BY <1>7 DEF Shutdown, MeterOnly, store, exporter
  <2>2. owed' \in 0 .. NRecords
    BY <2>1 DEF IInv, TypeOK
  <2>3. TypeOK'
    BY <2>1, <2>2 DEF IInv, TypeOK
  <2> QED BY <2>1, <2>3, QuietLemma
<1>8. CASE WaitStep \/ Stop
  <2>1. /\ Quiet /\ epc' = epc /\ mpc' \in {"check", "done", "wait", "asleep", "stopped"}
        /\ locked' \in BOOLEAN /\ owed' = owed
    BY <1>8 DEF WaitStep, WaitLock, WaitCheck, WaitSleep, Stop, MeterOnly, store, exporter, IInv, TypeOK
  <2>2. TypeOK'
    BY <2>1 DEF IInv, TypeOK
  <2> QED BY <2>1, <2>2, QuietLemma
<1>9. CASE UNCHANGED recordVars
  <2>1. Quiet /\ epc' = epc /\ UNCHANGED <<mpc, locked, owed>>
    BY <1>9 DEF recordVars, store, exporter
  <2>2. TypeOK'
    BY <2>1 DEF IInv, TypeOK
  <2> QED BY <2>1, <2>2, QuietLemma
<1> QED BY <1>1, <1>2, <1>3, <1>4, <1>5, <1>6, <1>7, <1>8, <1>9 DEF RecordsNext, ExporterStep

-----------------------------------------------------------------------------
(* The theorems. *)

\* The inductive invariant: while no rule with records in the queue is
\* removed, storeData, the exporter and the meter keep it.
THEOREM RecordsInvariant == Expiry = "idle" /\ RecordsSpec => []IInv
<1>1. RecordsInit => IInv
  BY InitLemma
<1>2. Expiry = "idle" /\ IInv /\ [RecordsNext]_recordVars => IInv'
  BY NextLemma
<1>3. Expiry = "idle" => [](Expiry = "idle")
  OBVIOUS
<1> QED BY <1>1, <1>2, <1>3, PTL DEF RecordsSpec

LEMMA CountingOn ==
    ASSUME NEW s \in Seq(Nat), NEW m \in Nat, Len(s) = m, \A i \in 1 .. m : s[i] = i
    PROVE  s = [i \in 1 .. m |-> i]
<1>1. s \in [1 .. m -> Nat]
  BY LenProperties
<1> QED BY <1>1

\* Two sequences that count up, one from where the other ends.
LEMMA CountUp ==
    ASSUME NEW a \in Seq(Nat), NEW b \in Seq(Nat), NEW g \in Nat, NEW m \in Nat,
           Len(a) = g, \A i \in 1 .. g : a[i] = i,
           g + Len(b) = m, \A i \in 1 .. Len(b) : b[i] = g + i
    PROVE  a \o b = [i \in 1 .. m |-> i]
<1>1. a \o b \in Seq(Nat) /\ Len(a \o b) = m /\ Len(b) \in Nat
  OBVIOUS
<1>2. ASSUME NEW i \in 1 .. m PROVE (a \o b)[i] = i
  <2>1. CASE i \in 1 .. g
    BY <2>1
  <2>2. CASE i \notin 1 .. g
    <3>1. i - g \in 1 .. Len(b)
      BY <1>1, <2>2
    <3>2. (a \o b)[i] = b[i - g]
      BY <1>1, <2>2
    <3>3. b[i - g] = g + (i - g)
      BY <3>1
    <3> QED BY <3>2, <3>3
  <2> QED BY <2>1, <2>2
<1> DEFINE s == a \o b
<1> HIDE DEF s
<1>3. s \in Seq(Nat) /\ Len(s) = m /\ \A i \in 1 .. m : s[i] = i
  BY <1>1, <1>2 DEF s
<1>4. s = [i \in 1 .. m |-> i]
  BY <1>3, CountingOn
<1> QED BY <1>4 DEF s

\* What the invariant says of the order of the exports.
LEMMA OrderLemma == IInv => ExportedOnceInOrder
<1> SUFFICES ASSUME IInv PROVE ExportedOnceInOrder
  OBVIOUS
<1> USE DEF IInv
<1> DEFINE mid == IF epc = "export" THEN <<cur>> ELSE <<>>
<1>1. /\ exported \in Seq(Nat) /\ elist \in Seq(Nat) /\ Len(elist) \in Nat
      /\ Len(key) \in Nat /\ Gone \in Nat /\ Gone + Len(elist) = Len(key) /\ cur \in Nat
  BY DEF TypeOK, InOrder, Gone
<1>2. /\ exported \o mid \in Seq(Nat) /\ Len(exported \o mid) = Gone
      /\ \A i \in 1 .. Gone : (exported \o mid)[i] = i
  <2>1. CASE epc = "export"
    <3>1. Len(exported) = Gone - 1 /\ cur = Gone /\ mid = <<cur>> /\ Len(exported) \in Nat
      BY <1>1, <2>1 DEF ExportedSoFar, InOrder, Holding
    <3>2. /\ exported \o mid \in Seq(Nat) /\ Len(exported \o mid) = Gone
          /\ (exported \o mid)[Gone] = Gone
          /\ \A i \in 1 .. Len(exported) : (exported \o mid)[i] = exported[i]
      BY <1>1, <3>1
    <3>3. \A i \in 1 .. Gone : i # Gone => i \in 1 .. Len(exported)
      BY <1>1, <3>1
    <3> QED BY <3>2, <3>3 DEF ExportedSoFar
  <2>2. CASE epc # "export"
    <3>1. Len(exported) = Gone /\ exported \o mid = exported
      BY <1>1, <2>2 DEF ExportedSoFar
    <3> QED BY <1>1, <3>1 DEF ExportedSoFar
  <2> QED BY <2>1, <2>2
<1>3. \A i \in 1 .. Len(elist) : elist[i] = Gone + i
  BY DEF InOrder
<1> DEFINE front == exported \o mid
<1> HIDE DEF mid, front
<1>4. /\ front \in Seq(Nat) /\ Len(front) = Gone /\ \A i \in 1 .. Gone : front[i] = i
  BY <1>2 DEF front
<1>5. front \o elist = [n \in 1 .. Len(key) |-> n]
  BY <1>1, <1>3, <1>4, CountUp
<1> QED BY <1>5 DEF ExportedOnceInOrder, front, mid

\* ExportedOnceInOrder, for any number of records, rules and sets of export
\* modules: getNextRec and exportFlowRecord export every record once, in the
\* order storeData got them, if rules with records in the queue stay.
THEOREM RecordsInOrder == Expiry = "idle" /\ RecordsSpec => []ExportedOnceInOrder
<1>1. Expiry = "idle" /\ RecordsSpec => []IInv
  BY RecordsInvariant
<1> QED BY <1>1, OrderLemma, PTL

\* RecordsOwned, likewise: no record in the queue, in the table or in the
\* exporter's hands is freed, and without a thread none is left behind.
THEOREM RecordLife == Expiry = "idle" /\ RecordsSpec => []RecordsOwned
<1>1. Expiry = "idle" /\ RecordsSpec => []IInv
  BY RecordsInvariant
<1>2. IInv => RecordsOwned
  BY DEF IInv, RecordsOwned, NoRecordLeaks, NothingBetween
<1> QED BY <1>1, <1>2, PTL

HIDE ExportAssumption DEF Records, None

-----------------------------------------------------------------------------
(* What processing modules measure *)

FlowFields == {"f", "b", "first", "lactive", "periods", "active", "idle", "cstate",
               "sstate", "valid", "hasData", "cap", "minDur"}

Distributions == [n : Nat, sum : Nat, min : Nat, max : Nat]

\* What is counted of one direction: before the first packet of the active
\* period last is 0, before the first of all the rest is, too.
Direction(x) ==
    /\ x \in [n : Nat, len : Distributions, iat : Distributions, last : Nat]
    /\ DirectionAsserts(x)
    /\ x.len.max >= x.len.min /\ x.iat.max >= x.iat.min
    /\ x.n = 0 => x.last = 0 /\ x.iat.n = 0

\* Each packet begins at most one period, and the first packet does.
FlowFits(d) ==
    /\ FlowFields \subseteq DOMAIN d
    /\ Direction(d.f) /\ Direction(d.b)
    /\ d.first \in Nat /\ d.periods \in Nat /\ d.idle \in [n : Nat, sum : Nat, min : Int, max : Int]
    /\ d.first > 0 <=> d.f.n + d.b.n > 0
    /\ d.first > 0 => d.periods > 0 /\ d.f.last + d.b.last > 0
    /\ d.periods <= d.f.n + d.b.n
    /\ d.idle.sum >= d.idle.n * IdleThreshold

LEMMA LaterOfTwo ==
  ASSUME NEW a \in Int, NEW b \in Int, NEW m, m = IF a >= b THEN a ELSE b
  PROVE  m \in Int /\ m >= a /\ m >= b
OBVIOUS

LEMMA MaxOfTwo ==
  ASSUME NEW a \in Int, NEW b \in Int
  PROVE  Max({a, b}) = IF a >= b THEN a ELSE b
<1> DEFINE m == IF a >= b THEN a ELSE b
<1>1. m \in {a, b} /\ \A y \in {a, b} : m >= y
  OBVIOUS
<1>2. \A x, z \in {a, b} : (\A y \in {a, b} : x >= y) /\ (\A y \in {a, b} : z >= y) => x = z
  OBVIOUS
<1>. QED BY <1>1, <1>2 DEF Max

LEMMA LastIs ==
  ASSUME NEW d, d.f.last \in Nat, d.b.last \in Nat
  PROVE  /\ GetLast(d) \in Nat /\ GetLast(d) >= d.f.last /\ GetLast(d) >= d.b.last
         /\ GetLast(d) \in {d.f.last, d.b.last}
BY MaxOfTwo DEF GetLast

LEMMA FitsAsserts ==
  ASSUME NEW d, FlowFits(d)
  PROVE  ExportAsserts(d)
<1>1. d.f.last \in Nat /\ d.b.last \in Nat /\ d.f.n \in Nat /\ d.b.n \in Nat
  BY DEF FlowFits, Direction
<1>. QED BY <1>1, LastIs DEF ExportAsserts, FlowFits, Direction

\* Two flows that differ only in what the assertions are not about
LEMMA SameFits ==
  ASSUME NEW d, NEW e, FlowFits(d), FlowFields \subseteq DOMAIN e,
         e.f = d.f, e.b = d.b, e.first = d.first, e.periods = d.periods, e.idle = d.idle
  PROVE  FlowFits(e)
BY DEF FlowFits

LEMMA JudgedIs ==
  ASSUME NEW d, NEW p, FlowFields \subseteq DOMAIN d
  PROVE  LET e == Judged(d, p)
         IN  /\ DOMAIN e = DOMAIN d
             /\ e.f = d.f /\ e.b = d.b /\ e.first = d.first /\ e.periods = d.periods
             /\ e.idle = d.idle /\ e.active = d.active /\ e.lactive = d.lactive
             /\ e.cap = d.cap /\ e.minDur = d.minDur
             /\ GetLast(e) = GetLast(d)
BY DEF Judged, FlowFields, GetLast

LEMMA CountedFits ==
  ASSUME NEW x, Direction(x), NEW p, p.len = 1, p.t \in Nat, p.t > 0,
         x.last = 0 \/ (p.t >= x.last /\ p.t - x.last < Word)
  PROVE  /\ Direction(Counted(x, p))
         /\ Counted(x, p).n = x.n + 1 /\ Counted(x, p).last = p.t
<1> DEFINE y == Counted(x, p)
<1> USE FlowStatsAssumption
<1>1. Measured(x.len, p.len) =
        [n |-> x.len.n + 1, sum |-> x.len.sum + 1,
         min |-> IF 1 < x.len.min \/ x.len.min = 0 THEN 1 ELSE x.len.min,
         max |-> IF 1 > x.len.max THEN 1 ELSE x.len.max]
  <2>1. 1 % (1 + 1) = 1
    OBVIOUS
  <2>. QED BY <2>1 DEF Measured, Sampled
<1>2. y.len = Measured(x.len, p.len) /\ y.n = x.n + 1 /\ y.last = p.t
  BY DEF Counted
<1>3. /\ y.len \in Distributions /\ y.len.sum > 0 /\ y.len.min > 0
      /\ y.len.max >= y.len.min
  BY <1>1, <1>2 DEF Direction, Distributions
<1>4. CASE x.last > 0
  <2> DEFINE g == p.t - x.last
  <2>1. g \in Nat /\ g % Word = g
    BY <1>4 DEF Direction
  <2>2. y.iat = [n |-> x.iat.n + 1, sum |-> x.iat.sum + g,
                 min |-> IF g < x.iat.min \/ x.iat.min = 0 THEN g ELSE x.iat.min,
                 max |-> IF g > x.iat.max THEN g ELSE x.iat.max]
    BY <1>4, <2>1 DEF Counted, Sampled
  <2>3. /\ y.iat \in Distributions /\ y.iat.max >= y.iat.min
        /\ y.iat.n = x.iat.n + 1
    <3>. HIDE DEF g
    <3>. QED BY <2>1, <2>2 DEF Direction, Distributions
  <2>4. x.iat.n < x.n
    BY <1>4 DEF Direction, DirectionAsserts
  <2>. QED BY <1>2, <1>3, <2>3, <2>4 DEF Direction, DirectionAsserts, Counted, Distributions
<1>5. CASE ~(x.last > 0)
  <2>1. y.iat = x.iat
    BY <1>5 DEF Counted
  <2>. QED BY <1>2, <1>3, <2>1 DEF Direction, DirectionAsserts, Counted, Distributions
<1>. QED BY <1>4, <1>5

\* The state of a flow between the begin of a packet's period and its counting
LEMMA BeganIs ==
  ASSUME NEW d, FlowFits(d), NEW t \in Nat, t > 0, t >= GetLast(d)
  PROVE  LET e == Began(d, t)
         IN  /\ FlowFields \subseteq DOMAIN e
             /\ Direction(e.f) /\ Direction(e.b)
             /\ e.f.n = d.f.n /\ e.b.n = d.b.n
             /\ e.f.last \in {0, d.f.last} /\ e.b.last \in {0, d.b.last}
             /\ e.first \in Nat /\ e.first > 0
             /\ e.periods \in Nat /\ e.periods > 0 /\ e.periods <= d.f.n + d.b.n + 1
             /\ e.idle \in [n : Nat, sum : Nat, min : Int, max : Int]
             /\ e.idle.sum >= e.idle.n * IdleThreshold
<1> DEFINE e == Began(d, t)
           silence == t - GetLast(d)
<1> USE FlowStatsAssumption
<1>1. /\ d.f.last \in Nat /\ d.b.last \in Nat /\ d.f.n \in Nat /\ d.b.n \in Nat
      /\ d.first \in Nat /\ d.periods \in Nat /\ GetLast(d) \in Nat
      /\ FlowFields \subseteq DOMAIN d
  BY LastIs DEF FlowFits, Direction
<1>2. CASE d.first = 0
  <2>1. e = [d EXCEPT !.first = t, !.periods = 1, !.lactive = t]
    BY <1>2 DEF Began
  <2>2. /\ e.f = d.f /\ e.b = d.b /\ e.idle = d.idle /\ e.first = t /\ e.periods = 1
        /\ DOMAIN e = DOMAIN d
    BY <1>1, <2>1 DEF FlowFields
  <2>. QED BY <1>1, <2>2 DEF FlowFits
<1>3. CASE d.first # 0 /\ silence <= IdleThreshold
  <2>1. e = d
    BY <1>3 DEF Began
  <2>. QED BY <1>1, <1>3, <2>1 DEF FlowFits
<1>4. CASE d.first # 0 /\ ~(silence <= IdleThreshold)
  <2>1. e = [d EXCEPT !.idle = Measured(@, silence),
                      !.active = Measured(@, GetLast(d) - d.lactive),
                      !.periods = @ + 1, !.f.last = 0, !.b.last = 0,
                      !.lactive = t]
    BY <1>4 DEF Began
  <2>2. /\ e.f = [d.f EXCEPT !.last = 0] /\ e.b = [d.b EXCEPT !.last = 0]
        /\ e.idle = Measured(d.idle, silence) /\ e.first = d.first
        /\ e.periods = d.periods + 1 /\ DOMAIN e = DOMAIN d
    BY <1>1, <2>1 DEF FlowFields
  <2>3. Direction(e.f) /\ Direction(e.b) /\ e.f.n = d.f.n /\ e.b.n = d.b.n
        /\ e.f.last = 0 /\ e.b.last = 0
    BY <2>2 DEF FlowFits, Direction, DirectionAsserts
  <2>4. silence \in Nat /\ silence > IdleThreshold
    BY <1>1, <1>4
  <2>5. /\ e.idle \in [n : Nat, sum : Nat, min : Int, max : Int]
        /\ e.idle.n = d.idle.n + 1 /\ e.idle.sum = d.idle.sum + silence
    <3>1. silence % (silence + 1) \in Int
      BY <2>4
    <3>. HIDE DEF silence
    <3>. QED BY <2>2, <2>4, <3>1 DEF Measured, Sampled, FlowFits
  <2>6. e.idle.sum >= e.idle.n * IdleThreshold
    <3>1. /\ d.idle.sum \in Nat /\ d.idle.n \in Nat
          /\ d.idle.sum >= d.idle.n * IdleThreshold
      BY DEF FlowFits
    <3>2. (d.idle.n + 1) * IdleThreshold = d.idle.n * IdleThreshold + IdleThreshold
      BY <3>1
    <3>3. d.idle.n * IdleThreshold \in Nat
      BY <3>1
    <3>. HIDE DEF silence
    <3>. QED BY <2>4, <2>5, <3>1, <3>2, <3>3
  <2>. QED BY <1>1, <1>4, <2>2, <2>3, <2>5, <2>6 DEF FlowFits
<1>. QED BY <1>2, <1>3, <1>4

\* What is known of a packet's time when it is processed: it is not long
\* after the last one of its direction.
Timely(d, p) ==
    /\ p.len = 1 /\ p.t \in Nat /\ p.t > 0 /\ p.reverse \in BOOLEAN
    /\ LET last == IF p.reverse THEN d.b.last ELSE d.f.last
       IN  last = 0 \/ p.t - last < Word

LEMMA AccountedFits ==
  ASSUME NEW d, FlowFits(d), NEW p, Timely(d, p), p.t >= GetLast(d)
  PROVE  /\ FlowFits(Accounted(d, p))
         /\ DOMAIN Accounted(d, p) = DOMAIN Began(d, p.t)
<1> DEFINE e == Began(d, p.t)
           a == Accounted(d, p)
<1>1. /\ FlowFields \subseteq DOMAIN e
      /\ Direction(e.f) /\ Direction(e.b)
      /\ e.f.n = d.f.n /\ e.b.n = d.b.n
      /\ e.f.last \in {0, d.f.last} /\ e.b.last \in {0, d.b.last}
      /\ e.first \in Nat /\ e.first > 0
      /\ e.periods \in Nat /\ e.periods > 0 /\ e.periods <= d.f.n + d.b.n + 1
      /\ e.idle \in [n : Nat, sum : Nat, min : Int, max : Int]
      /\ e.idle.sum >= e.idle.n * IdleThreshold
  BY BeganIs DEF Timely
<1>2. /\ d.f.last \in Nat /\ d.b.last \in Nat
      /\ p.t >= d.f.last /\ p.t >= d.b.last
      /\ e.f.n \in Nat /\ e.b.n \in Nat /\ e.f.last \in Nat /\ e.b.last \in Nat
  BY <1>1, LastIs DEF FlowFits, Direction, Timely
<1>. HIDE DEF e
<1>3. CASE p.reverse
  <2>1. a = [e EXCEPT !.b = Counted(@, p)]
    BY <1>3 DEF Accounted, e
  <2>2. /\ a.b = Counted(e.b, p) /\ a.f = e.f /\ a.first = e.first
        /\ a.periods = e.periods /\ a.idle = e.idle /\ DOMAIN a = DOMAIN e
    BY <1>1, <2>1 DEF FlowFields
  <2>3. Direction(a.b) /\ a.b.n = e.b.n + 1 /\ a.b.last = p.t
    BY <1>1, <1>2, <1>3, <2>2, CountedFits DEF Timely
  <2>. QED BY <1>1, <1>2, <2>2, <2>3 DEF FlowFits, Timely, e
<1>4. CASE ~p.reverse
  <2>1. a = [e EXCEPT !.f = Counted(@, p)]
    BY <1>4 DEF Accounted, e
  <2>2. /\ a.f = Counted(e.f, p) /\ a.b = e.b /\ a.first = e.first
        /\ a.periods = e.periods /\ a.idle = e.idle /\ DOMAIN a = DOMAIN e
    BY <1>1, <2>1 DEF FlowFields
  <2>3. Direction(a.f) /\ a.f.n = e.f.n + 1 /\ a.f.last = p.t
    BY <1>1, <1>2, <1>4, <2>2, CountedFits DEF Timely
  <2>. QED BY <1>1, <1>2, <2>2, <2>3 DEF FlowFits, Timely, e
<1>. QED BY <1>3, <1>4 DEF Timely

LEMMA ProcessFits ==
  ASSUME NEW d, FlowFits(d), NEW p, Timely(d, p)
  PROVE  FlowFits(ProcessPacket(d, p))
<1> DEFINE e == Judged(d, p)
<1>1. FlowFields \subseteq DOMAIN d
  BY DEF FlowFits
<1>2. /\ FlowFields \subseteq DOMAIN e
      /\ e.f = d.f /\ e.b = d.b /\ e.first = d.first /\ e.periods = d.periods
      /\ e.idle = d.idle /\ GetLast(e) = GetLast(d)
  BY <1>1, JudgedIs
<1>3. FlowFits(e)
  BY <1>2, SameFits
<1>4. Timely(e, p)
  BY <1>2 DEF Timely
<1>5. CASE p.t < GetLast(d)
  BY <1>5 DEF ProcessPacket
<1>6. CASE ~(p.t < GetLast(d))
  <2>1. p.t >= GetLast(e)
    <3>1. GetLast(d) \in Nat /\ p.t \in Nat
      BY LastIs DEF FlowFits, Direction, Timely
    <3>. QED BY <1>2, <1>6, <3>1
  <2>2. FlowFits(Accounted(e, p))
    BY <1>3, <1>4, <2>1, AccountedFits
  <2>3. ProcessPacket(d, p) \in {e, Accounted(e, p)}
    BY <1>6 DEF ProcessPacket
  <2>. QED BY <1>3, <2>2, <2>3
<1>. QED BY <1>5, <1>6

LEMMA ExportFits ==
  ASSUME NEW d, FlowFits(d)
  PROVE  FlowFits(ExportData(d))
<1> DEFINE e == [d EXCEPT !.active = Measured(@, GetLast(d) - d.lactive)]
<1>1. FlowFields \subseteq DOMAIN d
  BY DEF FlowFits
<1>2. /\ DOMAIN e = DOMAIN d /\ e.f = d.f /\ e.b = d.b /\ e.first = d.first
      /\ e.periods = d.periods /\ e.idle = d.idle
  BY <1>1 DEF FlowFields
<1>. HIDE DEF e
<1>3. FlowFits(e)
  BY <1>1, <1>2, SameFits
<1>. QED BY <1>3 DEF ExportData, e

LEMMA ClearedFits ==
  ASSUME NEW cap, NEW minDur
  PROVE  FlowFits(Cleared(cap, minDur)) /\ FlowFits(InitFlowRecDscp(cap, minDur))
<1> DEFINE c == Cleared(cap, minDur)
           e == InitFlowRecDscp(cap, minDur)
<1>1. /\ c.f = NoPackets /\ c.b = NoPackets /\ c.first = 0 /\ c.periods = 0
      /\ c.idle = NoValues /\ DOMAIN c = FlowFields
  BY DEF Cleared, FlowFields
<1>2. FlowFits(c)
  BY <1>1, FlowStatsAssumption
     DEF FlowFits, Direction, DirectionAsserts, NoPackets, NoValues, Distributions
<1>3. /\ e.f = c.f /\ e.b = c.b /\ e.first = c.first /\ e.periods = c.periods
      /\ e.idle = c.idle /\ FlowFields \subseteq DOMAIN e
  <2>1. e = [x \in FlowFields \cup {"dscp"} |-> IF x = "dscp" THEN 0 ELSE c[x]]
    BY <1>1 DEF InitFlowRecDscp, InitFlowRec
  <2>. HIDE DEF e, c
  <2>. QED BY <2>1 DEF FlowFields
<1>4. FlowFits(e)
  BY <1>2, <1>3, SameFits
<1>. QED BY <1>2, <1>4

-----------------------------------------------------------------------------
(* Connections *)

LEMMA OnlyOne ==
  ASSUME NEW M, NEW m \in M, \A x \in M : x = m
  PROVE  (CHOOSE x \in M : TRUE) = m
<1>1. (CHOOSE x \in M : TRUE) \in M
  BY Zenon
<1>. QED BY <1>1

LEMMA MoveIs ==
  ASSUME NEW m \in Moves
  PROVE  \/ m[1] = "INITIAL" /\ m[2] = {"SYN"} /\ m[3] = TRUE
         \/ m[1] = "SYN" /\ m[2] = {"SYN", "ACK"} /\ m[3] = FALSE
         \/ m[1] = "SYNACK" /\ m[2] = {"ACK"} /\ m[3] = TRUE
         \/ m[1] = "FIN" /\ m[2] = {"ACK"} /\ m[3] = FALSE
<1>1. CASE m = <<"INITIAL", {"SYN"}, TRUE, "SYN">>
  BY <1>1
<1>2. CASE m = <<"SYN", {"SYN", "ACK"}, FALSE, "SYNACK">>
  BY <1>2
<1>3. CASE m = <<"SYNACK", {"ACK"}, TRUE, "ESTABLISHED">>
  BY <1>3
<1>4. CASE m = <<"FIN", {"ACK"}, FALSE, "CLOSED">>
  BY <1>4
<1>. QED BY <1>1, <1>2, <1>3, <1>4 DEF Moves

LEMMA MoveFrom ==
  ASSUME NEW m \in Moves
  PROVE  /\ m[1] = "INITIAL" => m = <<"INITIAL", {"SYN"}, TRUE, "SYN">>
         /\ m[1] = "SYN" => m = <<"SYN", {"SYN", "ACK"}, FALSE, "SYNACK">>
         /\ m[1] = "SYNACK" => m = <<"SYNACK", {"ACK"}, TRUE, "ESTABLISHED">>
         /\ m[1] = "FIN" => m = <<"FIN", {"ACK"}, FALSE, "CLOSED">>
<1>1. CASE m = <<"INITIAL", {"SYN"}, TRUE, "SYN">>
  BY <1>1
<1>2. CASE m = <<"SYN", {"SYN", "ACK"}, FALSE, "SYNACK">>
  BY <1>2
<1>3. CASE m = <<"SYNACK", {"ACK"}, TRUE, "ESTABLISHED">>
  BY <1>3
<1>4. CASE m = <<"FIN", {"ACK"}, FALSE, "CLOSED">>
  BY <1>4
<1>. QED BY <1>1, <1>2, <1>3, <1>4 DEF Moves

\* The state of an end after a segment, without the choice of a move
LEMMA UpdateStateIs ==
  ASSUME NEW state, NEW flags, NEW own \in BOOLEAN
  PROVE  UpdateState(state, flags, own) =
            IF "RST" \in flags THEN "CLOSED"
            ELSE IF "FIN" \in flags /\ own THEN "FIN"
            ELSE IF state = "INITIAL" /\ own /\ "SYN" \in flags THEN "SYN"
            ELSE IF state = "SYN" /\ ~own /\ {"SYN", "ACK"} \subseteq flags THEN "SYNACK"
            ELSE IF state = "SYNACK" /\ own /\ "ACK" \in flags THEN "ESTABLISHED"
            ELSE IF state = "FIN" /\ ~own /\ "ACK" \in flags THEN "CLOSED"
            ELSE state
<1> DEFINE moves == {m \in Moves : m[1] = state /\ m[2] \subseteq flags /\ m[3] = own}
<1>1. UpdateState(state, flags, own) =
         IF "RST" \in flags THEN "CLOSED"
         ELSE IF "FIN" \in flags /\ own THEN "FIN"
         ELSE IF moves = {} THEN state ELSE (CHOOSE m \in moves : TRUE)[4]
  BY DEF UpdateState
<1>2. CASE state = "INITIAL" /\ own /\ "SYN" \in flags
  <2> DEFINE m == <<"INITIAL", {"SYN"}, TRUE, "SYN">>
  <2>1. m \in moves /\ m[4] = "SYN"
    BY <1>2 DEF Moves
  <2>2. \A x \in moves : x = m
    BY MoveFrom, <1>2
  <2>. HIDE DEF moves, m
  <2>3. moves # {} /\ (CHOOSE x \in moves : TRUE) = m
    BY <2>1, <2>2, OnlyOne
  <2>. QED BY <1>1, <1>2, <2>1, <2>3
<1>3. CASE state = "SYN" /\ ~own /\ {"SYN", "ACK"} \subseteq flags
  <2> DEFINE m == <<"SYN", {"SYN", "ACK"}, FALSE, "SYNACK">>
  <2>1. m \in moves /\ m[4] = "SYNACK"
    BY <1>3 DEF Moves
  <2>2. \A x \in moves : x = m
    BY MoveFrom, <1>3
  <2>. HIDE DEF moves, m
  <2>3. moves # {} /\ (CHOOSE x \in moves : TRUE) = m
    BY <2>1, <2>2, OnlyOne
  <2>. QED BY <1>1, <1>3, <2>1, <2>3
<1>4. CASE state = "SYNACK" /\ own /\ "ACK" \in flags
  <2> DEFINE m == <<"SYNACK", {"ACK"}, TRUE, "ESTABLISHED">>
  <2>1. m \in moves /\ m[4] = "ESTABLISHED"
    BY <1>4 DEF Moves
  <2>2. \A x \in moves : x = m
    BY MoveFrom, <1>4
  <2>. HIDE DEF moves, m
  <2>3. moves # {} /\ (CHOOSE x \in moves : TRUE) = m
    BY <2>1, <2>2, OnlyOne
  <2>. QED BY <1>1, <1>4, <2>1, <2>3
<1>5. CASE state = "FIN" /\ ~own /\ "ACK" \in flags
  <2> DEFINE m == <<"FIN", {"ACK"}, FALSE, "CLOSED">>
  <2>1. m \in moves /\ m[4] = "CLOSED"
    BY <1>5 DEF Moves
  <2>2. \A x \in moves : x = m
    BY MoveFrom, <1>5
  <2>. HIDE DEF moves, m
  <2>3. moves # {} /\ (CHOOSE x \in moves : TRUE) = m
    BY <2>1, <2>2, OnlyOne
  <2>. QED BY <1>1, <1>5, <2>1, <2>3
<1>6. CASE /\ ~(state = "INITIAL" /\ own /\ "SYN" \in flags)
           /\ ~(state = "SYN" /\ ~own /\ {"SYN", "ACK"} \subseteq flags)
           /\ ~(state = "SYNACK" /\ own /\ "ACK" \in flags)
           /\ ~(state = "FIN" /\ ~own /\ "ACK" \in flags)
  <2>1. moves = {}
    BY <1>6, MoveIs
  <2>. HIDE DEF moves
  <2>. QED BY <1>1, <1>6, <2>1
<1>. QED BY <1>2, <1>3, <1>4, <1>5, <1>6

\* The two ends, and what the module makes of them
Ends(t, d) ==
    \/ /\ t.s = "none" /\ d.sstate = "INITIAL"
       /\ <<t.c, d.cstate>> \in {<<"none", "INITIAL">>, <<"syn", "SYN">>}
    \/ t.s = "syn" /\ d.sstate = "SYN" /\ t.c = "syn" /\ d.cstate = "SYNACK"
    \/ /\ <<t.c, d.cstate>> \in {<<"est", "ESTABLISHED">>, <<"fin", "FIN">>,
                                 <<"fin", "CLOSED">>, <<"done", "CLOSED">>}
       /\ <<t.s, d.sstate>> \in {<<"est", "SYN">>, <<"fin", "FIN">>,
                                 <<"fin", "CLOSED">>, <<"done", "CLOSED">>}
    \/ t.s = "reset" /\ t.c = "reset" /\ Closed(d)

\* All packets of a connection are of one time.
Connection(t, d) ==
    /\ FlowFits(d)
    /\ {d.first, d.f.last, d.b.last} \subseteq {0, 2}
    /\ d.cap = Never /\ d.minDur = 0
    /\ t \in [c : {"none", "syn", "est", "fin", "done", "reset"},
              s : {"none", "syn", "est", "fin", "done", "reset"}, carried : BOOLEAN]
    /\ d.valid = t.carried /\ d.hasData = t.carried
    /\ t.c # "none" => d.f.n > 0
    /\ t.s # "none" => d.b.n > 0
    /\ Ends(t, d)

LEMMA ConnectionTime ==
  ASSUME NEW t, NEW d, Connection(t, d)
  PROVE  GetLast(d) = d.first
BY LastIs DEF Connection, FlowFits, Direction

SegmentOf(p) ==
    /\ p.t = 2 /\ p.len = 1 /\ p.proto = "TCP" /\ p.reverse \in BOOLEAN
    /\ p.data \in BOOLEAN

\* What a segment does: it is in the first period, and within the time cap.
SegmentCounted(d, p, e) ==
    /\ FlowFits(e)
    /\ {e.first, e.f.last, e.b.last} \subseteq {0, 2}
    /\ e.cap = Never /\ e.minDur = 0
    /\ e.cstate = UpdateState(d.cstate, p.flags, ~p.reverse)
    /\ e.sstate = UpdateState(d.sstate, p.flags, p.reverse)
    /\ e.hasData = (d.hasData
                     \/ (~d.valid /\ p.data /\ "ESTABLISHED" \in {e.cstate, e.sstate}))
    /\ e.valid = (d.valid \/ (e.hasData /\ d.f.n > 0 /\ d.b.n > 0))
    /\ e.f.n = IF p.reverse THEN d.f.n ELSE d.f.n + 1
    /\ e.b.n = IF p.reverse THEN d.b.n + 1 ELSE d.b.n
    /\ AsksForExport(d, p) <=> Closed(e)

LEMMA SegmentMeasured ==
  ASSUME Never >= 2, NEW t, NEW d, Connection(t, d),
         NEW p, SegmentOf(p)
  PROVE  SegmentCounted(d, p, ProcessPacket(d, p))
<1> DEFINE j == Judged(d, p)
           g == Began(j, p.t)
           a == Accounted(j, p)
           e == ProcessPacket(d, p)
<1> USE FlowStatsAssumption
<1>1. /\ FlowFields \subseteq DOMAIN d /\ d.first \in {0, 2}
      /\ d.f.last \in {0, 2} /\ d.b.last \in {0, 2} /\ d.f.n \in Nat /\ d.b.n \in Nat
      /\ d.cap = Never /\ d.minDur = 0 /\ d.valid \in BOOLEAN /\ d.hasData \in BOOLEAN
      /\ Never \in Nat
  BY MeasurementsAssumption DEF Connection, FlowFits, Direction
<1>2. /\ DOMAIN j = DOMAIN d
      /\ j.f = d.f /\ j.b = d.b /\ j.first = d.first /\ j.periods = d.periods
      /\ j.idle = d.idle /\ j.cap = d.cap /\ j.minDur = d.minDur
      /\ GetLast(j) = GetLast(d) /\ GetLast(d) = d.first
  BY <1>1, JudgedIs, ConnectionTime
<1>3. /\ j.cstate = UpdateState(d.cstate, p.flags, ~p.reverse)
      /\ j.sstate = UpdateState(d.sstate, p.flags, p.reverse)
      /\ j.hasData = (d.hasData \/ (~d.valid /\ p.data /\ "ESTABLISHED" \in {j.cstate, j.sstate}))
      /\ j.valid = (d.valid \/ (j.hasData /\ d.f.n > 0 /\ d.b.n > 0))
  <2> DEFINE c == UpdateState(d.cstate, p.flags, ~p.reverse)
             s == UpdateState(d.sstate, p.flags, p.reverse)
             h == d.hasData \/ (~d.valid /\ p.data /\ "ESTABLISHED" \in {c, s})
             v == d.valid \/ (h /\ (p.t - d.first > d.cap \/ (d.f.n > 0 /\ d.b.n > 0)))
  <2>1. j = [d EXCEPT !.cstate = c, !.sstate = s, !.hasData = h, !.valid = v]
    BY DEF Judged, SegmentOf
  <2>2. v = (d.valid \/ (h /\ d.f.n > 0 /\ d.b.n > 0))
    <3>1. ~(p.t - d.first > d.cap)
      BY <1>1 DEF SegmentOf
    <3>. QED BY <3>1
  <2>. HIDE DEF c, s, h, v
  <2>3. j.cstate = c /\ j.sstate = s /\ j.hasData = h /\ j.valid = v
    BY <1>1, <2>1 DEF FlowFields
  <2>. QED BY <2>2, <2>3 DEF c, s, h, v
<1>4. FlowFits(j) /\ Timely(j, p)
  <2>1. FlowFits(j)
    BY <1>1, <1>2, SameFits DEF Connection
  <2>. QED BY <1>1, <1>2, <2>1 DEF Timely, SegmentOf
<1>5. e = a
  <2>1. ~(p.t < GetLast(d)) /\ ~(j.first > 0 /\ p.t - j.first > j.cap)
    BY <1>1, <1>2 DEF SegmentOf
  <2>. QED BY <2>1 DEF ProcessPacket
<1>6. FlowFits(a) /\ p.t >= GetLast(d)
  BY <1>1, <1>2, <1>4, AccountedFits DEF SegmentOf
<1>7. /\ DOMAIN g = DOMAIN j /\ g.first = 2 /\ g.f = j.f /\ g.b = j.b
      /\ g.cap = j.cap /\ g.minDur = j.minDur /\ g.cstate = j.cstate /\ g.sstate = j.sstate
      /\ g.hasData = j.hasData /\ g.valid = j.valid
  <2>1. CASE d.first = 0
    <3>1. g = [j EXCEPT !.first = p.t, !.periods = 1, !.lactive = p.t]
      BY <2>1, <1>2 DEF Began
    <3>. HIDE DEF j, g
    <3>. QED BY <1>1, <1>2, <3>1 DEF SegmentOf, FlowFields
  <2>2. CASE d.first = 2
    <3>1. p.t - GetLast(j) <= IdleThreshold
      BY <2>2, <1>2 DEF SegmentOf
    <3>2. g = j
      BY <2>2, <3>1, <1>2 DEF Began
    <3>. HIDE DEF j, g
    <3>. QED BY <1>1, <1>2, <2>2, <3>2
  <2>. QED BY <1>1, <2>1, <2>2
<1>8. /\ a.first = 2 /\ a.cap = j.cap /\ a.minDur = j.minDur /\ a.cstate = j.cstate
      /\ a.sstate = j.sstate /\ a.hasData = j.hasData /\ a.valid = j.valid
      /\ a.f = IF p.reverse THEN j.f ELSE Counted(j.f, p)
      /\ a.b = IF p.reverse THEN Counted(j.b, p) ELSE j.b
  <2>1. a = IF p.reverse THEN [g EXCEPT !.b = Counted(@, p)] ELSE [g EXCEPT !.f = Counted(@, p)]
    BY DEF Accounted
  <2>. HIDE DEF j, g, a
  <2>. QED BY <1>1, <1>2, <1>7, <2>1 DEF FlowFields, SegmentOf
<1>9. \A x : Counted(x, p).n = x.n + 1 /\ Counted(x, p).last = 2
  BY DEF Counted, SegmentOf
<1>10. AsksForExport(d, p) <=> Closed(e)
  BY <1>6 DEF AsksForExport, SegmentOf
<1>. HIDE DEF e, a, g, j
<1>11. /\ e.f.n = IF p.reverse THEN d.f.n ELSE d.f.n + 1
       /\ e.b.n = IF p.reverse THEN d.b.n + 1 ELSE d.b.n
       /\ {e.first, e.f.last, e.b.last} \subseteq {0, 2}
  BY <1>1, <1>2, <1>5, <1>8, <1>9 DEF SegmentOf
<1>12. /\ FlowFits(e) /\ e.cap = Never /\ e.minDur = 0
       /\ e.cstate = j.cstate /\ e.sstate = j.sstate
       /\ e.hasData = j.hasData /\ e.valid = j.valid
  BY <1>1, <1>2, <1>5, <1>6, <1>8
<1>. QED BY <1>3, <1>10, <1>11, <1>12 DEF SegmentCounted, e
\* The segments that may come next, with the truth (c, s) after them
MayCome(r, flags, b, c, s) ==
    \/ /\ truth.s = "none" /\ ~r /\ flags = {"SYN"} /\ ~b
       /\ c = "syn" /\ s \in Heard(truth.s)
    \/ /\ truth.s = "none" /\ truth.c # "none" /\ r /\ flags = {"SYN", "ACK"} /\ ~b
       /\ c \in Heard(truth.c) /\ s = "syn"
    \/ truth.s = "syn" /\ ~r /\ flags = {"ACK"} /\ c = "est" /\ s = "est"
    \/ /\ Open /\ ~r /\ flags = {"ACK"} /\ (b => truth.c = "est")
       /\ c = truth.c /\ s \in Heard(truth.s)
    \/ /\ Open /\ r /\ flags = {"ACK"} /\ (b => truth.s = "est")
       /\ c \in Heard(truth.c) /\ s = truth.s
    \/ Open /\ ~r /\ flags = {"FIN", "ACK"} /\ ~b /\ c = "fin" /\ s \in Heard(truth.s)
    \/ Open /\ r /\ flags = {"FIN", "ACK"} /\ ~b /\ c \in Heard(truth.c) /\ s = "fin"
    \/ Open /\ flags = {"RST"} /\ ~b /\ c = "reset" /\ s = "reset"

LEMMA SegmentsAre ==
  ASSUME NEW x \in Segments
  PROVE  \E r, b \in BOOLEAN : \E flags, c, s :
            x = <<Segment(r, flags, b), After(c, s, b)>> /\ MayCome(r, flags, b, c, s)
<1> DEFINE Is(r, flags, b, c, s) ==
              x = <<Segment(r, flags, b), After(c, s, b)>> /\ MayCome(r, flags, b, c, s)
<1> SUFFICES \E r, b \in BOOLEAN : \E flags, c, s : Is(r, flags, b, c, s)
  OBVIOUS
<1>1. CASE ~Open /\ truth.s = "none"
  <2>1. x \in ClientSends({"SYN"}, FALSE, "syn")
           \cup IF truth.c = "none" THEN {} ELSE ServerSends({"SYN", "ACK"}, FALSE, "syn")
    BY <1>1 DEF Segments, Handshake
  <2>2. CASE x \in ClientSends({"SYN"}, FALSE, "syn")
    <3>1. PICK s \in Heard(truth.s) : x = <<Segment(FALSE, {"SYN"}, FALSE), After("syn", s, FALSE)>>
      BY <2>2 DEF ClientSends
    <3>2. Is(FALSE, {"SYN"}, FALSE, "syn", s)
      BY <1>1, <3>1 DEF MayCome
    <3>. HIDE DEF Is
    <3>. WITNESS FALSE \in BOOLEAN, FALSE \in BOOLEAN
    <3>. WITNESS {"SYN"}, "syn", s
    <3>. QED BY <3>2
  <2>3. CASE truth.c # "none" /\ x \in ServerSends({"SYN", "ACK"}, FALSE, "syn")
    <3>1. PICK c \in Heard(truth.c) :
              x = <<Segment(TRUE, {"SYN", "ACK"}, FALSE), After(c, "syn", FALSE)>>
      BY <2>3 DEF ServerSends
    <3>2. Is(TRUE, {"SYN", "ACK"}, FALSE, c, "syn")
      BY <1>1, <2>3, <3>1 DEF MayCome
    <3>. HIDE DEF Is
    <3>. WITNESS TRUE \in BOOLEAN, FALSE \in BOOLEAN
    <3>. WITNESS {"SYN", "ACK"}, c, "syn"
    <3>. QED BY <3>2
  <2>. QED BY <2>1, <2>2, <2>3
<1>2. CASE ~Open /\ truth.s = "syn"
  <2>1. PICK b \in BOOLEAN : x = <<Segment(FALSE, {"ACK"}, b), After("est", "est", b)>>
    BY <1>2 DEF Segments, Handshake
  <2>2. Is(FALSE, {"ACK"}, b, "est", "est")
    BY <1>2, <2>1 DEF MayCome
  <2>. HIDE DEF Is
  <2>. WITNESS FALSE \in BOOLEAN, b \in BOOLEAN
  <2>. WITNESS {"ACK"}, "est", "est"
  <2>. QED BY <2>2
<1>3. CASE Open
  <2>1. \/ \E b \in {FALSE, truth.c = "est"} : x \in ClientSends({"ACK"}, b, truth.c)
        \/ \E b \in {FALSE, truth.s = "est"} : x \in ServerSends({"ACK"}, b, truth.s)
        \/ x \in ClientSends({"FIN", "ACK"}, FALSE, "fin")
        \/ x \in ServerSends({"FIN", "ACK"}, FALSE, "fin")
        \/ \E r \in BOOLEAN :
              x = <<Segment(r, {"RST"}, FALSE), After("reset", "reset", FALSE)>>
    <3> DEFINE C(b) == ClientSends({"ACK"}, b, truth.c)
               S(b) == ServerSends({"ACK"}, b, truth.s)
               R(r) == <<Segment(r, {"RST"}, FALSE), After("reset", "reset", FALSE)>>
    <3>1. Segments = (UNION {C(b) : b \in {FALSE, truth.c = "est"}})
                     \cup (UNION {S(b) : b \in {FALSE, truth.s = "est"}})
                     \cup ClientSends({"FIN", "ACK"}, FALSE, "fin")
                     \cup ServerSends({"FIN", "ACK"}, FALSE, "fin")
                     \cup {R(r) : r \in BOOLEAN}
      BY <1>3, Zenon DEF Segments
    <3>. HIDE DEF C, S, R
    <3>2. \/ x \in UNION {C(b) : b \in {FALSE, truth.c = "est"}}
          \/ x \in UNION {S(b) : b \in {FALSE, truth.s = "est"}}
          \/ x \in ClientSends({"FIN", "ACK"}, FALSE, "fin")
          \/ x \in ServerSends({"FIN", "ACK"}, FALSE, "fin")
          \/ x \in {R(r) : r \in BOOLEAN}
      BY <3>1, Zenon
    <3>3. x \in {R(r) : r \in BOOLEAN} => \E r \in BOOLEAN : x = R(r)
      OBVIOUS
    <3>4. x \in UNION {C(b) : b \in {FALSE, truth.c = "est"}}
          => \E b \in {FALSE, truth.c = "est"} : x \in C(b)
      BY Zenon
    <3>5. x \in UNION {S(b) : b \in {FALSE, truth.s = "est"}}
          => \E b \in {FALSE, truth.s = "est"} : x \in S(b)
      BY Zenon
    <3>. QED BY <3>2, <3>3, <3>4, <3>5, Zenon DEF C, S, R
  <2>2. ASSUME NEW b \in {FALSE, truth.c = "est"}, x \in ClientSends({"ACK"}, b, truth.c)
        PROVE  \E r, b1 \in BOOLEAN : \E flags, c, s : Is(r, flags, b1, c, s)
    <3>1. b \in BOOLEAN
      OBVIOUS
    <3>2. PICK s \in Heard(truth.s) : x = <<Segment(FALSE, {"ACK"}, b), After(truth.c, s, b)>>
      BY <2>2, <3>1 DEF ClientSends
    <3>3. Is(FALSE, {"ACK"}, b, truth.c, s)
      BY <1>3, <2>2, <3>2 DEF MayCome
    <3>. HIDE DEF Is
    <3>. WITNESS FALSE \in BOOLEAN, b \in BOOLEAN
    <3>. WITNESS {"ACK"}, truth.c, s
    <3>. QED BY <3>1, <3>3
  <2>3. ASSUME NEW b \in {FALSE, truth.s = "est"}, x \in ServerSends({"ACK"}, b, truth.s)
        PROVE  \E r, b1 \in BOOLEAN : \E flags, c, s : Is(r, flags, b1, c, s)
    <3>1. b \in BOOLEAN
      OBVIOUS
    <3>2. PICK c \in Heard(truth.c) : x = <<Segment(TRUE, {"ACK"}, b), After(c, truth.s, b)>>
      BY <2>3, <3>1 DEF ServerSends
    <3>3. Is(TRUE, {"ACK"}, b, c, truth.s)
      BY <1>3, <2>3, <3>2 DEF MayCome
    <3>. HIDE DEF Is
    <3>. WITNESS TRUE \in BOOLEAN, b \in BOOLEAN
    <3>. WITNESS {"ACK"}, c, truth.s
    <3>. QED BY <3>1, <3>3
  <2>4. CASE x \in ClientSends({"FIN", "ACK"}, FALSE, "fin")
    <3>1. PICK s \in Heard(truth.s) :
              x = <<Segment(FALSE, {"FIN", "ACK"}, FALSE), After("fin", s, FALSE)>>
      BY <2>4 DEF ClientSends
    <3>2. Is(FALSE, {"FIN", "ACK"}, FALSE, "fin", s)
      BY <1>3, <3>1 DEF MayCome
    <3>. HIDE DEF Is
    <3>. WITNESS FALSE \in BOOLEAN, FALSE \in BOOLEAN
    <3>. WITNESS {"FIN", "ACK"}, "fin", s
    <3>. QED BY <3>2
  <2>5. CASE x \in ServerSends({"FIN", "ACK"}, FALSE, "fin")
    <3>1. PICK c \in Heard(truth.c) :
              x = <<Segment(TRUE, {"FIN", "ACK"}, FALSE), After(c, "fin", FALSE)>>
      BY <2>5 DEF ServerSends
    <3>2. Is(TRUE, {"FIN", "ACK"}, FALSE, c, "fin")
      BY <1>3, <3>1 DEF MayCome
    <3>. HIDE DEF Is
    <3>. WITNESS TRUE \in BOOLEAN, FALSE \in BOOLEAN
    <3>. WITNESS {"FIN", "ACK"}, c, "fin"
    <3>. QED BY <3>2
  <2>6. ASSUME NEW r \in BOOLEAN,
               x = <<Segment(r, {"RST"}, FALSE), After("reset", "reset", FALSE)>>
        PROVE  \E r1, b \in BOOLEAN : \E flags, c, s : Is(r1, flags, b, c, s)
    <3>1. Is(r, {"RST"}, FALSE, "reset", "reset")
      BY <1>3, <2>6 DEF MayCome
    <3>. HIDE DEF Is
    <3>. WITNESS r \in BOOLEAN, FALSE \in BOOLEAN
    <3>. WITNESS {"RST"}, "reset", "reset"
    <3>. QED BY <3>1
  <2>. HIDE DEF Is
  <2>. QED BY <2>1, <2>2, <2>3, <2>4, <2>5, <2>6
<1>4. CASE ~Open /\ truth.s \notin {"none", "syn"}
  BY <1>4 DEF Segments, Handshake
<1>. QED BY <1>1, <1>2, <1>3, <1>4

\* The state of an end after a segment of its own, and of the other end's
OwnMove(state, flags) ==
    IF "RST" \in flags THEN "CLOSED"
    ELSE IF "FIN" \in flags THEN "FIN"
    ELSE IF state = "INITIAL" /\ "SYN" \in flags THEN "SYN"
    ELSE IF state = "SYNACK" /\ "ACK" \in flags THEN "ESTABLISHED"
    ELSE state

OtherMove(state, flags) ==
    IF "RST" \in flags THEN "CLOSED"
    ELSE IF state = "SYN" /\ {"SYN", "ACK"} \subseteq flags THEN "SYNACK"
    ELSE IF state = "FIN" /\ "ACK" \in flags THEN "CLOSED"
    ELSE state

LEMMA UpdateMoves ==
  ASSUME NEW state, NEW flags
  PROVE  /\ UpdateState(state, flags, TRUE) = OwnMove(state, flags)
         /\ UpdateState(state, flags, FALSE) = OtherMove(state, flags)
<1>1. TRUE \in BOOLEAN /\ FALSE \in BOOLEAN
  OBVIOUS
<1>. QED BY <1>1, UpdateStateIs, Zenon DEF OwnMove, OtherMove

\* After a segment the states of the two ends fit, and the client's is
\* established if and only if the connection is.
EndsKept(r, flags, b, c, s, e) ==
    /\ e.cstate = UpdateState(data.cstate, flags, ~r)
    /\ e.sstate = UpdateState(data.sstate, flags, r)
    => /\ Ends(After(c, s, b), e)
       /\ b => ("ESTABLISHED" \in {e.cstate, e.sstate} <=> c = "est")

\* An end is known from its first segment on, and data comes after that.
Known(r, b, c, s) ==
    /\ c \in {"syn", "est", "fin", "done", "reset"}
    /\ s \in {"none", "syn", "est", "fin", "done", "reset"}
    /\ ~r \/ truth.c # "none"
    /\ r \/ truth.s # "none" \/ s = "none"
    /\ b => truth.c # "none" /\ truth.s # "none"

LEMMA ConnectionAfter ==
  ASSUME Never >= 2, now = 2, Connection(truth, data),
         NEW r \in BOOLEAN, NEW b \in BOOLEAN, NEW flags, NEW c, NEW s,
         Known(r, b, c, s),
         EndsKept(r, flags, b, c, s, ProcessPacket(data, Segment(r, flags, b)))
  PROVE  LET e == ProcessPacket(data, Segment(r, flags, b))
         IN  /\ Connection(After(c, s, b), e)
             /\ AsksForExport(data, Segment(r, flags, b)) <=> Closed(e)
<1> DEFINE p == Segment(r, flags, b)
           u == After(c, s, b)
           e == ProcessPacket(data, p)
<1>1. /\ SegmentOf(p) /\ p.flags = flags /\ p.reverse = r /\ p.data = b
  BY DEF Segment, AnyPacket, SegmentOf
<1>. HIDE DEF p, e
<1>2. /\ FlowFits(e)
      /\ {e.first, e.f.last, e.b.last} \subseteq {0, 2}
      /\ e.cap = Never /\ e.minDur = 0
      /\ e.cstate = UpdateState(data.cstate, flags, ~r)
      /\ e.sstate = UpdateState(data.sstate, flags, r)
      /\ e.hasData = (data.hasData \/ (~data.valid /\ b /\ "ESTABLISHED" \in {e.cstate, e.sstate}))
      /\ e.valid = (data.valid \/ (e.hasData /\ data.f.n > 0 /\ data.b.n > 0))
      /\ e.f.n = IF r THEN data.f.n ELSE data.f.n + 1
      /\ e.b.n = IF r THEN data.b.n + 1 ELSE data.b.n
      /\ AsksForExport(data, p) <=> Closed(e)
  <2>1. /\ UpdateState(data.cstate, p.flags, ~p.reverse) = UpdateState(data.cstate, flags, ~r)
        /\ UpdateState(data.sstate, p.flags, p.reverse) = UpdateState(data.sstate, flags, r)
    BY <1>1, Zenon
  <2>2. SegmentCounted(data, p, e)
    BY <1>1, SegmentMeasured DEF e
  <2>3. /\ e.f.n = IF r THEN data.f.n ELSE data.f.n + 1
        /\ e.b.n = IF r THEN data.b.n + 1 ELSE data.b.n
    BY <1>1, <2>2, Zenon DEF SegmentCounted
  <2>4. e.hasData = (data.hasData
                      \/ (~data.valid /\ b /\ "ESTABLISHED" \in {e.cstate, e.sstate}))
    <3> DEFINE Carries(x) == data.hasData
                             \/ (~data.valid /\ x /\ "ESTABLISHED" \in {e.cstate, e.sstate})
    <3>1. e.hasData = Carries(p.data)
      BY <2>2 DEF SegmentCounted
    <3>. HIDE DEF Carries
    <3>2. e.hasData = Carries(b)
      BY <1>1, <3>1
    <3>. QED BY <3>2 DEF Carries
  <2>. QED BY <2>1, <2>2, <2>3, <2>4 DEF SegmentCounted
<1>3. /\ u.c = c /\ u.s = s /\ u.carried = (truth.carried \/ (b /\ c = "est"))
      /\ u \in [c : {"none", "syn", "est", "fin", "done", "reset"},
                s : {"none", "syn", "est", "fin", "done", "reset"}, carried : BOOLEAN]
  BY DEF After, Connection, Known
<1>4. Ends(u, e) /\ (b => ("ESTABLISHED" \in {e.cstate, e.sstate} <=> c = "est"))
  BY <1>2, Zenon DEF EndsKept, e, p
<1>5. /\ data.valid = truth.carried /\ data.hasData = truth.carried /\ truth.carried \in BOOLEAN
      /\ truth.c # "none" => data.f.n > 0
      /\ truth.s # "none" => data.b.n > 0
      /\ data.f.n \in Nat /\ data.b.n \in Nat
  BY DEF Connection, FlowFits, Direction
<1>. HIDE DEF u
<1>6. e.hasData = u.carried /\ e.valid = u.carried
  BY <1>2, <1>3, <1>4, <1>5 DEF Known
<1>7. e.f.n > 0 /\ (u.s # "none" => e.b.n > 0)
  BY <1>2, <1>3, <1>5 DEF Known
<1>8. Connection(u, e)
  BY <1>2, <1>3, <1>4, <1>6, <1>7 DEF Connection
<1>. QED BY <1>2, <1>8 DEF u, e, p

LEMMA ConnectionStep ==
  ASSUME Never >= 2, now = 2, Connection(truth, data), ~Closed(data),
         NEW x \in Segments
  PROVE  LET e == ProcessPacket(data, x[1])
         IN  /\ Connection(x[2], e)
             /\ AsksForExport(data, x[1]) <=> Closed(e)
             /\ x[1].t = 2
<1>1. PICK r, b \in BOOLEAN : \E flags, c, s :
          x = <<Segment(r, flags, b), After(c, s, b)>> /\ MayCome(r, flags, b, c, s)
  BY SegmentsAre
<1>2. PICK flags, c, s :
          x = <<Segment(r, flags, b), After(c, s, b)>> /\ MayCome(r, flags, b, c, s)
  BY <1>1
<1> DEFINE p == Segment(r, flags, b)
           u == After(c, s, b)
           e == ProcessPacket(data, p)
<1>3. /\ x[1] = p /\ x[2] = u /\ p.t = 2
  BY <1>2 DEF Segment, AnyPacket
<1>4. /\ truth \in [c : {"none", "syn", "est", "fin", "done", "reset"},
                    s : {"none", "syn", "est", "fin", "done", "reset"}, carried : BOOLEAN]
      /\ Ends(truth, data)
  BY DEF Connection
<1>5. u.c = c /\ u.s = s
  BY <1>4 DEF After
<1>6. /\ ~r => /\ UpdateState(data.cstate, flags, ~r) = OwnMove(data.cstate, flags)
               /\ UpdateState(data.sstate, flags, r) = OtherMove(data.sstate, flags)
      /\ r => /\ UpdateState(data.cstate, flags, ~r) = OtherMove(data.cstate, flags)
              /\ UpdateState(data.sstate, flags, r) = OwnMove(data.sstate, flags)
  <2>1. /\ r => (r = TRUE) /\ (~r) = FALSE
        /\ ~r => (r = FALSE) /\ (~r) = TRUE
    OBVIOUS
  <2>2. /\ r => /\ UpdateState(data.cstate, flags, ~r) = UpdateState(data.cstate, flags, FALSE)
                /\ UpdateState(data.sstate, flags, r) = UpdateState(data.sstate, flags, TRUE)
        /\ ~r => /\ UpdateState(data.cstate, flags, ~r) = UpdateState(data.cstate, flags, TRUE)
                 /\ UpdateState(data.sstate, flags, r) = UpdateState(data.sstate, flags, FALSE)
    BY <2>1, Zenon
  <2>. QED BY <2>2, UpdateMoves
<1>. HIDE DEF u, e, p
<1>7. EndsKept(r, flags, b, c, s, e) /\ Known(r, b, c, s)
  <2>. USE DEF u, EndsKept, Known, Ends, Heard, Closed, Open, OwnMove, OtherMove
  <2>1. CASE /\ truth.s = "none" /\ ~r /\ flags = {"SYN"} /\ ~b
             /\ c = "syn" /\ s \in Heard(truth.s)
    BY <1>4, <1>5, <1>6, <2>1
  <2>2. CASE /\ truth.s = "none" /\ truth.c # "none" /\ r /\ flags = {"SYN", "ACK"} /\ ~b
             /\ c \in Heard(truth.c) /\ s = "syn"
    BY <1>4, <1>5, <1>6, <2>2
  <2>3. CASE truth.s = "syn" /\ ~r /\ flags = {"ACK"} /\ c = "est" /\ s = "est"
    BY <1>4, <1>5, <1>6, <2>3
  <2>4. CASE /\ Open /\ ~r /\ flags = {"ACK"} /\ (b => truth.c = "est")
             /\ c = truth.c /\ s \in Heard(truth.s)
    BY <1>4, <1>5, <1>6, <2>4
  <2>5. CASE /\ Open /\ r /\ flags = {"ACK"} /\ (b => truth.s = "est")
             /\ c \in Heard(truth.c) /\ s = truth.s
    BY <1>4, <1>5, <1>6, <2>5
  <2>6. CASE /\ Open /\ ~r /\ flags = {"FIN", "ACK"} /\ ~b /\ c = "fin"
             /\ s \in Heard(truth.s)
    BY <1>4, <1>5, <1>6, <2>6
  <2>7. CASE /\ Open /\ r /\ flags = {"FIN", "ACK"} /\ ~b /\ c \in Heard(truth.c)
             /\ s = "fin"
    BY <1>4, <1>5, <1>6, <2>7
  <2>8. CASE Open /\ flags = {"RST"} /\ ~b /\ c = "reset" /\ s = "reset"
    BY <1>4, <1>5, <1>6, <2>8
  <2>. QED BY <1>2, <2>1, <2>2, <2>3, <2>4, <2>5, <2>6, <2>7, <2>8 DEF MayCome
<1>8. Connection(u, e) /\ (AsksForExport(data, p) <=> Closed(e))
  BY <1>7, ConnectionAfter DEF u, e, p
<1>. QED BY <1>3, <1>8 DEF e

-----------------------------------------------------------------------------
(* The invariant of flow statistics, and that every step keeps it. *)

\* A flow's distributions fit each other, and no packet aborts the meter; the
\* export of a connection has been asked for if and only if it is closed.
StatsInv ==
    /\ kind \in Modules /\ now \in Nat /\ now >= 2
    /\ IsFlowStats => /\ FlowFits(data)
                      /\ DOMAIN truth = {"first", "last", "n", "aborted", "cap"}
                      /\ truth.aborted = FALSE
    /\ kind = "tcp" => now = 2 /\ Connection(truth, data) /\ (asked <=> Closed(data))

LEMMA TruthIs ==
  ASSUME NEW k \in FlowStatsKinds, NEW cap
  PROVE  /\ DOMAIN Truth(k, cap) = {"first", "last", "n", "aborted", "cap"}
         /\ Truth(k, cap).aborted = FALSE
<1>1. Truth(k, cap) =
        [first |-> 0, last |-> 0, n |-> 0, aborted |-> FALSE,
         cap |-> IF k = "netai_flowstats_dscp_1s" THEN Second ELSE cap]
  BY SMT DEF Truth, FlowStatsKinds
<1>. QED BY <1>1

LEMMA InitStats == Init => StatsInv
<1> SUFFICES ASSUME Init PROVE StatsInv
  OBVIOUS
<1>1. kind \in Modules /\ now = 2 /\ asked = FALSE /\ data \in InitFlowRecs(kind)
  BY DEF Init
<1>2. CASE IsFlowStats
  <2>1. FlowFits(data)
    <3>1. CASE kind = "netai_flowstats"
      <4>1. PICK c \in Caps : data = InitFlowRec(c, MinDuration)
        BY <1>1, <3>1 DEF InitFlowRecs
      <4>. QED BY <4>1, ClearedFits DEF InitFlowRec
    <3>2. CASE kind \in {"netai_flowstats_dscp", "netai_flowstats_dscp_1s"}
      <4>1. data = InitFlowRecDscp(Never, 0)
        BY <1>1, <3>2 DEF InitFlowRecs
      <4>. QED BY <4>1, ClearedFits
    <3>. QED BY <1>2, <3>1, <3>2 DEF IsFlowStats, FlowStatsKinds
  <2>2. DOMAIN truth = {"first", "last", "n", "aborted", "cap"} /\ truth.aborted = FALSE
    BY <1>2, TruthIs DEF Init, IsFlowStats
  <2>3. kind # "tcp"
    BY <1>2 DEF IsFlowStats, FlowStatsKinds
  <2>. QED BY <1>1, <2>1, <2>2, <2>3 DEF StatsInv
<1>3. CASE kind = "tcp"
  <2>1. data = Cleared(Never, 0)
    BY <1>1, <1>3 DEF InitFlowRecs, InitFlowRec
  <2>2. truth = [c |-> "none", s |-> "none", carried |-> FALSE]
    BY <1>3 DEF Init, Truth, FlowStatsKinds
  <2>3. FlowFits(data)
    BY <2>1, ClearedFits
  <2>4. Connection(truth, data) /\ ~Closed(data)
    <3>1. /\ data.f = NoPackets /\ data.b = NoPackets /\ data.first = 0
          /\ data.cap = Never /\ data.minDur = 0 /\ data.cstate = "INITIAL"
          /\ data.sstate = "INITIAL" /\ data.valid = FALSE /\ data.hasData = FALSE
      BY <2>1 DEF Cleared
    <3>2. NoPackets.last = 0
      BY DEF NoPackets
    <3>. QED BY <2>2, <2>3, <3>1, <3>2 DEF Connection, Ends, Closed
  <2>5. ~IsFlowStats
    BY <1>3 DEF IsFlowStats, FlowStatsKinds
  <2>. QED BY <1>1, <2>4, <2>5 DEF StatsInv
<1>4. CASE ~IsFlowStats /\ kind # "tcp"
  BY <1>1, <1>4 DEF StatsInv
<1>. QED BY <1>2, <1>3, <1>4

\* The processing of a packet by a module of flow statistics
LEMMA ProcessKeeps ==
  ASSUME IsFlowStats, FlowFits(data), NEW p, Timely(data, p)
  PROVE  FlowFits(Process(p))
<1> DEFINE Marked(d) == [d EXCEPT !.dscp = IF @ = 0 THEN p.dscp ELSE @]
<1>1. ASSUME NEW d, FlowFits(d), Timely(d, p)
      PROVE  FlowFits(ProcessPacketDscp(d, p))
  <2>1. FlowFields \subseteq DOMAIN d
    BY <1>1 DEF FlowFits
  <2>2. /\ DOMAIN Marked(d) = DOMAIN d /\ Marked(d).f = d.f /\ Marked(d).b = d.b
        /\ Marked(d).first = d.first /\ Marked(d).periods = d.periods
        /\ Marked(d).idle = d.idle
    BY <2>1 DEF FlowFields
  <2>. HIDE DEF Marked
  <2>3. FlowFits(Marked(d)) /\ Timely(Marked(d), p)
    BY <1>1, <2>1, <2>2, SameFits DEF Timely
  <2>4. FlowFits(ProcessPacket(Marked(d), p))
    BY <2>3, ProcessFits
  <2>. QED BY <1>1, <2>4 DEF ProcessPacketDscp, Marked
<1>2. CASE kind = "netai_flowstats"
  BY <1>2, ProcessFits DEF Process
<1>3. CASE kind = "netai_flowstats_dscp"
  BY <1>1, <1>3 DEF Process
<1>4. CASE kind = "netai_flowstats_dscp_1s"
  <2> DEFINE c == Capped(data, p, Second)
  <2>1. FlowFields \subseteq DOMAIN data
    BY DEF FlowFits
  <2>2. /\ DOMAIN c = DOMAIN data /\ c.f = data.f /\ c.b = data.b
        /\ c.first = data.first /\ c.periods = data.periods /\ c.idle = data.idle
    BY <2>1 DEF Capped, FlowFields
  <2>. HIDE DEF c
  <2>3. FlowFits(c) /\ Timely(c, p)
    BY <2>1, <2>2, SameFits DEF Timely
  <2>4. Process(p) = ProcessPacketDscp(c, p)
    BY <1>4 DEF Process, ProcessPacketDscp1s, c
  <2>. QED BY <1>1, <2>3, <2>4
<1>. QED BY <1>2, <1>3, <1>4 DEF IsFlowStats, FlowStatsKinds

LEMMA ExportsKeep ==
  ASSUME IsFlowStats, FlowFits(data)
  PROVE  FlowFits(Exported) /\ FlowFits(Reset(Exported))
<1>1. Exported = ExportData(data)
  BY DEF Exported, IsFlowStats, FlowStatsKinds, ExportDataDscp, ExportDataDscp1s
<1>2. FlowFits(Exported)
  BY <1>1, ExportFits
<1>3. \/ Reset(Exported) = Cleared(Exported.cap, Exported.minDur)
      \/ Reset(Exported) = InitFlowRecDscp(Exported.cap, Exported.minDur)
  BY DEF Reset, IsFlowStats, FlowStatsKinds, ResetFlowRec, ResetFlowRecDscp, ResetFlowRecDscp1s
<1>. QED BY <1>2, <1>3, ClearedFits

\* A packet of a flow: x is its protocol, if it has data, and its DSCP value.
FlowPacket(t, r, x) ==
    [AnyPacket EXCEPT !.t = t, !.reverse = r, !.proto = x[1], !.data = x[2], !.dscp = x[3]]

PacketTypes == {<<"UDP", TRUE, 1>>, <<"UDP", FALSE, 0>>, <<"ICMP", FALSE, 0>>}

LEMMA FlowPacketsAre ==
  FlowPackets = {FlowPacket(t, r, x) : t \in Times, r \in BOOLEAN, x \in PacketTypes}
BY DEF FlowPackets, FlowPacket, PacketTypes

LEMMA FlowPacketIs ==
  ASSUME NEW p \in FlowPackets
  PROVE  p.t \in Times /\ p.reverse \in BOOLEAN /\ p.len = 1
<1>1. PICK t \in Times, r \in BOOLEAN, x \in PacketTypes : p = FlowPacket(t, r, x)
  BY FlowPacketsAre
<1>2. p.t = t /\ p.reverse = r /\ p.len = 1
  BY <1>1 DEF AnyPacket, FlowPacket
<1>. QED BY <1>2

LEMMA NextStats ==
  ASSUME Exposed = {}, Never >= 2
  PROVE  StatsInv /\ [Next]_vars => StatsInv'
<1> SUFFICES ASSUME StatsInv, [Next]_vars PROVE StatsInv'
  OBVIOUS
<1>0. \A t \in Int : /\ Max({now, t}) \in Nat /\ Max({now, t}) >= 2
                     /\ t = now => Max({now, t}) = now
  BY MaxOfTwo DEF StatsInv
<1>1. CASE PacketOfFlow
  <2>1. PICK p \in FlowPackets :
            p.t >= data.first /\ GapFits(p) /\ Measure(p, FlowTruth(p))
    BY <1>1 DEF PacketOfFlow
  <2>2. p.t \in Times /\ p.reverse \in BOOLEAN /\ p.len = 1
    BY FlowPacketIs
  <2>3. p.t \in Int /\ p.t > 0
    BY <2>2, ProcModulesAssumption DEF Times, StatsInv
  <2>5. IsFlowStats /\ FlowFits(data)
    BY <1>1 DEF PacketOfFlow, StatsInv
  <2>6. Timely(data, p)
    BY <2>1, <2>2, <2>3 DEF Timely, GapFits
  <2>7. FlowFits(data') /\ kind' = kind
    BY <2>1, <2>5, <2>6, ProcessKeeps DEF Measure
  <2>8. ~(p.t < data.first)
    <3>1. data.first \in Nat
      BY <2>5 DEF FlowFits
    <3>. QED BY <2>1, <2>2, <2>3, <3>1
  <2>9. /\ DOMAIN truth' = {"first", "last", "n", "aborted", "cap"}
        /\ truth'.aborted = FALSE
    <3>1. truth' = FlowTruth(p)
      BY <2>1 DEF Measure
    <3>2. /\ DOMAIN truth = {"first", "last", "n", "aborted", "cap"}
          /\ truth.aborted = FALSE
      BY <2>5 DEF StatsInv
    <3>. QED BY <2>8, <3>1, <3>2 DEF FlowTruth
  <2>10. now' \in Nat /\ now' >= 2
    BY <1>0, <2>1, <2>2, <2>3 DEF Measure
  <2>11. kind' # "tcp"
    BY <2>5, <2>7 DEF IsFlowStats, FlowStatsKinds
  <2>. QED BY <2>7, <2>9, <2>10, <2>11 DEF StatsInv
<1>2. CASE PacketOfConnection
  <2>1. PICK x \in Segments : Measure(x[1], x[2])
    BY <1>2 DEF PacketOfConnection
  <2>2. kind = "tcp" /\ kind' = kind /\ now = 2 /\ Connection(truth, data) /\ ~Closed(data)
    BY <1>2, <2>1 DEF PacketOfConnection, Measure, More, StatsInv
  <2>3. data' = ProcessPacket(data, x[1]) /\ truth' = x[2]
    BY <2>1, <2>2 DEF Measure, Process
  <2>4. /\ Connection(truth', data') /\ x[1].t = 2
        /\ AsksForExport(data, x[1]) <=> Closed(data')
    BY <2>2, <2>3, ConnectionStep
  <2>5. now' = 2
    BY <1>0, <2>1, <2>2, <2>4 DEF Measure
  <2>6. asked' <=> Closed(data')
    <3>1. asked' = (kind = "tcp" /\ AsksForExport(data, x[1]))
      BY <2>1 DEF Measure
    <3>. QED BY <2>2, <2>4, <3>1
  <2>7. ~IsFlowStats'
    BY <2>2 DEF IsFlowStats, FlowStatsKinds
  <2>. QED BY <2>2, <2>4, <2>5, <2>6, <2>7 DEF StatsInv
<1>3. CASE PacketOfStream \/ Ping \/ PacketOfRule
  <2>1. ~IsFlowStats /\ kind # "tcp"
    BY <1>3 DEF PacketOfStream, Ping, PacketOfRule, IsFlowStats, FlowStatsKinds
  <2>2. PICK p : p.t \in Int /\ now' = Max({now, p.t}) /\ kind' = kind
    <3>1. now \in Int /\ Gaps \subseteq Int
      BY ProcModulesAssumption DEF StatsInv
    <3>2. CASE PacketOfStream
      <4>1. PICK x \in RtpNumbers : Measure(x[1], x[2])
        BY <3>2 DEF PacketOfStream
      <4>2. x[1].t = now
        <5>1. \E n, u : x = <<RtpNumber(n), u>>
          BY Zenon DEF RtpNumbers
        <5>. QED BY <5>1 DEF RtpNumber, AnyPacket
      <4>. QED BY <3>1, <4>1, <4>2 DEF Measure
    <3>3. CASE Ping
      <4>1. PICK g \in Gaps, type \in {0, 8}, id \in {0, 1}, seqno \in {1, 2} :
                Measure([AnyPacket EXCEPT !.t = now + g, !.proto = "ICMP",
                             !.echo = [type |-> type, id |-> id, seqno |-> seqno]], truth)
        BY <3>3 DEF Ping
      <4> DEFINE p == [AnyPacket EXCEPT !.t = now + g, !.proto = "ICMP",
                           !.echo = [type |-> type, id |-> id, seqno |-> seqno]]
      <4>2. p.t \in Int
        BY <3>1 DEF AnyPacket
      <4>3. now' = Max({now, p.t}) /\ kind' = kind
        BY <4>1 DEF Measure
      <4>. HIDE DEF p
      <4>. QED BY <4>2, <4>3
    <3>4. CASE PacketOfRule
      <4>1. PICK g \in IF kind \in {"jitter", "bandwidth"} THEN Gaps ELSE {1},
                 n \in Lengths, q \in Ports \cup {"none"} :
                Measure([AnyPacket EXCEPT !.t = now + g, !.len = n, !.port = q], truth)
        BY <3>4 DEF PacketOfRule
      <4> DEFINE p == [AnyPacket EXCEPT !.t = now + g, !.len = n, !.port = q]
      <4>2. p.t \in Int
        BY <3>1 DEF AnyPacket
      <4>3. now' = Max({now, p.t}) /\ kind' = kind
        BY <4>1 DEF Measure
      <4>. HIDE DEF p
      <4>. QED BY <4>2, <4>3
    <3>. QED BY <1>3, <3>2, <3>3, <3>4
  <2>. QED BY <1>0, <2>1, <2>2 DEF StatsInv, IsFlowStats
<1>4. CASE Export
  <2>1. UNCHANGED <<kind, now, truth, asked>> /\ data' = Exported
    BY <1>4 DEF Export
  <2>2. IsFlowStats => FlowFits(data')
    BY <2>1, ExportsKeep DEF StatsInv
  <2>3. kind = "tcp" => data' = data
    <3>1. kind = "tcp" => Silent(data)
      BY <1>4 DEF Export
    <3>. QED BY <2>1, <3>1 DEF Exported, ExportData
  <2>. QED BY <2>1, <2>2, <2>3 DEF StatsInv, IsFlowStats
<1>5. CASE ExportIdle
  <2>1. UNCHANGED <<kind, now, asked>> /\ data' = Reset(Exported) /\ kind # "tcp"
    BY <1>5 DEF ExportIdle
  <2>2. CASE IsFlowStats
    <3>1. FlowFits(data')
      BY <2>1, <2>2, ExportsKeep DEF StatsInv
    <3>2. truth' = Truth(kind, truth.cap)
      BY <1>5, <2>2 DEF ExportIdle
    <3>3. /\ DOMAIN truth' = {"first", "last", "n", "aborted", "cap"}
          /\ truth'.aborted = FALSE
      BY <2>2, <3>2, TruthIs DEF IsFlowStats
    <3>. QED BY <2>1, <3>1, <3>3 DEF StatsInv
  <2>3. CASE ~IsFlowStats
    BY <2>1, <2>3 DEF StatsInv, IsFlowStats
  <2>. QED BY <2>2, <2>3
<1>6. CASE Timeout
  <2>1. UNCHANGED <<kind, now>> /\ kind = "bandwidth"
    BY <1>6 DEF Timeout
  <2>. QED BY <2>1 DEF StatsInv, IsFlowStats, FlowStatsKinds
<1>7. CASE UNCHANGED vars
  BY <1>7 DEF vars, StatsInv, IsFlowStats
<1>. QED BY <1>1, <1>2, <1>3, <1>4, <1>5, <1>6, <1>7 DEF Next

\* The inductive invariant: for any order of the packets of a flow what was
\* counted of its directions and periods fits, and of a connection the states
\* of the module fit those of the two ends.  It needs packets that are not
\* older than their flow, and a time cap that is later than the connection.
THEOREM StatsInvariant ==
  ASSUME Exposed = {}, Never >= 2
  PROVE  Spec => []StatsInv
<1>1. Init => StatsInv
  BY InitStats
<1>2. StatsInv /\ [Next]_vars => StatsInv'
  BY NextStats
<1>. QED BY <1>1, <1>2, PTL DEF Spec

\* The assertions in the flow statistics hold whenever a flow may be exported,
\* for flows of any number of packets, overtaken ones and silences included.
THEOREM AssertionsAreTrue ==
  ASSUME Exposed = {}, Never >= 2
  PROVE  Spec => []AssertionsHold
<1>1. StatsInv => AssertionsHold
  BY FitsAsserts DEF StatsInv, Connection, AssertionsHold
<1>. QED BY <1>1, StatsInvariant, PTL

\* The module asks for the export of a connection when the connection ends and
\* not before, and tells something if and only if there was data, for any
\* number of segments sent any number of times.
THEOREM RecordsEndWithConnections ==
  ASSUME Exposed = {}, Never >= 2
  PROVE  Spec => []EndsWithConnection
<1>1. StatsInv => EndsWithConnection
  <2> SUFFICES ASSUME StatsInv, kind = "tcp" PROVE EndsWithConnection
    BY DEF EndsWithConnection
  <2>1. Connection(truth, data) /\ (asked <=> Closed(data))
    BY DEF StatsInv
  <2>2. Silent(data) <=> ~data.valid
    <3>1. GetLast(data) - data.first = 0
      BY <2>1, ConnectionTime DEF Connection
    <3>. QED BY <2>1, <3>1 DEF Silent, Connection
  <2>3. data.valid = truth.carried /\ truth.carried \in BOOLEAN
    BY <2>1 DEF Connection
  <2>4. /\ {truth.c, truth.s} \subseteq {"done"} \/ {truth.c, truth.s} \subseteq {"reset"} => asked
        /\ asked => \/ {truth.c, truth.s} \subseteq {"fin", "done"}
                    \/ {truth.c, truth.s} \subseteq {"reset"}
    BY <2>1 DEF Connection, Ends, Closed
  <2>. QED BY <2>2, <2>3, <2>4 DEF EndsWithConnection
<1>. QED BY <1>1, StatsInvariant, PTL

-----------------------------------------------------------------------------
(* Sums over finite sets.  The library's induction theorems take operators;  *)
(* with a set in the operator's place induction follows from WFMin.          *)

\* Induction over the natural numbers, and over the subsets of a finite set
LEMMA SetInduction ==
  ASSUME NEW S \in SUBSET Nat, 0 \in S, \A n \in S : n + 1 \in S
  PROVE  Nat \subseteq S
<1>. SUFFICES ASSUME Nat \ S # {} PROVE FALSE
  OBVIOUS
<1> DEFINE R == OpToRel(<, Nat)
           T == Nat \ S
<1>1. IsWellFoundedOn(R, Nat)
  BY NatLessThanWellFounded
<1>2. \A x, y \in Nat : y < x => <<y, x>> \in R
  BY DEF OpToRel
<1>. HIDE DEF R
<1>3. PICK x \in T : \A y \in T : ~(<<y, x>> \in R)
  <2>. HIDE DEF T
  <2>1. T \subseteq Nat /\ T # {}
    BY DEF T
  <2>. QED BY <1>1, <2>1, WFMin
<1>4. x # 0 /\ x - 1 \in Nat /\ x - 1 < x
  OBVIOUS
<1>5. x - 1 \in S
  BY <1>2, <1>3, <1>4
<1>. QED BY <1>4, <1>5

LEMMA Without ==
  ASSUME NEW S, IsFiniteSet(S), NEW x \in S
  PROVE  /\ IsFiniteSet(S \ {x}) /\ Cardinality(S) \in Nat /\ Cardinality(S) > 0
         /\ Cardinality(S \ {x}) = Cardinality(S) - 1 /\ Cardinality(S \ {x}) \in Nat
<1>1. /\ IsFiniteSet(S \ {x}) /\ Cardinality(S \ {x}) = Cardinality(S) - 1
  BY FS_RemoveElement
<1>2. Cardinality(S) \in Nat /\ Cardinality(S \ {x}) \in Nat
  BY <1>1, FS_CardinalityType
<1>. QED BY <1>1, <1>2

LEMMA FiniteInduction ==
  ASSUME NEW S, IsFiniteSet(S), NEW F, {} \in F,
         \A T \in SUBSET S : T # {} /\ (\A x \in T : T \ {x} \in F) => T \in F
  PROVE  SUBSET S \subseteq F
<1> DEFINE N == {n \in Nat : \A T \in SUBSET S : Cardinality(T) = n => T \in F}
<1>1. \A T \in SUBSET S : IsFiniteSet(T) /\ Cardinality(T) \in Nat
  BY FS_Subset, FS_CardinalityType
<1>2. 0 \in N
  BY <1>1, FS_EmptySet
<1>3. ASSUME NEW n \in N PROVE n + 1 \in N
  <2> SUFFICES ASSUME NEW T \in SUBSET S, Cardinality(T) = n + 1 PROVE T \in F
    OBVIOUS
  <2>1. T # {}
    BY <1>1, FS_EmptySet
  <2>2. ASSUME NEW x \in T PROVE T \ {x} \in F
    <3>1. Cardinality(T \ {x}) = n
      BY <1>1, Without
    <3>. QED BY <3>1
  <2>. QED BY <2>1, <2>2
<1>4. Nat \subseteq N
  <2>. HIDE DEF N
  <2>1. N \in SUBSET Nat
    BY DEF N
  <2>. QED BY <1>2, <1>3, <2>1, SetInduction
<1>. QED BY <1>1, <1>4

-----------------------------------------------------------------------------
\* The folding function of Total
Pick1(s) == CHOOSE x \in s : TRUE
SumsAt(f, g, s) == g[s] = IF s = {} THEN 0 ELSE f[Pick1(s)] + g[s \ {Pick1(s)}]
Sums(f, S, g) ==
    g = [s \in SUBSET S |-> IF s = {} THEN 0 ELSE f[Pick1(s)] + g[s \ {Pick1(s)}]]
Summed(f, S) == CHOOSE g : Sums(f, S, g)

LEMMA PickIs == ASSUME NEW s, s # {} PROVE Pick1(s) \in s
BY DEF Pick1

LEMMA SumsExist ==
  ASSUME NEW f, NEW S, IsFiniteSet(S)
  PROVE  Sums(f, S, Summed(f, S))
<1> DEFINE Upto(n) == \E g : \A s \in SUBSET S : Cardinality(s) <= n => SumsAt(f, g, s)
           N == {n \in Nat : Upto(n)}
           At(g) == [s \in SUBSET S |-> IF s = {} THEN 0 ELSE f[Pick1(s)] + g[s \ {Pick1(s)}]]
<1>1. \A s \in SUBSET S : IsFiniteSet(s) /\ Cardinality(s) \in Nat
  BY FS_Subset, FS_CardinalityType
<1>2. 0 \in N
  <2> DEFINE g == [s \in SUBSET S |-> 0]
  <2>1. ASSUME NEW s \in SUBSET S, Cardinality(s) <= 0 PROVE SumsAt(f, g, s)
    <3>1. s = {}
      BY <1>1, <2>1, FS_EmptySet
    <3>. QED BY <3>1 DEF SumsAt
  <2>. QED BY <2>1
<1>3. ASSUME NEW n \in Nat, NEW g, \A s \in SUBSET S : Cardinality(s) <= n => SumsAt(f, g, s)
      PROVE  \A s \in SUBSET S : Cardinality(s) <= n + 1 => SumsAt(f, At(g), s)
  <2> SUFFICES ASSUME NEW s \in SUBSET S, Cardinality(s) <= n + 1 PROVE SumsAt(f, At(g), s)
    OBVIOUS
  <2>1. CASE s = {}
    BY <2>1 DEF SumsAt
  <2>2. CASE s # {}
    <3> DEFINE c == Pick1(s)
               r == s \ {c}
    <3>1. c \in s
      BY <2>2, PickIs
    <3>2. r \in SUBSET S /\ Cardinality(r) <= n
      BY <1>1, <3>1, Without
    <3>3. At(g)[s] = f[c] + g[r]
      BY <2>2
    <3>4. At(g)[r] = g[r]
      BY <1>3, <3>2 DEF SumsAt
    <3>. QED BY <2>2, <3>3, <3>4 DEF SumsAt
  <2>. QED BY <2>1, <2>2
<1>4. ASSUME NEW n \in N PROVE n + 1 \in N
  <2>1. PICK g : \A s \in SUBSET S : Cardinality(s) <= n => SumsAt(f, g, s)
    OBVIOUS
  <2>2. n \in Nat
    OBVIOUS
  <2>. HIDE DEF N, At
  <2>3. Upto(n + 1)
    BY <1>3, <2>1, <2>2
  <2>. QED BY <2>2, <2>3 DEF N
<1>5. Cardinality(S) \in N
  <2>. HIDE DEF N
  <2>1. N \in SUBSET Nat
    BY DEF N
  <2>. QED BY <1>1, <1>2, <1>4, <2>1, SetInduction
<1>6. PICK g : \A s \in SUBSET S : SumsAt(f, g, s)
  <2>1. PICK g : \A s \in SUBSET S : Cardinality(s) <= Cardinality(S) => SumsAt(f, g, s)
    BY <1>5
  <2>. QED BY <1>1, <2>1, FS_Subset
<1>7. Sums(f, S, At(g))
  <2>1. ASSUME NEW s \in SUBSET S, s # {} PROVE At(g)[s \ {Pick1(s)}] = g[s \ {Pick1(s)}]
    BY <1>6 DEF SumsAt
  <2>. QED BY <2>1 DEF Sums
<1>. QED BY <1>7 DEF Summed

LEMMA TotalIs ==
  ASSUME NEW f, NEW S
  PROVE  Total(f, S) = Summed(f, S)[S]
BY DEF Total, MapThenSumSet, MapThenFoldSet, Summed, Sums, Pick1
LEMMA SummedIn ==
  ASSUME NEW f, NEW S, IsFiniteSet(S), NEW T \in SUBSET S
  PROVE  Summed(f, S)[T] = Total(f, T)
<1> DEFINE F == {s \in SUBSET S : \A U \in SUBSET S : s \subseteq U => Summed(f, U)[s] = Total(f, s)}
<1>1. \A U \in SUBSET S : IsFiniteSet(U) /\ Sums(f, U, Summed(f, U))
  BY FS_Subset, SumsExist
<1>2. {} \in F
  <2>1. \A U \in SUBSET S : Summed(f, U)[{}] = 0
    BY <1>1 DEF Sums
  <2>. QED BY <2>1, TotalIs
<1>3. ASSUME NEW s \in SUBSET S, s # {}, \A x \in s : s \ {x} \in F PROVE s \in F
  <2> DEFINE c == Pick1(s)
             r == s \ {c}
  <2>1. c \in s /\ r \in F
    BY <1>3, PickIs
  <2>2. ASSUME NEW U \in SUBSET S, s \subseteq U PROVE Summed(f, U)[s] = f[c] + Total(f, r)
    <3>1. Summed(f, U)[s] = f[c] + Summed(f, U)[r]
      BY <1>1, <1>3, <2>2 DEF Sums
    <3>2. Summed(f, U)[r] = Total(f, r)
      BY <2>1, <2>2
    <3>. QED BY <3>1, <3>2
  <2>. HIDE DEF c, r
  <2>3. Total(f, s) = f[c] + Total(f, r)
    BY <2>2, TotalIs
  <2>. QED BY <2>2, <2>3
<1>4. SUBSET S \subseteq F
  <2>. HIDE DEF F
  <2>. QED BY <1>2, <1>3, FiniteInduction
<1>. QED BY <1>4

LEMMA TotalStep ==
  ASSUME NEW f, NEW S, IsFiniteSet(S)
  PROVE  Total(f, S) = IF S = {} THEN 0 ELSE f[Pick1(S)] + Total(f, S \ {Pick1(S)})
<1>1. Sums(f, S, Summed(f, S))
  BY SumsExist
<1>2. Summed(f, S)[S] = Total(f, S) /\ Summed(f, S)[S \ {Pick1(S)}] = Total(f, S \ {Pick1(S)})
  BY SummedIn
<1>. QED BY <1>1, <1>2 DEF Sums

LEMMA TotalEmpty == ASSUME NEW f PROVE Total(f, {}) = 0
BY TotalStep, FS_EmptySet

LEMMA TotalIsInt ==
  ASSUME NEW f, NEW S, IsFiniteSet(S), \A x \in S : f[x] \in Int
  PROVE  Total(f, S) \in Int
<1> DEFINE F == {T \in SUBSET S : Total(f, T) \in Int}
<1>1. {} \in F
  BY TotalEmpty
<1>2. ASSUME NEW T \in SUBSET S, T # {}, \A x \in T : T \ {x} \in F PROVE T \in F
  <2>1. Pick1(T) \in T /\ Total(f, T \ {Pick1(T)}) \in Int
    BY <1>2, PickIs
  <2>2. Total(f, T) = f[Pick1(T)] + Total(f, T \ {Pick1(T)})
    BY <1>2, TotalStep, FS_Subset
  <2>. QED BY <2>1, <2>2
<1>3. SUBSET S \subseteq F
  <2>. HIDE DEF F
  <2>. QED BY <1>1, <1>2, FiniteInduction
<1>. QED BY <1>3

\* The sum is that of any element and of the rest.
LEMMA TotalWithout ==
  ASSUME NEW f, NEW S, IsFiniteSet(S), \A x \in S : f[x] \in Int, NEW x \in S
  PROVE  Total(f, S) = f[x] + Total(f, S \ {x})
<1> DEFINE F == {T \in SUBSET S : \A y \in T : Total(f, T) = f[y] + Total(f, T \ {y})}
<1>1. {} \in F
  OBVIOUS
<1>2. ASSUME NEW T \in SUBSET S, T # {}, \A y \in T : T \ {y} \in F PROVE T \in F
  <2> SUFFICES ASSUME NEW y \in T PROVE Total(f, T) = f[y] + Total(f, T \ {y})
    OBVIOUS
  <2> DEFINE c == Pick1(T)
  <2>1. c \in T /\ Total(f, T) = f[c] + Total(f, T \ {c})
    BY <1>2, PickIs, TotalStep, FS_Subset
  <2>. HIDE DEF c
  <2>2. CASE y # c
    <3>1. Total(f, T \ {c}) = f[y] + Total(f, (T \ {c}) \ {y})
      BY <1>2, <2>1, <2>2
    <3>2. Total(f, T \ {y}) = f[c] + Total(f, (T \ {y}) \ {c})
      BY <1>2, <2>1, <2>2
    <3>3. (T \ {c}) \ {y} = (T \ {y}) \ {c} /\ IsFiniteSet((T \ {y}) \ {c})
      BY FS_Subset
    <3>4. Total(f, (T \ {y}) \ {c}) \in Int
      BY <3>3, TotalIsInt
    <3>5. f[y] \in Int /\ f[c] \in Int
      BY <2>1
    <3>6. Total(f, (T \ {c}) \ {y}) = Total(f, (T \ {y}) \ {c})
      BY <3>3
    <3> DEFINE t == Total(f, T)
               a == Total(f, T \ {c})
               b == Total(f, T \ {y})
               r == Total(f, (T \ {y}) \ {c})
    <3>7. t = f[c] + a /\ a = f[y] + r /\ b = f[c] + r /\ r \in Int
      BY <2>1, <3>1, <3>2, <3>4, <3>6
    <3>. HIDE DEF t, a, b, r
    <3>8. t = f[y] + b
      BY <3>5, <3>7
    <3>. QED BY <3>8 DEF t, b
  <2>. QED BY <2>1, <2>2
<1>3. SUBSET S \subseteq F
  <2>. HIDE DEF F
  <2>. QED BY <1>1, <1>2, FiniteInduction
<1>. QED BY <1>3

\* It depends on the values only,
LEMMA TotalSame ==
  ASSUME NEW f, NEW g, NEW S, IsFiniteSet(S), \A x \in S : f[x] = g[x]
  PROVE  Total(f, S) = Total(g, S)
<1> DEFINE F == {T \in SUBSET S : Total(f, T) = Total(g, T)}
<1>1. {} \in F
  BY TotalEmpty
<1>2. ASSUME NEW T \in SUBSET S, T # {}, \A x \in T : T \ {x} \in F PROVE T \in F
  <2>1. Pick1(T) \in T
    BY <1>2, PickIs
  <2>2. /\ Total(f, T) = f[Pick1(T)] + Total(f, T \ {Pick1(T)})
        /\ Total(g, T) = g[Pick1(T)] + Total(g, T \ {Pick1(T)})
    BY <1>2, TotalStep, FS_Subset
  <2>. QED BY <1>2, <2>1, <2>2
<1>3. SUBSET S \subseteq F
  <2>. HIDE DEF F
  <2>. QED BY <1>1, <1>2, FiniteInduction
<1>. QED BY <1>3

\* so that a change of one of them is a change of the sum.
LEMMA TotalChanged ==
  ASSUME NEW f, NEW g, NEW S, IsFiniteSet(S), NEW x \in S, f[x] \in Int, g[x] \in Int,
         \A y \in S : y # x => f[y] \in Int /\ g[y] = f[y]
  PROVE  Total(g, S) = Total(f, S) - f[x] + g[x]
<1>1. /\ Total(f, S) = f[x] + Total(f, S \ {x})
      /\ Total(g, S) = g[x] + Total(g, S \ {x})
  BY TotalWithout
<1>2. Total(f, S \ {x}) = Total(g, S \ {x}) /\ Total(f, S \ {x}) \in Int
  BY FS_RemoveElement, TotalSame, TotalIsInt
<1>. QED BY <1>1, <1>2

LEMMA TotalSplit ==
  ASSUME NEW f, NEW S, IsFiniteSet(S), \A x \in S : f[x] \in Int, NEW T \in SUBSET S
  PROVE  Total(f, S) = Total(f, T) + Total(f, S \ T)
<1> DEFINE F == {U \in SUBSET S : Total(f, S) = Total(f, U) + Total(f, S \ U)}
<1>1. {} \in F
  <2>1. Total(f, S) \in Int /\ S \ {} = S
    BY TotalIsInt
  <2>. QED BY <2>1, TotalEmpty
<1>2. ASSUME NEW U \in SUBSET S, U # {}, \A x \in U : U \ {x} \in F PROVE U \in F
  <2>1. PICK x \in U : TRUE
    BY <1>2
  <2>2. Total(f, S) = Total(f, U \ {x}) + Total(f, S \ (U \ {x}))
    BY <1>2
  <2>3. S \ (U \ {x}) = (S \ U) \cup {x} /\ ((S \ U) \cup {x}) \ {x} = S \ U
    OBVIOUS
  <2>4. \A V \in SUBSET S : IsFiniteSet(V) /\ Total(f, V) \in Int
    BY FS_Subset, TotalIsInt
  <2>5. Total(f, U) = f[x] + Total(f, U \ {x})
    BY <2>4, TotalWithout
  <2>6. Total(f, (S \ U) \cup {x}) = f[x] + Total(f, S \ U)
    BY <2>3, <2>4, TotalWithout
  <2>7. f[x] \in Int /\ Total(f, U \ {x}) \in Int /\ Total(f, S \ U) \in Int
    BY <2>4
  <2>8. Total(f, S) = Total(f, U) + Total(f, S \ U)
    <3> DEFINE t == Total(f, S)
               a == Total(f, U \ {x})
               b == Total(f, (S \ U) \cup {x})
               u == Total(f, U)
               v == Total(f, S \ U)
    <3>1. t = a + b /\ u = f[x] + a /\ b = f[x] + v /\ f[x] \in Int /\ a \in Int /\ v \in Int
      BY <2>2, <2>3, <2>5, <2>6, <2>7
    <3>. HIDE DEF t, a, b, u, v
    <3>2. t = u + v
      BY <3>1
    <3>. QED BY <3>2 DEF t, u, v
  <2>. QED BY <2>8
<1>3. SUBSET S \subseteq F
  <2>. HIDE DEF F
  <2>. QED BY <1>1, <1>2, FiniteInduction
<1>. QED BY <1>3

LEMMA TotalBounds ==
  ASSUME NEW f, NEW S, IsFiniteSet(S), NEW lo \in Int, NEW hi \in Int,
         \A x \in S : f[x] \in Int /\ lo <= f[x] /\ f[x] <= hi
  PROVE  Cardinality(S) * lo <= Total(f, S) /\ Total(f, S) <= Cardinality(S) * hi
<1> DEFINE F == {T \in SUBSET S : /\ Cardinality(T) * lo <= Total(f, T)
                                  /\ Total(f, T) <= Cardinality(T) * hi}
<1>1. {} \in F
  <2>1. Total(f, {}) = 0 /\ Cardinality({}) = 0
    BY TotalStep, FS_EmptySet
  <2>. QED BY <2>1
<1>2. ASSUME NEW T \in SUBSET S, T # {}, \A x \in T : T \ {x} \in F PROVE T \in F
  <2> DEFINE c == Pick1(T)
             n == Cardinality(T \ {c})
             t == Total(f, T \ {c})
  <2>1. c \in T /\ IsFiniteSet(T)
    BY <1>2, PickIs, FS_Subset
  <2>2. Total(f, T) = f[c] + t
    BY <1>2, <2>1, TotalStep
  <2>3. Cardinality(T) = n + 1 /\ n \in Nat
    BY <2>1, Without
  <2>4. n * lo <= t /\ t <= n * hi
    BY <1>2, <2>1
  <2>5. t \in Int
    BY <2>1, Without, TotalIsInt
  <2>6. f[c] \in Int /\ lo <= f[c] /\ f[c] <= hi
    BY <2>1
  <2>. HIDE DEF n, t, c
  <2>7. (n + 1) * lo = n * lo + lo /\ (n + 1) * hi = n * hi + hi
        /\ n * lo \in Int /\ n * hi \in Int
    BY <2>3
  <2>. QED BY <2>2, <2>3, <2>4, <2>5, <2>6, <2>7
<1>3. SUBSET S \subseteq F
  <2>. HIDE DEF F
  <2>. QED BY <1>1, <1>2, FiniteInduction
<1>. QED BY <1>3

\* The extremes of a finite set of numbers
LEMMA ExtremesAre ==
  ASSUME NEW S \in SUBSET Int, IsFiniteSet(S), S # {}
  PROVE  /\ Min(S) \in S /\ \A x \in S : Min(S) <= x
         /\ Max(S) \in S /\ \A x \in S : x <= Max(S)
<1> DEFINE F == {T \in SUBSET S : T # {} => /\ \E m \in T : \A x \in T : m <= x
                                            /\ \E m \in T : \A x \in T : x <= m}
<1>1. {} \in F
  OBVIOUS
<1>2. ASSUME NEW T \in SUBSET S, T # {}, \A x \in T : T \ {x} \in F PROVE T \in F
  <2>1. PICK c \in T : TRUE
    BY <1>2
  <2>2. CASE T = {c}
    BY <2>2
  <2>3. CASE T \ {c} # {}
    <3>1. PICK lo \in T \ {c} : \A x \in T \ {c} : lo <= x
      BY <1>2, <2>3
    <3>2. PICK hi \in T \ {c} : \A x \in T \ {c} : x <= hi
      BY <1>2, <2>3
    <3>3. \E m \in {lo, c} : \A x \in T : m <= x
      BY <3>1
    <3>4. \E m \in {hi, c} : \A x \in T : x <= m
      BY <3>2
    <3>. QED BY <2>1, <3>3, <3>4
  <2>. QED BY <2>1, <2>2, <2>3
<1>3. S \in F
  <2>. HIDE DEF F
  <2>. QED BY <1>1, <1>2, FiniteInduction
<1>. QED BY <1>3 DEF Min, Max
-----------------------------------------------------------------------------
(* The memory of the modules that keep packets. *)

\* A free entry is an unused one.
PingsFit(d) ==
    /\ {"list", "free"} \subseteq DOMAIN d
    /\ DOMAIN d.list = 0 .. ENTRIES - 1
    /\ \A i \in DOMAIN d.list : "id" \in DOMAIN d.list[i]
    /\ d.free \in Nat /\ d.free <= Cardinality(Unused(d))

\* The counters of bandwidth
Counters == [n : Nat, first : Int, last : Int]

CaptureFits(d) ==
    /\ d.size \in Nat /\ d.len \in Nat
    /\ d.size >= INIT_BLEN /\ d.len <= d.size

\* What was allocated for packets is used or free.
PktidFits(d) ==
    /\ {"n", "free", "size"} \subseteq DOMAIN d
    /\ d.n \in Nat /\ d.free \in Nat /\ d.size \in Nat
    /\ d.n + d.free = d.size /\ d.size > 0

ShowFits(d) ==
    /\ {"n", "size", "freed"} \subseteq DOMAIN d
    /\ d.n \in Nat /\ d.size \in Nat /\ d.freed = FALSE
    /\ d.n <= d.size /\ d.size > 0

BandwidthFits(d) ==
    /\ {"curr", "sets", "maxSets"} \subseteq DOMAIN d
    /\ d.curr \in Counters /\ d.sets \in Seq(Counters) /\ d.maxSets \in Nat
    /\ Len(d.sets) <= d.maxSets

\* What each module has allocated is enough for what it keeps.
MemoryInv ==
    /\ kind \in Modules /\ now \in Int
    /\ kind = "rtt_ping" => PingsFit(data)
    /\ kind = "capture" => CaptureFits(data)
    /\ kind \in {"pktid_md5", "pktid_crc32"} => PktidFits(data)
    /\ kind = "show_ascii" => ShowFits(data)
    /\ kind = "bandwidth" => BandwidthFits(data)

LEMMA UnusedFinite ==
  ASSUME NEW d, PingsFit(d)
  PROVE  IsFiniteSet(Unused(d)) /\ Cardinality(Unused(d)) \in Nat
<1>1. IsFiniteSet(0 .. ENTRIES - 1)
  BY FS_Interval, MeasurementsAssumption
<1>2. Unused(d) \subseteq 0 .. ENTRIES - 1
  BY DEF PingsFit, Unused
<1>. QED BY <1>1, <1>2, FS_Subset, FS_CardinalityType

\* A request takes at most one unused entry, whichever it is given.
LEMMA RequestFits ==
  ASSUME NEW d, PingsFit(d), NEW p
  PROVE  PingsFit(PingRequest(d, p))
<1> DEFINE e == PingRequest(d, p)
           k == EntryFor(d)
           entry == [id |-> p.echo.id, seqno |-> p.echo.seqno, t |-> p.t]
<1>1. /\ DOMAIN e = DOMAIN d
      /\ e.list = [d.list EXCEPT ![k] = entry]
      /\ e.free = IF d.free > 0 THEN d.free - 1 ELSE 0
  BY DEF PingRequest, PingsFit
<1>. HIDE DEF e, k
<1>2. /\ DOMAIN e.list = DOMAIN d.list
      /\ \A i \in DOMAIN d.list : i # k => e.list[i] = d.list[i]
      /\ \A i \in DOMAIN e.list : "id" \in DOMAIN e.list[i]
  <2>1. "id" \in DOMAIN entry
    OBVIOUS
  <2>. HIDE DEF entry
  <2>2. \A i \in DOMAIN d.list : e.list[i] = IF i = k THEN entry ELSE d.list[i]
    BY <1>1
  <2>. QED BY <1>1, <2>1, <2>2 DEF PingsFit
<1>3. Unused(d) \ {k} \subseteq Unused(e)
  BY <1>2 DEF Unused
<1>4. IsFiniteSet(Unused(e)) /\ Cardinality(Unused(e)) \in Nat
  <2>1. IsFiniteSet(0 .. ENTRIES - 1)
    BY FS_Interval, MeasurementsAssumption
  <2>2. Unused(e) \subseteq 0 .. ENTRIES - 1
    BY <1>2 DEF PingsFit, Unused
  <2>. QED BY <2>1, <2>2, FS_Subset, FS_CardinalityType
<1>5. Cardinality(Unused(d)) - 1 <= Cardinality(Unused(e))
  <2>1. /\ Cardinality(Unused(d) \ {k}) =
              IF k \in Unused(d) THEN Cardinality(Unused(d)) - 1 ELSE Cardinality(Unused(d))
        /\ IsFiniteSet(Unused(d) \ {k})
    BY UnusedFinite, FS_RemoveElement
  <2>2. Cardinality(Unused(d) \ {k}) <= Cardinality(Unused(e))
    BY <1>3, <1>4, FS_Subset
  <2>. QED BY <2>1, <2>2, <1>4, UnusedFinite
<1>6. e.free \in Nat /\ e.free <= Cardinality(Unused(e))
  <2>1. /\ d.free \in Nat /\ d.free <= Cardinality(Unused(d))
        /\ Cardinality(Unused(d)) \in Nat
    BY UnusedFinite DEF PingsFit
  <2>. QED BY <1>1, <1>4, <1>5, <2>1
<1>. QED BY <1>1, <1>2, <1>6 DEF PingsFit, e

\* A reply frees the entries it is matched with, none of which was unused.
LEMMA ReplyFits ==
  ASSUME NEW d, PingsFit(d), NEW p
  PROVE  PingsFit(PingReply(d, p))
<1> DEFINE hit == {i \in DOMAIN d.list : /\ d.list[i].id = p.echo.id /\ d.list[i].id # 0
                                         /\ d.list[i].seqno = p.echo.seqno}
           rtt == [i \in hit |-> p.t - d.list[i].t]
           rtts == {rtt[i] : i \in hit}
           sum == d.sum + Total(rtt, hit)
           min == Min(rtts \cup IF d.matches = 0 THEN {} ELSE {d.min})
           max == Max(rtts \cup {d.max})
           freed == [i \in DOMAIN d.list |-> IF i \in hit THEN [d.list[i] EXCEPT !.id = 0]
                                             ELSE d.list[i]]
           e == [d EXCEPT !.list = freed,
                          !.free = d.free + Cardinality(hit),
                          !.matches = d.matches + Cardinality(hit),
                          !.sum = sum, !.min = min, !.max = max]
<1>1. PingReply(d, p) = IF hit = {} THEN d ELSE e
  BY Zenon DEF PingReply
<1>2. PingsFit(e)
  <2>. HIDE DEF sum, min, max, hit
  <2>1. /\ DOMAIN e = DOMAIN d /\ e.list = freed /\ e.free = d.free + Cardinality(hit)
    BY DEF PingsFit
  <2>. HIDE DEF e
  <2>2. /\ DOMAIN e.list = DOMAIN d.list
        /\ \A i \in DOMAIN d.list : "id" \in DOMAIN e.list[i]
        /\ \A i \in hit : i \in DOMAIN d.list /\ e.list[i].id = 0 /\ d.list[i].id # 0
        /\ \A i \in DOMAIN d.list : i \notin hit => e.list[i] = d.list[i]
    BY <2>1 DEF hit, PingsFit
  <2>3. Unused(e) = Unused(d) \cup hit /\ Unused(d) \cap hit = {}
    BY <2>2 DEF Unused
  <2>4. IsFiniteSet(hit) /\ Cardinality(hit) \in Nat
    <3>1. IsFiniteSet(0 .. ENTRIES - 1)
      BY FS_Interval, MeasurementsAssumption
    <3>2. hit \subseteq 0 .. ENTRIES - 1
      BY <2>2 DEF PingsFit
    <3>. QED BY <3>1, <3>2, FS_Subset, FS_CardinalityType
  <2>5. Cardinality(Unused(e)) = Cardinality(Unused(d)) + Cardinality(hit)
    BY <2>3, <2>4, UnusedFinite, FS_Union, FS_EmptySet
  <2>6. e.free \in Nat /\ e.free <= Cardinality(Unused(e))
    <3>1. /\ d.free \in Nat /\ d.free <= Cardinality(Unused(d))
          /\ Cardinality(Unused(d)) \in Nat
      BY UnusedFinite DEF PingsFit
    <3>. QED BY <2>1, <2>4, <2>5, <3>1
  <2>7. DOMAIN d.list = 0 .. ENTRIES - 1 /\ {"list", "free"} \subseteq DOMAIN e
    BY <2>1 DEF PingsFit
  <2>. QED BY <2>2, <2>6, <2>7 DEF PingsFit
<1>. QED BY <1>1, <1>2

\* No packet is larger than the buffer of capture is at first.
PacketsFitBuffer == \A n \in Lengths : PacketHeader + n <= INIT_BLEN

LEMMA InitMemory == Init => MemoryInv
<1> SUFFICES ASSUME Init PROVE MemoryInv
  OBVIOUS
<1> USE MeasurementsAssumption
<1>1. kind \in Modules /\ now = 2 /\ data \in InitFlowRecs(kind)
  BY DEF Init
<1>2. kind = "rtt_ping" => PingsFit(data)
  <2> SUFFICES ASSUME kind = "rtt_ping" PROVE PingsFit(data)
    OBVIOUS
  <2>1. data = PingInit
    BY <1>1 DEF InitFlowRecs
  <2>2. /\ data.list = [i \in 0 .. ENTRIES - 1 |-> NoEntry] /\ data.free = ENTRIES
        /\ {"list", "free"} \subseteq DOMAIN data
    BY <2>1 DEF PingInit
  <2>3. Unused(data) = 0 .. ENTRIES - 1
    BY <2>2 DEF Unused, NoEntry
  <2>4. Cardinality(0 .. ENTRIES - 1) = ENTRIES
    <3>1. ENTRIES \in Nat \ {0}
      OBVIOUS
    <3>2. 0 \in Int /\ ENTRIES - 1 \in Int /\ ~(0 > ENTRIES - 1) /\ (ENTRIES - 1) - 0 + 1 = ENTRIES
      BY <3>1
    <3>3. Cardinality(0 .. ENTRIES - 1) = (ENTRIES - 1) - 0 + 1
      BY <3>2, FS_Interval
    <3>. QED BY <3>2, <3>3
  <2>5. data.free \in Nat /\ data.free <= Cardinality(Unused(data))
    BY <2>2, <2>3, <2>4
  <2>6. /\ DOMAIN data.list = 0 .. ENTRIES - 1
        /\ \A i \in DOMAIN data.list : "id" \in DOMAIN data.list[i]
    BY <2>2 DEF NoEntry
  <2>. QED BY <2>2, <2>5, <2>6 DEF PingsFit
<1>3. kind = "capture" => CaptureFits(data)
  BY <1>1 DEF InitFlowRecs, CaptureInit, CaptureFits
<1>4. kind \in {"pktid_md5", "pktid_crc32"} => PktidFits(data)
  <2> SUFFICES ASSUME kind \in {"pktid_md5", "pktid_crc32"} PROVE PktidFits(data)
    OBVIOUS
  <2>1. data = PktidInit
    BY <1>1 DEF InitFlowRecs
  <2>2. INIT_ELEM \in Nat \ {0}
    OBVIOUS
  <2>. QED BY ONLY <2>1, <2>2 DEF PktidInit, PktidFits
<1>5. kind = "show_ascii" => ShowFits(data)
  <2> SUFFICES ASSUME kind = "show_ascii" PROVE ShowFits(data)
    OBVIOUS
  <2>1. data = ShowInit
    BY <1>1 DEF InitFlowRecs
  <2>2. INIT_ELEM \in Nat \ {0}
    OBVIOUS
  <2>. QED BY ONLY <2>1, <2>2 DEF ShowInit, ShowFits
<1>6. kind = "bandwidth" => BandwidthFits(data)
  <2> SUFFICES ASSUME kind = "bandwidth" PROVE BandwidthFits(data)
    OBVIOUS
  <2>1. PICK b \in BOOLEAN : data = BandwidthInit(b)
    BY <1>1 DEF InitFlowRecs
  <2>2. NoCounters \in Counters
    BY DEF NoCounters, Counters
  <2>. QED BY ONLY <2>1, <2>2 DEF BandwidthInit, BandwidthFits
<1>. QED BY <1>1, <1>2, <1>3, <1>4, <1>5, <1>6 DEF MemoryInv

\* A list of packets has room for another one: it is doubled when it is full.
LEMMA ListsFit ==
  ASSUME NEW d, NEW p
  PROVE  /\ PktidFits(d) => PktidFits(PktidPacket(d, p)) /\ PktidFits(PktidExport(d))
         /\ ShowFits(d) => ShowFits(ShowPacket(d, p)) /\ ShowFits(ShowExport(d))
<1>1. ASSUME PktidFits(d) PROVE PktidFits(PktidPacket(d, p)) /\ PktidFits(PktidExport(d))
  <2>1. PktidFits(PktidPacket(d, p))
    BY <1>1 DEF PktidFits, PktidPacket
  <2> DEFINE e == PktidExport(d)
  <2>2. /\ {"n", "free", "size"} \subseteq DOMAIN e
        /\ e.n = 0 /\ e.free = d.free + d.n /\ e.size = d.size
    BY <1>1 DEF PktidFits, PktidExport
  <2>. HIDE DEF e
  <2>3. PktidFits(e)
    BY <1>1, <2>2 DEF PktidFits
  <2>. QED BY <2>1, <2>3 DEF e
<1>2. ASSUME ShowFits(d) PROVE ShowFits(ShowPacket(d, p)) /\ ShowFits(ShowExport(d))
  <2> DEFINE e == ShowPacket(d, p)
             x == ShowExport(d)
  <2>1. /\ {"n", "size", "freed"} \subseteq DOMAIN e
        /\ e.n = d.n + 1 /\ e.size = IF d.n = d.size THEN 2 * d.size ELSE d.size
        /\ e.freed = FALSE
    BY <1>2 DEF ShowFits, ShowPacket
  <2>2. /\ {"n", "size", "freed"} \subseteq DOMAIN x
        /\ x.n = 0 /\ x.size = d.size /\ x.freed = FALSE
    BY <1>2 DEF ShowFits, ShowExport
  <2>. HIDE DEF e, x
  <2>3. ShowFits(e)
    BY <1>2, <2>1 DEF ShowFits
  <2>4. ShowFits(x)
    BY <1>2, <2>2 DEF ShowFits
  <2>. QED BY <2>3, <2>4 DEF e, x
<1>. QED BY <1>1, <1>2

\* The same for bandwidth's snapshots, for which COUNTCHUNK more are allocated.
LEMMA SnapshotsFit ==
  ASSUME NEW d, BandwidthFits(d), NEW p, p.t \in Int
  PROVE  /\ BandwidthFits(BandwidthPacket(d, p))
         /\ BandwidthFits(BandwidthExport(d))
         /\ BandwidthFits(BandwidthTimeout(d))
<1>1. /\ {"curr", "sets", "maxSets"} \subseteq DOMAIN d
      /\ d.curr \in Counters /\ d.sets \in Seq(Counters) /\ d.maxSets \in Nat
      /\ Len(d.sets) <= d.maxSets /\ Len(d.sets) \in Nat
  BY DEF BandwidthFits
<1>2. NoCounters \in Counters /\ <<>> \in Seq(Counters) /\ Len(<<>>) = 0
  BY DEF NoCounters, Counters
<1>3. BandwidthFits(BandwidthPacket(d, p))
  <2> DEFINE counted == [n |-> d.curr.n + 1,
                         first |-> IF d.curr.n = 0 THEN p.t ELSE d.curr.first, last |-> p.t]
             e == [d EXCEPT !.curr = counted]
  <2>1. counted \in Counters
    BY <1>1 DEF Counters
  <2>2. BandwidthPacket(d, p) = e
    BY <1>1 DEF BandwidthPacket
  <2>. HIDE DEF counted
  <2>3. /\ DOMAIN e = DOMAIN d
        /\ e.curr = counted /\ e.sets = d.sets /\ e.maxSets = d.maxSets
    BY <1>1
  <2>. HIDE DEF e
  <2>4. BandwidthFits(e)
    BY <1>1, <2>1, <2>3 DEF BandwidthFits
  <2>. QED BY <2>2, <2>4
<1>4. BandwidthFits(BandwidthExport(d))
  <2> DEFINE e == BandwidthExport(d)
  <2>1. /\ DOMAIN e = DOMAIN d
        /\ e.curr = d.curr \/ e.curr = NoCounters
        /\ e.sets = d.sets \/ e.sets = <<>>
        /\ e.maxSets = d.maxSets
    <3>1. CASE d.sets = <<>>
      BY <1>1, <3>1 DEF BandwidthExport
    <3>2. CASE d.sets # <<>>
      BY <1>1, <3>2 DEF BandwidthExport
    <3>. QED BY <3>1, <3>2
  <2>. HIDE DEF e
  <2>2. /\ e.curr \in Counters /\ e.sets \in Seq(Counters)
        /\ Len(e.sets) <= e.maxSets
    <3>1. e.curr \in Counters
      BY <1>1, <1>2, <2>1
    <3>2. CASE e.sets = d.sets
      BY <1>1, <2>1, <3>1, <3>2
    <3>3. CASE e.sets = <<>>
      <4>1. Len(e.sets) = 0 /\ e.sets \in Seq(Counters)
        BY <3>3
      <4>. QED BY ONLY <1>1, <2>1, <3>1, <4>1
    <3>. QED BY <2>1, <3>2, <3>3
  <2>3. BandwidthFits(e)
    BY <1>1, <2>1, <2>2 DEF BandwidthFits
  <2>. QED BY <2>3 DEF e
<1>5. BandwidthFits(BandwidthTimeout(d))
  <2> DEFINE e == BandwidthTimeout(d)
             sets == Append(d.sets, d.curr)
  <2>1. sets \in Seq(Counters) /\ Len(sets) = Len(d.sets) + 1
    BY <1>1
  <2>. HIDE DEF sets
  <2>2. /\ DOMAIN e = DOMAIN d
        /\ e.curr = NoCounters /\ e.sets = sets
        /\ e.maxSets = IF Len(d.sets) = d.maxSets THEN d.maxSets + COUNTCHUNK ELSE d.maxSets
    BY <1>1 DEF BandwidthTimeout, AppendCounters, sets
  <2>. HIDE DEF e
  <2>3. e.maxSets \in Nat /\ Len(sets) <= e.maxSets
    BY <1>1, <2>1, <2>2, MeasurementsAssumption
  <2>4. BandwidthFits(e)
    BY <1>1, <1>2, <2>1, <2>2, <2>3 DEF BandwidthFits
  <2>. QED BY <2>4 DEF e
<1>. QED BY <1>3, <1>4, <1>5

\* What the modules make of a packet
LEMMA PacketKeepsMemory ==
  ASSUME PacketsFitBuffer, MemoryInv, NEW p, p.t \in Int,
         kind = "capture" => p.len \in Lengths,
         data' = Process(p), kind' = kind, now' \in Int
  PROVE  MemoryInv'
<1>1. kind = "rtt_ping" => PingsFit(data')
  BY RequestFits, ReplyFits DEF MemoryInv, Process, PingPacket
<1>2. kind = "capture" => CaptureFits(data')
  <2> SUFFICES ASSUME kind = "capture" PROVE CaptureFits(data')
    OBVIOUS
  <2>1. /\ p.len \in Nat /\ PacketHeader \in Nat /\ PacketHeader + p.len <= INIT_BLEN
        /\ data.size \in Nat /\ data.len \in Nat /\ INIT_BLEN \in Nat
        /\ data.size >= INIT_BLEN /\ data.len <= data.size
    BY ProcModulesAssumption, MeasurementsAssumption
       DEF MemoryInv, CaptureFits, PacketsFitBuffer
  <2>2. /\ data'.size = IF data.size - data.len < PacketHeader + p.len THEN 2 * data.size
                        ELSE data.size
        /\ data'.len = data.len + PacketHeader + p.len
    BY DEF Process, CapturePacket
  <2>. QED BY <2>1, <2>2 DEF CaptureFits
<1>3. kind \in {"pktid_md5", "pktid_crc32"} => PktidFits(data')
  <2>1. kind \in {"pktid_md5", "pktid_crc32"} => data' = PktidPacket(data, p)
    BY DEF Process, CrcPacket
  <2>. QED BY <2>1, ListsFit DEF MemoryInv
<1>4. kind = "show_ascii" => ShowFits(data')
  <2>1. kind = "show_ascii" => data' = ShowPacket(data, p)
    BY DEF Process
  <2>. QED BY <2>1, ListsFit DEF MemoryInv
<1>5. kind = "bandwidth" => BandwidthFits(data')
  <2>1. kind = "bandwidth" => data' = BandwidthPacket(data, p)
    BY DEF Process
  <2>. QED BY <2>1, SnapshotsFit DEF MemoryInv
<1>. QED BY <1>1, <1>2, <1>3, <1>4, <1>5 DEF MemoryInv

\* Exports and resets
LEMMA ExportKeepsMemory ==
  ASSUME MemoryInv, now' = now, kind' = kind,
         data' = Exported \/ (data' = Reset(Exported) /\ kind # "show_ascii")
  PROVE  MemoryInv'
<1>1. kind = "rtt_ping" => PingsFit(data')
  <2> SUFFICES ASSUME kind = "rtt_ping" PROVE PingsFit(data')
    OBVIOUS
  <2>1. PingsFit(data) /\ data' \in {data, PingReset(data)}
    BY DEF MemoryInv, Exported, Reset
  <2>2. LET e == PingReset(data)
        IN  DOMAIN e = DOMAIN data /\ e.list = data.list /\ e.free = data.free
    BY <2>1 DEF PingReset, PingsFit
  <2>. QED BY <2>1, <2>2 DEF PingsFit, Unused
<1>2. kind = "capture" => CaptureFits(data')
  <2>1. kind = "capture" => data' = CaptureReset(data)
    BY DEF Exported, Reset, CaptureExport, CaptureReset
  <2>2. INIT_BLEN \in Nat
    BY MeasurementsAssumption
  <2>3. CaptureFits(CaptureReset(data))
    BY <2>2 DEF CaptureFits, CaptureReset
  <2>. QED BY <2>1, <2>3
<1>3. kind \in {"pktid_md5", "pktid_crc32"} => PktidFits(data')
  <2>1. ASSUME kind \in {"pktid_md5", "pktid_crc32"}
        PROVE  data' \in {PktidExport(data), PktidInit}
    <3>1. Exported = PktidExport(data)
      BY <2>1 DEF Exported, CrcExport
    <3>2. \A d : Reset(d) = PktidInit
      BY <2>1 DEF Reset, PktidReset
    <3>. QED BY <3>1, <3>2
  <2>2. INIT_ELEM \in Nat \ {0}
    BY MeasurementsAssumption
  <2>3. PktidFits(PktidInit)
    BY <2>2 DEF PktidInit, PktidFits
  <2>. QED BY <2>1, <2>3, ListsFit DEF MemoryInv
<1>4. kind = "show_ascii" => ShowFits(data')
  <2>1. kind = "show_ascii" => data' = ShowExport(data)
    BY DEF Exported
  <2>. QED BY <2>1, ListsFit DEF MemoryInv
<1>5. kind = "bandwidth" => BandwidthFits(data')
  <2>1. ASSUME kind = "bandwidth" PROVE data' = BandwidthExport(data)
    <3>1. Exported = BandwidthExport(data)
      BY <2>1 DEF Exported
    <3>2. \A d : Reset(d) = d
      BY <2>1 DEF Reset
    <3>. QED BY <3>1, <3>2
  <2> DEFINE p == [t |-> 0]
  <2>2. p.t \in Int
    OBVIOUS
  <2>. HIDE DEF p
  <2>. QED BY <2>1, <2>2, SnapshotsFit DEF MemoryInv
<1>. QED BY <1>1, <1>2, <1>3, <1>4, <1>5 DEF MemoryInv

LEMMA NextMemory ==
  ASSUME Exposed = {}, PacketsFitBuffer
  PROVE  MemoryInv /\ [Next]_vars => MemoryInv'
<1> SUFFICES ASSUME MemoryInv, [Next]_vars PROVE MemoryInv'
  OBVIOUS
<1>1. \A t \in Int : Max({now, t}) \in Int
  BY MaxOfTwo DEF MemoryInv
<1>2. now \in Int /\ Gaps \subseteq Int
  BY ProcModulesAssumption DEF MemoryInv
<1>3. ASSUME NEW p, NEW u, p.t \in Int, kind = "capture" => p.len \in Lengths, Measure(p, u)
      PROVE  MemoryInv'
  BY <1>1, <1>3, PacketKeepsMemory DEF Measure
<1>4. CASE PacketOfFlow
  <2>1. PICK p \in FlowPackets : Measure(p, FlowTruth(p))
    BY <1>4 DEF PacketOfFlow
  <2>2. p.t \in Int /\ kind # "capture"
    BY <1>2, <1>4, FlowPacketIs DEF Times, PacketOfFlow, IsFlowStats, FlowStatsKinds
  <2>. QED BY <1>3, <2>1, <2>2
<1>5. CASE PacketOfConnection
  <2>1. PICK x \in Segments : Measure(x[1], x[2])
    BY <1>5 DEF PacketOfConnection
  <2>2. x[1].t = now
    <3>1. PICK r, b \in BOOLEAN : \E flags, c, s :
              x = <<Segment(r, flags, b), After(c, s, b)>> /\ MayCome(r, flags, b, c, s)
      BY SegmentsAre
    <3>2. PICK flags, c, s : x = <<Segment(r, flags, b), After(c, s, b)>>
      BY <3>1
    <3>3. x[1] = Segment(r, flags, b)
      BY <3>2
    <3>. QED BY <3>3 DEF Segment, AnyPacket
  <2>3. kind # "capture"
    BY <1>5 DEF PacketOfConnection
  <2>. QED BY <1>2, <1>3, <2>1, <2>2, <2>3
<1>6. CASE PacketOfStream
  <2>1. PICK x \in RtpNumbers : Measure(x[1], x[2])
    BY <1>6 DEF PacketOfStream
  <2>2. x[1].t = now
    <3>1. \E n, u : x = <<RtpNumber(n), u>>
      BY Zenon DEF RtpNumbers
    <3>. QED BY <3>1 DEF RtpNumber, AnyPacket
  <2>3. kind # "capture"
    BY <1>6 DEF PacketOfStream
  <2>. QED BY <1>2, <1>3, <2>1, <2>2, <2>3
<1>7. CASE Ping
  <2>1. PICK g \in Gaps, type \in {0, 8}, id \in {0, 1}, seqno \in {1, 2} :
            Measure([AnyPacket EXCEPT !.t = now + g, !.proto = "ICMP",
                         !.echo = [type |-> type, id |-> id, seqno |-> seqno]], truth)
    BY <1>7 DEF Ping
  <2> DEFINE p == [AnyPacket EXCEPT !.t = now + g, !.proto = "ICMP",
                       !.echo = [type |-> type, id |-> id, seqno |-> seqno]]
  <2>2. p.t \in Int /\ kind # "capture"
    BY <1>2, <1>7 DEF AnyPacket, Ping
  <2>3. Measure(p, truth)
    BY <2>1
  <2>. HIDE DEF p
  <2>. QED BY <1>3, <2>2, <2>3
<1>8. CASE PacketOfRule
  <2>1. PICK g \in IF kind \in {"jitter", "bandwidth"} THEN Gaps ELSE {1},
             n \in Lengths, q \in Ports \cup {"none"} :
            Measure([AnyPacket EXCEPT !.t = now + g, !.len = n, !.port = q], truth)
    BY <1>8 DEF PacketOfRule
  <2> DEFINE p == [AnyPacket EXCEPT !.t = now + g, !.len = n, !.port = q]
  <2>2. p.t \in Int /\ p.len = n
    BY <1>2 DEF AnyPacket
  <2>3. Measure(p, truth)
    BY <2>1
  <2>. HIDE DEF p
  <2>. QED BY <1>3, <2>2, <2>3
<1>9. CASE Export
  BY <1>9, ExportKeepsMemory DEF Export
<1>10. CASE ExportIdle
  <2>1. data' = Reset(Exported) /\ kind # "show_ascii" /\ now' = now /\ kind' = kind
    BY <1>10 DEF ExportIdle
  <2>. QED BY <2>1, ExportKeepsMemory
<1>11. CASE Timeout
  <2>1. kind = "bandwidth" /\ data' = BandwidthTimeout(data) /\ now' = now /\ kind' = kind
    BY <1>11 DEF Timeout
  <2> DEFINE p == [t |-> 0]
  <2>2. p.t \in Int
    OBVIOUS
  <2>. HIDE DEF p
  <2>3. BandwidthFits(data')
    BY <2>1, <2>2, SnapshotsFit DEF MemoryInv
  <2>. QED BY <1>2, <2>1, <2>3 DEF MemoryInv
<1>12. CASE UNCHANGED vars
  BY <1>12 DEF vars, MemoryInv
<1>. QED BY <1>4, <1>5, <1>6, <1>7, <1>8, <1>9, <1>10, <1>11, <1>12 DEF Next

\* Whatever is kept of packets is in memory that was allocated for it, and a
\* request finds an unused entry where one is counted as free, for any number
\* of packets.  It needs packets that fit capture's first buffer, which is
\* doubled once for a packet.
THEOREM MemoryIsEnough ==
  ASSUME Exposed = {}, PacketsFitBuffer
  PROVE  Spec => []MemorySuffices
<1>1. Init => MemoryInv
  BY InitMemory
<1>2. MemoryInv /\ [Next]_vars => MemoryInv'
  BY NextMemory
<1>3. MemoryInv => MemorySuffices
  BY DEF MemoryInv, MemorySuffices, PingsFit, CaptureFits, PktidFits, ShowFits, BandwidthFits
<1>. QED BY <1>1, <1>2, <1>3, PTL DEF Spec

-----------------------------------------------------------------------------
(* Nothing is measured twice or forgotten: flow statistics. *)

\* The active and the idle periods of a flow are its duration.
PeriodsAdd(d) ==
    /\ d.active.sum \in Int /\ d.idle.sum \in Int /\ d.lactive \in Int
    /\ d.first = 0 => d.active.sum = 0 /\ d.idle.sum = 0
    /\ d.active.sum + GetLast(d) - d.lactive + d.idle.sum = GetLast(d) - d.first

\* What decides whether a packet is counted.
Counts(d, p) == p.t >= GetLast(d) /\ (d.first > 0 => p.t - d.first <= d.cap)

\* A packet is counted once, and its time is the flow's last, or the flow is as it was.
CountedOnce(d, p, e) ==
    /\ PeriodsAdd(e) /\ e.cap = d.cap
    /\ Counts(d, p) => /\ e.f.n + e.b.n = d.f.n + d.b.n + 1 /\ GetLast(e) = p.t
                       /\ e.first = IF d.first = 0 THEN p.t ELSE d.first
    /\ ~Counts(d, p) => /\ e.f.n + e.b.n = d.f.n + d.b.n /\ GetLast(e) = GetLast(d)
                        /\ e.first = d.first

LEMMA PeriodsOf ==
  ASSUME NEW d, PeriodsAdd(d), NEW e, GetLast(e) = GetLast(d), e.first = d.first,
         e.active = d.active, e.idle = d.idle, e.lactive = d.lactive
  PROVE  PeriodsAdd(e)
BY DEF PeriodsAdd

\* A packet's period, with the last time that Counted sets still to come
LEMMA BeganAdds ==
  ASSUME NEW d, FlowFits(d), PeriodsAdd(d), NEW t \in Nat, t > 0, t >= GetLast(d)
  PROVE  LET e == Began(d, t)
         IN  /\ e.active.sum \in Int /\ e.idle.sum \in Int /\ e.lactive \in Int
             /\ e.active.sum + t - e.lactive + e.idle.sum = t - e.first
             /\ e.cap = d.cap /\ e.first = IF d.first = 0 THEN t ELSE d.first
<1> DEFINE e == Began(d, t)
           silence == t - GetLast(d)
<1>1. /\ GetLast(d) \in Nat /\ d.first \in Nat /\ FlowFields \subseteq DOMAIN d
      /\ d.first = 0 => GetLast(d) = 0
  BY LastIs DEF FlowFits, Direction
<1>2. CASE d.first = 0
  <2>1. e = [d EXCEPT !.first = t, !.periods = 1, !.lactive = t]
    BY <1>2 DEF Began
  <2>2. /\ e.active = d.active /\ e.idle = d.idle /\ e.first = t /\ e.lactive = t
        /\ e.cap = d.cap
    BY <1>1, <2>1 DEF FlowFields
  <2>. QED BY <1>2, <2>2 DEF PeriodsAdd
<1>3. CASE d.first # 0 /\ silence <= IdleThreshold
  <2>1. e = d
    BY <1>3 DEF Began
  <2>. QED BY <1>1, <1>3, <2>1 DEF PeriodsAdd
<1>4. CASE d.first # 0 /\ ~(silence <= IdleThreshold)
  <2>1. e = [d EXCEPT !.idle = Measured(@, silence),
                      !.active = Measured(@, GetLast(d) - d.lactive),
                      !.periods = @ + 1, !.f.last = 0, !.b.last = 0,
                      !.lactive = t]
    BY <1>4 DEF Began
  <2>2. /\ e.idle = Measured(d.idle, silence)
        /\ e.active = Measured(d.active, GetLast(d) - d.lactive)
        /\ e.first = d.first /\ e.lactive = t /\ e.cap = d.cap
    BY <1>1, <2>1 DEF FlowFields
  <2>3. /\ e.idle.sum = d.idle.sum + silence
        /\ e.active.sum = d.active.sum + (GetLast(d) - d.lactive)
    BY <2>2 DEF Measured, Sampled
  <2>4. d.active.sum \in Int /\ d.idle.sum \in Int /\ d.lactive \in Int
        /\ d.active.sum + GetLast(d) - d.lactive + d.idle.sum = GetLast(d) - d.first
    BY DEF PeriodsAdd
  <2>5. /\ e.active.sum \in Int /\ e.idle.sum \in Int /\ e.lactive \in Int
        /\ e.active.sum + t - e.lactive + e.idle.sum = t - e.first
    BY ONLY <1>1, <2>2, <2>3, <2>4, t \in Nat
  <2>. QED BY <1>4, <2>2, <2>5
<1>. QED BY <1>2, <1>3, <1>4

LEMMA PacketAdds ==
  ASSUME NEW d, FlowFits(d), PeriodsAdd(d), NEW p, Timely(d, p), d.cap \in Nat
  PROVE  CountedOnce(d, p, ProcessPacket(d, p))
<1> DEFINE j == Judged(d, p)
           g == Began(j, p.t)
           a == Accounted(j, p)
           e == ProcessPacket(d, p)
<1>1. /\ FlowFields \subseteq DOMAIN d /\ d.first \in Nat /\ p.t \in Nat /\ p.t > 0
      /\ GetLast(d) \in Nat /\ d.f.n \in Nat /\ d.b.n \in Nat
      /\ d.f.last \in Nat /\ d.b.last \in Nat
      /\ GetLast(d) >= d.f.last /\ GetLast(d) >= d.b.last
  BY LastIs DEF FlowFits, Direction, Timely
<1>2. /\ DOMAIN j = DOMAIN d /\ j.f = d.f /\ j.b = d.b /\ j.first = d.first
      /\ j.periods = d.periods
      /\ j.idle = d.idle /\ j.active = d.active /\ j.lactive = d.lactive
      /\ j.cap = d.cap /\ GetLast(j) = GetLast(d)
  BY <1>1, JudgedIs
<1>3. FlowFits(j) /\ PeriodsAdd(j)
  BY <1>1, <1>2, SameFits, PeriodsOf
<1>4. CASE ~Counts(d, p)
  <2>1. e \in {d, j}
    BY <1>1, <1>2, <1>4 DEF ProcessPacket, Counts
  <2>. QED BY <1>2, <1>3, <1>4, <2>1 DEF CountedOnce
<1>5. CASE Counts(d, p)
  <2>1. e = a
    BY <1>1, <1>2, <1>5 DEF ProcessPacket, Counts
  <2>2. /\ g.active.sum \in Int /\ g.idle.sum \in Int /\ g.lactive \in Int
        /\ g.active.sum + p.t - g.lactive + g.idle.sum = p.t - g.first
        /\ g.cap = d.cap /\ g.first = IF d.first = 0 THEN p.t ELSE d.first
    BY <1>1, <1>2, <1>3, <1>5, BeganAdds DEF Counts
  <2>3. /\ FlowFields \subseteq DOMAIN g
        /\ g.f.n = d.f.n /\ g.b.n = d.b.n
        /\ g.f.last \in {0, d.f.last} /\ g.b.last \in {0, d.b.last}
    BY <1>1, <1>2, <1>3, <1>5, BeganIs DEF Counts
  <2>. HIDE DEF g, e
  <2>4. /\ a.active = g.active /\ a.idle = g.idle /\ a.lactive = g.lactive
        /\ a.first = g.first /\ a.cap = g.cap
        /\ a.f = IF p.reverse THEN g.f ELSE Counted(g.f, p)
        /\ a.b = IF p.reverse THEN Counted(g.b, p) ELSE g.b
    BY <2>3 DEF Accounted, g, FlowFields
  <2>. HIDE DEF a
  <2>5. a.f.n + a.b.n = d.f.n + d.b.n + 1 /\ GetLast(a) = p.t
    <3>1. \A x : Counted(x, p).n = x.n + 1 /\ Counted(x, p).last = p.t
      BY DEF Counted
    <3>2. /\ a.f.last \in Nat /\ a.b.last \in Nat /\ p.t >= a.f.last /\ p.t >= a.b.last
          /\ p.t \in {a.f.last, a.b.last} /\ a.f.n + a.b.n = d.f.n + d.b.n + 1
      <4>1. p.t >= GetLast(d)
        BY <1>5 DEF Counts
      <4>2. CASE p.reverse
        BY <1>1, <2>3, <2>4, <3>1, <4>1, <4>2
      <4>3. CASE ~p.reverse
        BY <1>1, <2>3, <2>4, <3>1, <4>1, <4>3
      <4>. QED BY <4>2, <4>3
    <3>. QED BY <3>2, LastIs
  <2>6. PeriodsAdd(a)
    <3>1. a.first > 0
      BY <1>1, <2>2, <2>4
    <3>. QED BY <1>1, <2>2, <2>4, <2>5, <3>1 DEF PeriodsAdd
  <2>7. CountedOnce(d, p, a)
    BY <1>5, <2>2, <2>4, <2>5, <2>6 DEF CountedOnce
  <2>. QED BY <2>1, <2>7 DEF e
<1>. QED BY <1>4, <1>5

\* What the module has counted, and the packets that were to be measured: the
\* module that stops after a second has cap 0 from then on.
FlowAdds(d, t) ==
    /\ PeriodsAdd(d) /\ d.cap \in Nat /\ t.cap \in Nat
    /\ DOMAIN t = {"first", "last", "n", "aborted", "cap"}
    /\ t.n = d.f.n + d.b.n /\ t.first = d.first
    /\ kind # "netai_flowstats_dscp_1s" => t.last = GetLast(d) /\ t.cap = d.cap
    /\ kind = "netai_flowstats_dscp_1s" =>
           /\ t.cap = Second /\ t.last \in Int /\ t.last <= now
           /\ d.first > 0 => GetLast(d) <= d.first + Second
           /\ \/ d.cap = Never /\ t.last = GetLast(d)
              \/ d.cap = 0 /\ d.first > 0 /\ t.last > d.first + Second

\* The first DSCP value changes nothing else.
LEMMA DscpAdds ==
  ASSUME NEW d, FlowFits(d), PeriodsAdd(d), NEW p, Timely(d, p), d.cap \in Nat
  PROVE  CountedOnce(d, p, ProcessPacketDscp(d, p))
<1> DEFINE m == [d EXCEPT !.dscp = IF @ = 0 THEN p.dscp ELSE @]
<1>1. FlowFields \subseteq DOMAIN d /\ GetLast(d) \in Nat /\ p.t \in Nat
  BY LastIs DEF FlowFits, Direction, Timely
<1>2. /\ DOMAIN m = DOMAIN d /\ m.f = d.f /\ m.b = d.b /\ m.first = d.first
      /\ m.periods = d.periods /\ m.idle = d.idle /\ m.active = d.active
      /\ m.lactive = d.lactive /\ m.cap = d.cap
  BY <1>1 DEF FlowFields
<1>. HIDE DEF m
<1>3. GetLast(m) = GetLast(d)
  BY <1>2 DEF GetLast
<1>4. FlowFits(m) /\ PeriodsAdd(m) /\ Timely(m, p)
  BY <1>1, <1>2, <1>3, SameFits, PeriodsOf DEF Timely
<1>5. CountedOnce(m, p, ProcessPacket(m, p))
  BY <1>2, <1>4, PacketAdds
<1>6. CountedOnce(d, p, ProcessPacket(m, p))
  BY <1>2, <1>3, <1>5 DEF CountedOnce, Counts
<1>7. CASE p.t < GetLast(d)
  BY <1>1, <1>7 DEF ProcessPacketDscp, CountedOnce, Counts
<1>8. CASE ~(p.t < GetLast(d))
  BY <1>6, <1>8 DEF ProcessPacketDscp, m
<1>. QED BY <1>7, <1>8

\* The stream's numbers and the module's: the highest number is cycles + max,
\* and every number received was a new one or a duplicate.
StreamAdds(t, d) ==
    /\ {"cycles", "base", "max", "received", "bad", "probation"} \subseteq DOMAIN d
    /\ d.probation \in Nat /\ d.max \in 0 .. RTP_SEQ_MOD - 1
    /\ DOMAIN t = {"first", "high", "got", "dups", "stray"}
    /\ d.probation = 0 =>
           /\ t.first \in Nat /\ t.high \in Nat /\ t.dups \in Nat /\ t.first <= t.high
           /\ t.got \subseteq t.first .. t.high
           /\ d.base = t.first - 1
           /\ \E k \in Nat : d.cycles = k * RTP_SEQ_MOD
           /\ d.cycles + d.max = t.high
           /\ d.received = Cardinality(t.got) + t.dups
           /\ \/ t.stray = -1 /\ d.bad = RTP_SEQ_MOD + 1
              \/ t.stray \in 0 .. RTP_SEQ_MOD - 1 /\ d.bad = t.stray

\* n values, all from lo to hi
Between(n, sum, lo, hi) ==
    /\ n \in Nat /\ sum \in Int /\ lo \in Int /\ hi \in Int
    /\ n = 0 => sum = 0
    /\ n * lo <= sum /\ sum <= n * hi

\* Of s packets so far, the last one at t, n times between them were told.
TimesAdd(d, s, n, t) ==
    /\ {"n", "first", "last", "min", "max", "sum"} \subseteq DOMAIN d
    /\ {d.n, d.first, d.last, d.min, d.max} \subseteq Nat
    /\ s = 0 <=> d.first = 0
    /\ n + d.n = IF s = 0 THEN 0 ELSE s - 1
    /\ d.last = IF s = 0 THEN 0 ELSE t
    /\ Between(d.n, d.last - d.first, d.min, d.max)

LengthsAdd(d, s, n) ==
    /\ d \in [n : Nat, bytes : Nat, min : Nat, max : Nat]
    /\ n + d.n = s
    /\ Between(d.n, d.bytes, d.min, d.max)

PingsAdd(d) ==
    /\ {"list", "free", "matches", "min", "max", "sum"} \subseteq DOMAIN d
    /\ DOMAIN d.list = 0 .. ENTRIES - 1
    /\ \A i \in DOMAIN d.list : {"id", "t"} \subseteq DOMAIN d.list[i] /\ d.list[i].t \in Int
    /\ Between(d.matches, d.sum, d.min, d.max)

PortsAdd(d) ==
    /\ {"all", "other", "packets", "bytes"} \subseteq DOMAIN d
    /\ d.other \in Int
    /\ d.packets \in [Ports -> Nat] /\ d.bytes \in [Ports -> Nat]
    /\ d.all = d.other + Total(d.bytes, Ports)

Counting == {"count", "bandwidth", "capture", "pktid_md5", "pktid_crc32", "show_ascii"}

\* What Counting modules count
Countable(d) ==
    /\ IF kind = "bandwidth" THEN BandwidthFits(d)
       ELSE "n" \in DOMAIN d /\ d.n \in Nat

AddsInv ==
    /\ sent \in Nat /\ told \in Int
    /\ IsFlowStats => FlowAdds(data, truth)
    /\ kind = "rtploss" => StreamAdds(truth, data)
    /\ kind = "jitter" => TimesAdd(data, sent, told, now)
    /\ kind = "pktlen" => LengthsAdd(data, sent, told)
    /\ kind = "rtt_ping" => PingsAdd(data)
    /\ kind = "port_use" => PortsAdd(data)
    /\ kind \in Counting => Countable(data) /\ told + Untold(data) = sent

\* A packet that is to be measured is counted, and the others are not.
LEMMA FlowPacketAdds ==
  ASSUME IsFlowStats, kind # "netai_flowstats_dscp_1s",
         FlowFits(data), FlowAdds(data, truth), NEW p, Timely(data, p), p.t >= data.first,
         data' = Process(p), truth' = FlowTruth(p), kind' = kind
  PROVE  FlowAdds(data, truth)'
<1>1. /\ PeriodsAdd(data) /\ data.cap \in Nat /\ truth.cap = data.cap
      /\ DOMAIN truth = {"first", "last", "n", "aborted", "cap"}
      /\ truth.n = data.f.n + data.b.n /\ truth.first = data.first
      /\ truth.last = GetLast(data)
  BY DEF FlowAdds
<1>2. CountedOnce(data, p, data')
  BY <1>1, PacketAdds, DscpAdds DEF Process, IsFlowStats, FlowStatsKinds
<1>3. Measurable(p) <=> Counts(data, p)
  BY <1>1 DEF Measurable, Counts
<1>4. truth' = IF ~Counts(data, p) THEN truth
               ELSE [truth EXCEPT !.first = IF @ = 0 THEN p.t ELSE @, !.last = p.t,
                                  !.n = @ + 1]
  <2>1. ~(p.t < data.first)
    BY DEF FlowFits, Timely
  <2>. QED BY <1>3, <2>1 DEF FlowTruth
<1>5. CASE ~Counts(data, p)
  <2>1. truth' = truth
    BY <1>4, <1>5
  <2>. QED BY <1>1, <1>2, <1>5, <2>1 DEF FlowAdds, CountedOnce
<1>6. CASE Counts(data, p)
  <2>1. /\ DOMAIN truth' = DOMAIN truth /\ truth'.cap = truth.cap /\ truth'.last = p.t
        /\ truth'.n = truth.n + 1
        /\ truth'.first = IF truth.first = 0 THEN p.t ELSE truth.first
    BY <1>1, <1>4, <1>6
  <2>. QED BY <1>1, <1>2, <1>6, <2>1 DEF FlowAdds, CountedOnce
<1>. QED BY <1>5, <1>6

\* The same for the module that stops after Second: from then on no packet is
\* counted, for none is as old as the first one of the flow.
LEMMA CappedPacketAdds ==
  ASSUME kind = "netai_flowstats_dscp_1s", Never >= Second, now \in Nat,
         FlowFits(data), FlowAdds(data, truth), NEW p, Timely(data, p),
         p.t >= data.first, p.t >= now - 1,
         data' = Process(p), truth' = FlowTruth(p), now' = Max({now, p.t}), kind' = kind
  PROVE  FlowAdds(data, truth)'
<1> DEFINE c == Capped(data, p, Second)
           late == data.first > 0 /\ p.t - data.first > Second
<1>1. /\ PeriodsAdd(data) /\ data.cap \in Nat /\ truth.cap = Second
      /\ DOMAIN truth = {"first", "last", "n", "aborted", "cap"}
      /\ truth.n = data.f.n + data.b.n /\ truth.first = data.first
      /\ truth.last \in Int /\ truth.last <= now
      /\ data.first > 0 => GetLast(data) <= data.first + Second
      /\ \/ data.cap = Never /\ truth.last = GetLast(data)
         \/ data.cap = 0 /\ data.first > 0 /\ truth.last > data.first + Second
  BY DEF FlowAdds
<1>2. /\ FlowFields \subseteq DOMAIN data /\ data.first \in Nat /\ GetLast(data) \in Nat
      /\ p.t \in Nat /\ p.t > 0 /\ Second \in Nat /\ Second > 0 /\ Never \in Nat
  <2>1. data.f.last \in Nat /\ data.b.last \in Nat
    BY DEF FlowFits, Direction
  <2>2. Second \in Nat /\ Second > 0 /\ Never \in Nat
    <3>1. Second \in Nat \ {0}
      BY ProcModulesAssumption
    <3>2. Never \in Nat
      BY MeasurementsAssumption
    <3>. QED BY <3>1, <3>2
  <2>. QED BY <2>1, <2>2, LastIs DEF FlowFits, Timely
<1>3. /\ DOMAIN c = DOMAIN data /\ c.f = data.f /\ c.b = data.b /\ c.first = data.first
      /\ c.periods = data.periods /\ c.idle = data.idle /\ c.active = data.active
      /\ c.lactive = data.lactive /\ c.cap = IF late THEN 0 ELSE data.cap
  BY <1>2 DEF Capped, FlowFields
<1>. HIDE DEF c
<1>4. GetLast(c) = GetLast(data)
  BY <1>3 DEF GetLast
<1>5. CountedOnce(c, p, data')
  <2>1. FlowFits(c) /\ PeriodsAdd(c) /\ Timely(c, p)
    BY <1>1, <1>2, <1>3, <1>4, SameFits, PeriodsOf DEF Timely
  <2>2. data' = ProcessPacketDscp(c, p)
    BY DEF Process, ProcessPacketDscp1s, c
  <2>3. c.cap \in Nat
    BY <1>1, <1>3
  <2>. QED BY <2>1, <2>2, <2>3, DscpAdds
<1>6. now' = IF now >= p.t THEN now ELSE p.t
  BY <1>2, MaxOfTwo
<1>7. Max({truth.last, p.t}) = IF truth.last >= p.t THEN truth.last ELSE p.t
  BY <1>1, <1>2, MaxOfTwo
<1>8. Measurable(p) <=> Counts(c, p)
  BY <1>1, <1>2, <1>3, <1>4 DEF Measurable, Counts
<1>9. truth' = IF ~Counts(c, p) THEN [truth EXCEPT !.last = Max({@, p.t})]
               ELSE [truth EXCEPT !.first = IF @ = 0 THEN p.t ELSE @, !.last = p.t,
                                  !.n = @ + 1]
  <2>1. ~(p.t < data.first)
    BY <1>2
  <2>. QED BY <1>8, <2>1 DEF FlowTruth
<1>10. CASE ~Counts(c, p)
  <2>1. /\ DOMAIN truth' = DOMAIN truth /\ truth'.cap = truth.cap
        /\ truth'.last = IF truth.last >= p.t THEN truth.last ELSE p.t
        /\ truth'.n = truth.n /\ truth'.first = truth.first
    BY <1>1, <1>7, <1>9, <1>10
  <2>2. /\ PeriodsAdd(data') /\ data'.cap = c.cap
        /\ data'.f.n + data'.b.n = data.f.n + data.b.n
        /\ GetLast(data') = GetLast(data) /\ data'.first = data.first
    BY <1>3, <1>4, <1>5, <1>10 DEF CountedOnce
  <2>3. \/ c.cap = Never /\ truth'.last = GetLast(data)
        \/ c.cap = 0 /\ data.first > 0 /\ truth'.last > data.first + Second
    BY <1>1, <1>2, <1>3, <1>4, <1>10, <2>1 DEF Counts
  <2>4. /\ truth'.n = data'.f.n + data'.b.n /\ truth'.first = data'.first
        /\ data'.cap \in Nat /\ truth'.cap = Second /\ Second \in Nat
        /\ DOMAIN truth' = {"first", "last", "n", "aborted", "cap"}
    BY <1>1, <1>2, <1>3, <2>1, <2>2
  <2>5. truth'.last \in Int /\ truth'.last <= now'
    <3>1. now' \in Int /\ now' >= now /\ now' >= p.t
      <4>1. now \in Int /\ p.t \in Int
        BY <1>2
      <4>. QED BY <4>1, <1>6, LaterOfTwo, Zenon
    <3>2. truth'.last \in {truth.last, p.t}
      BY <2>1
    <3>3. CASE truth'.last = truth.last
      BY <1>1, <3>1, <3>3
    <3>4. CASE truth'.last = p.t
      BY <1>2, <3>1, <3>4
    <3>. QED BY <3>2, <3>3, <3>4
  <2>6. data'.first > 0 => GetLast(data') <= data'.first + Second
    BY <1>1, <1>2, <2>2, <2>3
  <2>7. \/ data'.cap = Never /\ truth'.last = GetLast(data')
        \/ data'.cap = 0 /\ data'.first > 0 /\ truth'.last > data'.first + Second
    BY <1>1, <1>2, <1>3, <2>1, <2>2, <2>3
  <2>. QED BY <2>2, <2>4, <2>5, <2>6, <2>7 DEF FlowAdds
<1>11. CASE Counts(c, p)
  <2>1. /\ DOMAIN truth' = DOMAIN truth /\ truth'.cap = truth.cap /\ truth'.last = p.t
        /\ truth'.n = truth.n + 1
        /\ truth'.first = IF truth.first = 0 THEN p.t ELSE truth.first
    BY <1>1, <1>9, <1>11
  <2>2. /\ PeriodsAdd(data') /\ data'.cap = c.cap
        /\ data'.f.n + data'.b.n = data.f.n + data.b.n + 1
        /\ GetLast(data') = p.t /\ data'.first = IF data.first = 0 THEN p.t ELSE data.first
    BY <1>3, <1>4, <1>5, <1>11 DEF CountedOnce
  <2>3. data.cap = Never /\ ~late
    BY <1>1, <1>2, <1>3, <1>4, <1>11 DEF Counts
  <2>4. /\ truth'.n = data'.f.n + data'.b.n /\ truth'.first = data'.first
        /\ data'.cap \in Nat /\ truth'.cap = Second /\ Second \in Nat
        /\ DOMAIN truth' = {"first", "last", "n", "aborted", "cap"}
    BY <1>1, <1>2, <1>3, <2>1, <2>2
  <2>5. truth'.last \in Int /\ truth'.last <= now'
    <3>1. now' \in Int /\ now' >= now /\ now' >= p.t
      <4>1. now \in Int /\ p.t \in Int
        BY <1>2
      <4>. QED BY <4>1, <1>6, LaterOfTwo, Zenon
    <3>2. truth'.last \in {truth.last, p.t}
      BY <2>1
    <3>3. CASE truth'.last = truth.last
      BY <1>1, <3>1, <3>3
    <3>4. CASE truth'.last = p.t
      BY <1>2, <3>1, <3>4
    <3>. QED BY <3>2, <3>3, <3>4
  <2>6. data'.first > 0 => GetLast(data') <= data'.first + Second
    BY <1>1, <1>2, <2>2, <2>3
  <2>7. \/ data'.cap = Never /\ truth'.last = GetLast(data')
        \/ data'.cap = 0 /\ data'.first > 0 /\ truth'.last > data'.first + Second
    BY <1>1, <1>2, <1>3, <2>1, <2>2, <2>3
  <2>. QED BY <2>2, <2>4, <2>5, <2>6, <2>7 DEF FlowAdds
<1>. QED BY <1>10, <1>11

\* A record of which nothing was measured
LEMMA ClearedAdds ==
  ASSUME NEW cap, NEW minDur
  PROVE  /\ LET c == Cleared(cap, minDur)
            IN  /\ PeriodsAdd(c) /\ c.cap = cap /\ c.f.n = 0 /\ c.b.n = 0
                /\ c.first = 0 /\ GetLast(c) = 0
         /\ LET c == InitFlowRecDscp(cap, minDur)
            IN  /\ PeriodsAdd(c) /\ c.cap = cap /\ c.f.n = 0 /\ c.b.n = 0
                /\ c.first = 0 /\ GetLast(c) = 0
<1> DEFINE c == Cleared(cap, minDur)
           e == InitFlowRecDscp(cap, minDur)
<1>1. /\ c.f = NoPackets /\ c.b = NoPackets /\ c.first = 0 /\ c.lactive = 0
      /\ c.idle = NoValues /\ c.active = NoValues /\ c.cap = cap /\ DOMAIN c = FlowFields
  BY DEF Cleared, FlowFields
<1>2. /\ e.f = c.f /\ e.b = c.b /\ e.first = c.first /\ e.lactive = c.lactive
      /\ e.idle = c.idle /\ e.active = c.active /\ e.cap = c.cap
  <2>1. e = [x \in FlowFields \cup {"dscp"} |-> IF x = "dscp" THEN 0 ELSE c[x]]
    BY <1>1 DEF InitFlowRecDscp, InitFlowRec
  <2>. HIDE DEF e, c
  <2>. QED BY <2>1 DEF FlowFields
<1>. HIDE DEF e, c
<1>3. NoPackets.last = 0 /\ NoPackets.n = 0 /\ NoValues.sum = 0
  BY DEF NoPackets, NoValues
<1>4. GetLast(c) = 0 /\ GetLast(e) = 0
  BY <1>1, <1>2, <1>3, LastIs
<1>. QED BY <1>1, <1>2, <1>3, <1>4 DEF PeriodsAdd, c, e

-----------------------------------------------------------------------------
(* RTP streams. *)

\* The remainder of a number, from any way to write it.
LEMMA RemainderIs ==
  ASSUME NEW M \in Nat \ {0}, NEW q \in Int, NEW r \in 0 .. M - 1
  PROVE  (q * M + r) % M = r
<1> DEFINE n == q * M + r
           d == n \div M
           m == n % M
<1>1. n \in Int
  OBVIOUS
<1>2. /\ d \in Int /\ m \in 0 .. M - 1 /\ n = M * d + m
  BY <1>1
<1>3. M * (q - d) = m - r
  BY <1>2
<1>. HIDE DEF d, m, n
<1>4. q - d = 0
  <2>1. CASE q - d >= 1
    <3>1. M * (q - d) >= M
      BY <2>1, <1>2
    <3>. QED BY <1>2, <1>3, <3>1
  <2>2. CASE q - d <= -1
    <3>1. M * (q - d) <= -M
      BY <2>2, <1>2
    <3>. QED BY <1>2, <1>3, <3>1
  <2>. QED BY <1>2, <2>1, <2>2
<1>5. m = r
  BY <1>2, <1>3, <1>4
<1>. QED BY <1>5 DEF m, n

\* The remainder of the number that is e from another one, and its distance
\* from the remainder of that.
LEMMA SequenceIs ==
  ASSUME NEW M \in Nat \ {0}, NEW max \in 0 .. M - 1, NEW h \in Int,
         \E k \in Int : h = k * M + max, NEW e \in Int, -M < e, e < M
  PROVE  /\ (h + e) % M = IF max + e >= M THEN max + e - M
                          ELSE IF max + e < 0 THEN max + e + M ELSE max + e
         /\ (((h + e) % M) - max) % M = IF e >= 0 THEN e ELSE e + M
<1>0. PICK k \in Int : h = k * M + max
  OBVIOUS
<1> DEFINE s == (h + e) % M
<1>1. (k + 1) * M = k * M + M /\ (k - 1) * M = k * M - M /\ k * M \in Int
  OBVIOUS
<1>2. 0 * M = 0 /\ (-1) * M = -M /\ 1 * M = M
  OBVIOUS
<1>3. s = IF max + e >= M THEN max + e - M ELSE IF max + e < 0 THEN max + e + M ELSE max + e
  <2>1. CASE max + e >= M
    <3> DEFINE q == k + 1
               r == max + e - M
    <3>1. h + e = q * M + r /\ r \in 0 .. M - 1 /\ q \in Int
      BY <1>0, <1>1, <2>1
    <3>. HIDE DEF q, r
    <3>2. s = r
      BY <3>1, RemainderIs
    <3>. QED BY <2>1, <3>2 DEF r
  <2>2. CASE max + e < 0
    <3> DEFINE q == k - 1
               r == max + e + M
    <3>1. h + e = q * M + r /\ r \in 0 .. M - 1 /\ q \in Int
      BY <1>0, <1>1, <2>2
    <3>. HIDE DEF q, r
    <3>2. s = r
      BY <3>1, RemainderIs
    <3>. QED BY <2>2, <3>2 DEF r
  <2>3. CASE max + e \in 0 .. M - 1
    <3> DEFINE r == max + e
    <3>1. h + e = k * M + r /\ r \in 0 .. M - 1
      BY <1>0, <1>1, <2>3
    <3>. HIDE DEF r
    <3>2. s = r
      BY <3>1, RemainderIs
    <3>. QED BY <2>3, <3>2 DEF r
  <2>. QED BY <2>1, <2>2, <2>3
<1>. HIDE DEF s
<1>4. (s - max) % M = IF e >= 0 THEN e ELSE e + M
  <2> DEFINE r == IF e >= 0 THEN e ELSE e + M
  <2>1. r \in 0 .. M - 1
    OBVIOUS
  <2>2. s - max \in {r, r - M}
    BY <1>3
  <2>. HIDE DEF r
  <2>3. 0 * M + r = r /\ (-1) * M + r = r - M
    BY <1>2, <2>1
  <2>. QED BY <2>1, <2>2, <2>3, RemainderIs DEF r
<1>. QED BY <1>3, <1>4 DEF s

LEMMA RtpConstants ==
  /\ RTP_SEQ_MOD \in Nat /\ MAX_DROPOUT \in Nat /\ MAX_MISORDER \in Nat
  /\ MIN_SEQUENTIAL \in Nat /\ MIN_SEQUENTIAL > 1
  /\ MAX_DROPOUT > 0 /\ MAX_MISORDER > 0 /\ MAX_DROPOUT + MAX_MISORDER <= RTP_SEQ_MOD
BY MeasurementsAssumption

LEMMA RtpPacketIs ==
  ASSUME NEW d, NEW p, d.probation \in Nat
  PROVE  LET udelta == (p.seq - d.max) % RTP_SEQ_MOD
         IN  RtpPacket(d, p) =
                IF d.probation > 0 THEN RtpProbation(d, p.seq)
                ELSE IF udelta < MAX_DROPOUT THEN RtpInOrder(d, p.seq)
                ELSE IF udelta \in MAX_DROPOUT .. RTP_SEQ_MOD - MAX_MISORDER
                     THEN RtpJump(d, p.seq)
                ELSE RtpReceived(d)
<1> DEFINE udelta == (p.seq - d.max) % RTP_SEQ_MOD
<1>1. RtpPacket(d, p) =
         CASE d.probation > 0 -> RtpProbation(d, p.seq)
           [] d.probation = 0 /\ udelta < MAX_DROPOUT -> RtpInOrder(d, p.seq)
           [] /\ d.probation = 0
              /\ udelta \in MAX_DROPOUT .. RTP_SEQ_MOD - MAX_MISORDER -> RtpJump(d, p.seq)
           [] OTHER -> RtpReceived(d)
  BY DEF RtpPacket
<1>. HIDE DEF udelta
<1>2. CASE d.probation > 0
  BY <1>1, <1>2 DEF udelta
<1>3. CASE d.probation = 0 /\ udelta < MAX_DROPOUT
  <2>1. udelta \notin MAX_DROPOUT .. RTP_SEQ_MOD - MAX_MISORDER
    BY <1>3, RtpConstants
  <2>2. RtpPacket(d, p) = RtpInOrder(d, p.seq)
    BY <1>1, <1>3, <2>1
  <2>. QED BY <1>3, <2>2 DEF udelta
<1>4. CASE /\ d.probation = 0 /\ ~(udelta < MAX_DROPOUT)
           /\ udelta \in MAX_DROPOUT .. RTP_SEQ_MOD - MAX_MISORDER
  <2>1. RtpPacket(d, p) = RtpJump(d, p.seq)
    BY <1>1, <1>4
  <2>. QED BY <1>4, <2>1 DEF udelta
<1>5. CASE /\ d.probation = 0 /\ ~(udelta < MAX_DROPOUT)
           /\ udelta \notin MAX_DROPOUT .. RTP_SEQ_MOD - MAX_MISORDER
  <2>1. RtpPacket(d, p) = RtpReceived(d)
    BY <1>1, <1>5
  <2>. QED BY <1>5, <2>1 DEF udelta
<1>. QED BY <1>2, <1>3, <1>4, <1>5

\* The numbers of a stream that is known to be one
LEMMA OneMore ==
  ASSUME NEW a \in Nat, NEW b \in Nat, NEW G \in SUBSET (a .. b), NEW n
  PROVE  /\ IsFiniteSet(G) /\ Cardinality(G) \in Nat
         /\ n \notin G => Cardinality(G \cup {n}) = Cardinality(G) + 1
         /\ n \in G => G \cup {n} = G
<1>1. IsFiniteSet(a .. b)
  BY FS_Interval
<1>2. IsFiniteSet(G) /\ Cardinality(G) \in Nat
  BY <1>1, FS_Subset, FS_CardinalityType
<1>. QED BY <1>2, FS_AddElement

\* Of a valid stream: the number that is g from the highest
LEMMA NumberIs ==
  ASSUME NEW t, NEW d, StreamAdds(t, d), d.probation = 0,
         NEW g \in Int, -RTP_SEQ_MOD < g, g < RTP_SEQ_MOD
  PROVE  LET s == (t.high + g) % RTP_SEQ_MOD
         IN  /\ s \in 0 .. RTP_SEQ_MOD - 1
             /\ s = IF d.max + g >= RTP_SEQ_MOD THEN d.max + g - RTP_SEQ_MOD
                    ELSE IF d.max + g < 0 THEN d.max + g + RTP_SEQ_MOD ELSE d.max + g
             /\ (s - d.max) % RTP_SEQ_MOD = IF g >= 0 THEN g ELSE g + RTP_SEQ_MOD
<1> DEFINE M == RTP_SEQ_MOD
           m == d.max
<1>1. M \in Nat \ {0}
  BY RtpConstants
<1>2. m \in 0 .. M - 1 /\ d.cycles + m = t.high
  BY DEF StreamAdds
<1>3. PICK k \in Nat : d.cycles = k * M
  BY DEF StreamAdds
<1>4. t.high \in Int /\ \E i \in Int : t.high = i * M + m
  <2>1. t.high = k * M + m /\ t.high \in Int
    BY <1>1, <1>2, <1>3
  <2>. QED BY <2>1
<1> DEFINE s == (t.high + g) % M
<1>5. -M < g /\ g < M
  OBVIOUS
<1>. HIDE DEF M, m
<1> DEFINE h == t.high
<1>. HIDE DEF h
<1>6. /\ s = IF m + g >= M THEN m + g - M ELSE IF m + g < 0 THEN m + g + M ELSE m + g
      /\ (s - m) % M = IF g >= 0 THEN g ELSE g + M
  <2>1. h \in Int /\ (\E i \in Int : h = i * M + m) /\ m \in 0 .. M - 1
    BY <1>2, <1>4 DEF h
  <2>2. s = (h + g) % M
    BY DEF h
  <2>3. /\ (h + g) % M = IF m + g >= M THEN m + g - M
                          ELSE IF m + g < 0 THEN m + g + M ELSE m + g
        /\ (((h + g) % M) - m) % M = IF g >= 0 THEN g ELSE g + M
    BY ONLY <1>1, <1>5, <2>1, g \in Int, SequenceIs
  <2>. QED BY <2>2, <2>3
<1>. HIDE DEF s
<1>7. s \in 0 .. M - 1
  BY <1>1, <1>2, <1>5, <1>6
<1>. QED BY <1>6, <1>7 DEF s, M, m

\* A number after the highest one
LEMMA InOrderAdds ==
  ASSUME NEW t, NEW d, StreamAdds(t, d), d.probation = 0, NEW p,
         NEW n \in t.high .. t.high + MAX_DROPOUT - 1, p.seq = n % RTP_SEQ_MOD,
         NEW u, DOMAIN u = DOMAIN t, u.first = t.first, u.high = n, u.stray = t.stray,
         u.dups \in Nat, u.got \subseteq u.first .. u.high,
         Cardinality(u.got) + u.dups = Cardinality(t.got) + t.dups + 1
  PROVE  StreamAdds(u, RtpPacket(d, p))
<1> DEFINE M == RTP_SEQ_MOD
           s == p.seq
           e == RtpPacket(d, p)
           g == n - t.high
           cycles == IF s < d.max THEN d.cycles + M ELSE d.cycles
<1>1. /\ M \in Nat \ {0} /\ MAX_DROPOUT \in Nat /\ MAX_DROPOUT < M
  BY RtpConstants
<1>2. /\ t.first \in Nat /\ t.high \in Nat /\ t.first <= t.high
      /\ d.base = t.first - 1 /\ d.cycles + d.max = t.high
      /\ d.received = Cardinality(t.got) + t.dups /\ d.max \in 0 .. M - 1
      /\ DOMAIN t = {"first", "high", "got", "dups", "stray"}
      /\ {"cycles", "base", "max", "received", "bad", "probation"} \subseteq DOMAIN d
  BY DEF StreamAdds
<1>3. PICK k \in Nat : d.cycles = k * M
  BY DEF StreamAdds
<1>4. g \in Nat /\ g < MAX_DROPOUT /\ t.high + g = n
  BY <1>1, <1>2
<1>5. /\ s \in 0 .. M - 1 /\ s = IF d.max + g >= M THEN d.max + g - M ELSE d.max + g
      /\ (s - d.max) % M = g
  <2>1. -M < g /\ g < M
    BY <1>1, <1>4
  <2>. HIDE DEF g
  <2>2. s = (t.high + g) % M
    BY <1>4
  <2>3. /\ s \in 0 .. M - 1
        /\ s = IF d.max + g >= M THEN d.max + g - M
               ELSE IF d.max + g < 0 THEN d.max + g + M ELSE d.max + g
        /\ (s - d.max) % M = IF g >= 0 THEN g ELSE g + M
    BY <1>4, <2>1, <2>2, NumberIs
  <2>. QED BY <1>1, <1>2, <1>4, <2>3
<1>6. e = RtpInOrder(d, s)
  BY <1>4, <1>5, RtpPacketIs
<1>7. /\ e.cycles = cycles /\ e.max = s /\ e.received = d.received + 1
      /\ e.base = d.base /\ e.bad = d.bad /\ e.probation = d.probation
      /\ DOMAIN e = DOMAIN d
  BY <1>2, <1>6 DEF RtpInOrder, RtpReceived
<1>8. /\ cycles + s = n /\ \E i \in Nat : cycles = i * M
  <2>. HIDE DEF M, s, g
  <2>1. d.cycles \in Int
    BY <1>1, <1>3
  <2>2. cycles + s = n
    BY <1>1, <1>2, <1>4, <1>5, <2>1
  <2>3. (k + 1) * M = d.cycles + M /\ k + 1 \in Nat
    BY <1>1, <1>3
  <2>. QED BY <1>3, <2>2, <2>3
<1>9. e.received = Cardinality(u.got) + u.dups
  BY <1>2, <1>7
<1>10. \/ u.stray = -1 /\ e.bad = M + 1
       \/ u.stray \in 0 .. M - 1 /\ e.bad = u.stray
  BY <1>7 DEF StreamAdds
<1>. HIDE DEF M, s, g, e, cycles
<1>11. n \in Nat /\ t.first <= n
  BY <1>2, <1>4
<1>. QED BY <1>2, <1>5, <1>7, <1>8, <1>9, <1>10, <1>11 DEF StreamAdds, M, e

RtpFields == {"cycles", "base", "max", "received", "bad", "probation"}

\* A number from before the highest one
LEMMA LateAdds ==
  ASSUME NEW t, NEW d, StreamAdds(t, d), d.probation = 0, NEW p,
         NEW n \in t.first .. t.high, t.high - n < MAX_MISORDER, p.seq = n % RTP_SEQ_MOD,
         NEW u, DOMAIN u = DOMAIN t, u.first = t.first, u.high = t.high, u.stray = t.stray,
         u.dups \in Nat, u.got \subseteq u.first .. u.high,
         Cardinality(u.got) + u.dups = Cardinality(t.got) + t.dups + 1
  PROVE  StreamAdds(u, RtpPacket(d, p))
<1> DEFINE g == n - t.high
           e == RtpPacket(d, p)
<1>1. /\ t.first \in Nat /\ t.high \in Nat /\ t.first <= t.high
      /\ d.base = t.first - 1 /\ d.cycles + d.max = t.high
      /\ d.received = Cardinality(t.got) + t.dups /\ d.max \in 0 .. RTP_SEQ_MOD - 1
      /\ DOMAIN t = {"first", "high", "got", "dups", "stray"}
      /\ RtpFields \subseteq DOMAIN d /\ (\E k \in Nat : d.cycles = k * RTP_SEQ_MOD)
      /\ \/ t.stray = -1 /\ d.bad = RTP_SEQ_MOD + 1
         \/ t.stray \in 0 .. RTP_SEQ_MOD - 1 /\ d.bad = t.stray
  BY DEF StreamAdds, RtpFields
<1>2. g \in Int /\ g <= 0 /\ -MAX_MISORDER < g /\ -RTP_SEQ_MOD < g /\ g < RTP_SEQ_MOD
  BY <1>1, RtpConstants
<1>3. t.high + g = n
  BY <1>1
<1>4. CASE g = 0
  <2>1. n = t.high /\ n \in t.high .. t.high + MAX_DROPOUT - 1
    BY <1>1, <1>4, RtpConstants
  <2>. QED BY <2>1, InOrderAdds
<1>5. CASE g < 0
  <2>1. (p.seq - d.max) % RTP_SEQ_MOD = g + RTP_SEQ_MOD
    <3>. HIDE DEF g
    <3>1. p.seq = (t.high + g) % RTP_SEQ_MOD
      BY <1>3
    <3>2. (((t.high + g) % RTP_SEQ_MOD) - d.max) % RTP_SEQ_MOD =
             IF g >= 0 THEN g ELSE g + RTP_SEQ_MOD
      BY <1>2, NumberIs
    <3>. QED BY <1>2, <1>5, <3>1, <3>2
  <2>2. e = RtpReceived(d)
    <3>. HIDE DEF g, e
    <3>1. /\ ~(g + RTP_SEQ_MOD < MAX_DROPOUT)
          /\ g + RTP_SEQ_MOD \notin MAX_DROPOUT .. RTP_SEQ_MOD - MAX_MISORDER
      BY <1>2, RtpConstants
    <3>. QED BY <2>1, <3>1, RtpPacketIs DEF e
  <2>. HIDE DEF e, g
  <2>3. /\ e.cycles = d.cycles /\ e.max = d.max /\ e.received = d.received + 1
        /\ e.base = d.base /\ e.bad = d.bad /\ e.probation = d.probation
        /\ DOMAIN e = DOMAIN d
    BY <1>1, <2>2 DEF RtpReceived, RtpFields
  <2>4. e.received = Cardinality(u.got) + u.dups
    BY <1>1, <2>3
  <2>. QED BY <1>1, <2>3, <2>4 DEF StreamAdds, RtpFields, e
<1>. QED BY <1>2, <1>4, <1>5

\* A stream that starts
LEMMA StreamFromAdds ==
  ASSUME NEW d, RtpFields \subseteq DOMAIN d, d.probation = 0, NEW s \in 0 .. RTP_SEQ_MOD - 1
  PROVE  StreamAdds(StreamFrom(s), RtpReceived(RtpInitSeq(d, s)))
<1> DEFINE t == StreamFrom(s)
           e == RtpReceived(RtpInitSeq(d, s))
<1>1. /\ e.cycles = 0 /\ e.max = s /\ e.received = 1 /\ e.base = s - 1
      /\ e.bad = RTP_SEQ_MOD + 1 /\ e.probation = 0 /\ RtpFields \subseteq DOMAIN e
  BY DEF RtpReceived, RtpInitSeq, RtpFields
<1>2. /\ t.first = s /\ t.high = s /\ t.got = {s} /\ t.dups = 0 /\ t.stray = -1
      /\ DOMAIN t = {"first", "high", "got", "dups", "stray"}
  BY DEF StreamFrom
<1>. HIDE DEF t, e
<1>3. s \in Nat /\ {s} \subseteq s .. s /\ Cardinality({s}) = 1
  BY RtpConstants, FS_Singleton
<1>4. \E k \in Nat : e.cycles = k * RTP_SEQ_MOD
  <2>1. 0 = 0 * RTP_SEQ_MOD
    BY RtpConstants
  <2>. QED BY <1>1, <2>1
<1>5. e.received = Cardinality(t.got) + t.dups /\ e.cycles + e.max = t.high
  BY <1>1, <1>2, <1>3
<1>. QED BY <1>1, <1>2, <1>3, <1>4, <1>5 DEF StreamAdds, RtpFields, t, e

\* A number far from the highest one
LEMMA JumpAdds ==
  ASSUME NEW t, NEW d, StreamAdds(t, d), d.probation = 0, NEW p,
         NEW n \in t.high + MAX_DROPOUT .. t.high + RTP_SEQ_MOD - MAX_MISORDER,
         p.seq = n % RTP_SEQ_MOD,
         NEW u, u = IF p.seq = t.stray THEN StreamFrom(p.seq)
                    ELSE [t EXCEPT !.stray = (p.seq + 1) % RTP_SEQ_MOD]
  PROVE  StreamAdds(u, RtpPacket(d, p))
<1> DEFINE g == n - t.high
           s == p.seq
           e == RtpPacket(d, p)
<1>1. /\ t.first \in Nat /\ t.high \in Nat /\ t.first <= t.high /\ t.dups \in Nat
      /\ t.got \subseteq t.first .. t.high
      /\ d.base = t.first - 1 /\ d.cycles + d.max = t.high
      /\ d.received = Cardinality(t.got) + t.dups /\ d.max \in 0 .. RTP_SEQ_MOD - 1
      /\ DOMAIN t = {"first", "high", "got", "dups", "stray"}
      /\ RtpFields \subseteq DOMAIN d /\ (\E k \in Nat : d.cycles = k * RTP_SEQ_MOD)
      /\ \/ t.stray = -1 /\ d.bad = RTP_SEQ_MOD + 1
         \/ t.stray \in 0 .. RTP_SEQ_MOD - 1 /\ d.bad = t.stray
  BY DEF StreamAdds, RtpFields
<1>2. /\ g \in Nat /\ g >= MAX_DROPOUT /\ g <= RTP_SEQ_MOD - MAX_MISORDER
      /\ g < RTP_SEQ_MOD /\ -RTP_SEQ_MOD < g /\ t.high + g = n
  BY <1>1, RtpConstants
<1>3. s \in 0 .. RTP_SEQ_MOD - 1 /\ (s - d.max) % RTP_SEQ_MOD = g
  <2>. HIDE DEF g
  <2>1. s = (t.high + g) % RTP_SEQ_MOD
    BY <1>2
  <2>2. /\ (t.high + g) % RTP_SEQ_MOD \in 0 .. RTP_SEQ_MOD - 1
        /\ (((t.high + g) % RTP_SEQ_MOD) - d.max) % RTP_SEQ_MOD =
             IF g >= 0 THEN g ELSE g + RTP_SEQ_MOD
    BY <1>2, NumberIs
  <2>. QED BY <1>2, <2>1, <2>2
<1>4. e = RtpJump(d, s)
  <2>. HIDE DEF g, e
  <2>1. /\ ~(g < MAX_DROPOUT)
        /\ g \in MAX_DROPOUT .. RTP_SEQ_MOD - MAX_MISORDER
    BY <1>2, RtpConstants
  <2>. QED BY <1>3, <2>1, RtpPacketIs DEF e
<1>. HIDE DEF g, e
<1>5. s = d.bad <=> s = t.stray
  BY <1>1, <1>3, RtpConstants
<1>6. CASE s = t.stray
  BY <1>1, <1>3, <1>4, <1>5, <1>6, StreamFromAdds DEF RtpJump, e
<1>7. CASE s # t.stray
  <2> DEFINE next == (s + 1) % RTP_SEQ_MOD
  <2>1. next \in 0 .. RTP_SEQ_MOD - 1
    BY <1>3, RtpConstants
  <2>2. e = [d EXCEPT !.bad = next]
    BY <1>4, <1>5, <1>7 DEF RtpJump
  <2>3. u = [t EXCEPT !.stray = next]
    BY <1>7
  <2>. HIDE DEF next
  <2>4. /\ e.cycles = d.cycles /\ e.max = d.max /\ e.received = d.received
        /\ e.base = d.base /\ e.bad = next /\ e.probation = d.probation
        /\ DOMAIN e = DOMAIN d
    BY <1>1, <2>2 DEF RtpFields
  <2>5. /\ u.first = t.first /\ u.high = t.high /\ u.got = t.got /\ u.dups = t.dups
        /\ u.stray = next /\ DOMAIN u = DOMAIN t
    BY <1>1, <2>3
  <2>. QED BY <1>1, <2>1, <2>4, <2>5 DEF StreamAdds, RtpFields, e
<1>. QED BY <1>6, <1>7

\* A number while the source is not known to be valid
LEMMA UnprovedAdds ==
  ASSUME StreamAdds(truth, data), data.probation > 0, NEW n \in 0 .. RTP_SEQ_MOD - 1
  PROVE  StreamAdds(Unproved(n), RtpPacket(data, RtpNumber(n)))
<1> DEFINE p == RtpNumber(n)
           e == RtpPacket(data, p)
           M == RTP_SEQ_MOD
<1>1. /\ RtpFields \subseteq DOMAIN data /\ data.probation \in Nat
      /\ data.max \in 0 .. M - 1
      /\ DOMAIN truth = {"first", "high", "got", "dups", "stray"}
  BY DEF StreamAdds, RtpFields
<1>2. p.seq = n
  <2>1. p.seq = n % M
    BY DEF RtpNumber, AnyPacket
  <2>2. n % M = n
    BY RtpConstants
  <2>. QED BY <2>1, <2>2
<1>3. e = RtpProbation(data, n)
  BY <1>1, <1>2, RtpPacketIs
<1>. HIDE DEF p, e
<1>4. CASE n # data.max + 1
  <2>1. e = [data EXCEPT !.probation = MIN_SEQUENTIAL - 1, !.max = n]
    BY <1>3, <1>4 DEF RtpProbation
  <2>2. e.probation = MIN_SEQUENTIAL - 1 /\ e.max = n /\ DOMAIN e = DOMAIN data
    BY <1>1, <2>1 DEF RtpFields
  <2>3. Unproved(n) = truth
    BY <1>4 DEF Unproved
  <2>4. MIN_SEQUENTIAL - 1 \in Nat /\ MIN_SEQUENTIAL - 1 # 0
    BY RtpConstants
  <2>. QED BY <1>1, <2>2, <2>3, <2>4 DEF StreamAdds, RtpFields, e, p
<1>5. CASE n = data.max + 1
  <2> DEFINE f == [data EXCEPT !.probation = data.probation - 1, !.max = n]
  <2>1. e = IF f.probation = 0 THEN RtpReceived(RtpInitSeq(f, n)) ELSE f
    BY <1>3, <1>5 DEF RtpProbation
  <2>2. f.probation = data.probation - 1 /\ f.max = n /\ DOMAIN f = DOMAIN data
    BY <1>1 DEF RtpFields
  <2>. HIDE DEF f
  <2>3. CASE data.probation = 1
    <3>1. Unproved(n) = StreamFrom(n) /\ f.probation = 0
      BY <1>5, <2>2, <2>3 DEF Unproved
    <3>. QED BY <1>1, <2>1, <2>2, <3>1, StreamFromAdds DEF e, p
  <2>4. CASE data.probation # 1
    <3>1. Unproved(n) = truth /\ e = f /\ f.probation \in Nat /\ f.probation # 0
      BY <1>1, <2>1, <2>2, <2>4 DEF Unproved
    <3>. QED BY <1>1, <2>2, <3>1 DEF StreamAdds, RtpFields, e, p
  <2>. QED BY <2>3, <2>4
<1>. QED BY <1>4, <1>5

\* A packet of a stream
LEMMA StreamPacketAdds ==
  ASSUME StreamAdds(truth, data), NEW x \in RtpNumbers
  PROVE  StreamAdds(x[2], RtpPacket(data, x[1]))
<1> DEFINE Raised(n) == [truth EXCEPT !.high = n, !.got = @ \cup {n}]
           Came(n) == IF n \in truth.got THEN [truth EXCEPT !.dups = @ + 1]
                      ELSE [truth EXCEPT !.got = @ \cup {n}]
           Far(n) == IF n % RTP_SEQ_MOD = truth.stray THEN StreamFrom(n % RTP_SEQ_MOD)
                     ELSE [truth EXCEPT !.stray = ((n % RTP_SEQ_MOD) + 1) % RTP_SEQ_MOD]
<1>1. \A n : RtpNumber(n).seq = n % RTP_SEQ_MOD
  BY DEF RtpNumber, AnyPacket
<1>2. data.probation \in Nat
  BY DEF StreamAdds
<1>3. CASE data.probation > 0
  <2>1. PICK n \in 0 .. RTP_SEQ_MOD - 1 : x = <<RtpNumber(n), Unproved(n)>>
    BY <1>3 DEF RtpNumbers
  <2>. QED BY <1>3, <2>1, UnprovedAdds
<1>4. CASE data.probation = 0
  <2>1. /\ truth.first \in Nat /\ truth.high \in Nat /\ truth.dups \in Nat
        /\ truth.first <= truth.high /\ truth.got \subseteq truth.first .. truth.high
        /\ DOMAIN truth = {"first", "high", "got", "dups", "stray"}
    BY <1>4 DEF StreamAdds
  <2>2. \/ \E n \in truth.high + 1 .. truth.high + MAX_DROPOUT - 1 :
              x = <<RtpNumber(n), Raised(n)>>
        \/ \E n \in truth.first .. truth.high :
              truth.high - n < MAX_MISORDER /\ x = <<RtpNumber(n), Came(n)>>
        \/ \E n \in truth.high + MAX_DROPOUT .. truth.high + RTP_SEQ_MOD - MAX_MISORDER :
              x = <<RtpNumber(n), Far(n)>>
    <3>1. ~(data.probation > 0)
      BY <1>4
    <3>2. x \in {<<RtpNumber(n), Raised(n)>> :
                    n \in truth.high + 1 .. truth.high + MAX_DROPOUT - 1}
                \cup {<<RtpNumber(n), Came(n)>> :
                    n \in {m \in truth.first .. truth.high : truth.high - m < MAX_MISORDER}}
                \cup {<<RtpNumber(n), Far(n)>> :
                    n \in truth.high + MAX_DROPOUT .. truth.high + RTP_SEQ_MOD - MAX_MISORDER}
      BY <3>1, Zenon DEF RtpNumbers
    <3>. HIDE DEF Raised, Came, Far
    <3>. QED BY <3>2
  <2>3. ASSUME NEW n \in truth.high + 1 .. truth.high + MAX_DROPOUT - 1,
               x = <<RtpNumber(n), Raised(n)>>
        PROVE  StreamAdds(x[2], RtpPacket(data, x[1]))
    <3> DEFINE u == Raised(n)
    <3>1. /\ DOMAIN u = DOMAIN truth /\ u.first = truth.first /\ u.high = n
          /\ u.stray = truth.stray /\ u.dups = truth.dups /\ u.got = truth.got \cup {n}
      BY <2>1
    <3>2. n \in Nat /\ n > truth.high /\ n \in truth.high .. truth.high + MAX_DROPOUT - 1
      BY <2>1, <2>3, RtpConstants
    <3>3. n \notin truth.got
      BY <2>1, <3>2
    <3>4. Cardinality(u.got) = Cardinality(truth.got) + 1 /\ Cardinality(truth.got) \in Nat
      BY <2>1, <3>1, <3>3, OneMore
    <3>. HIDE DEF u
    <3>5. u.got \subseteq u.first .. u.high
      BY <2>1, <3>1, <3>2
    <3>6. Cardinality(u.got) + u.dups = Cardinality(truth.got) + truth.dups + 1
      BY <2>1, <3>1, <3>4
    <3>7. x[1] = RtpNumber(n) /\ x[2] = u
      BY <2>3 DEF u
    <3> DEFINE p == RtpNumber(n)
    <3>8. p.seq = n % RTP_SEQ_MOD /\ u.dups \in Nat
      BY <1>1, <2>1, <3>1
    <3>. HIDE DEF p
    <3>9. StreamAdds(u, RtpPacket(data, p))
      BY <1>4, <3>1, <3>2, <3>5, <3>6, <3>8, InOrderAdds
    <3>. QED BY <3>7, <3>9 DEF p
  <2>4. ASSUME NEW n \in truth.first .. truth.high, truth.high - n < MAX_MISORDER,
               x = <<RtpNumber(n), Came(n)>>
        PROVE  StreamAdds(x[2], RtpPacket(data, x[1]))
    <3> DEFINE u == Came(n)
    <3>1. /\ DOMAIN u = DOMAIN truth /\ u.first = truth.first /\ u.high = truth.high
          /\ u.stray = truth.stray
          /\ n \in truth.got => u.dups = truth.dups + 1 /\ u.got = truth.got
          /\ n \notin truth.got => u.dups = truth.dups /\ u.got = truth.got \cup {n}
      BY <2>1
    <3>. HIDE DEF u
    <3>2. u.got \subseteq u.first .. u.high /\ u.dups \in Nat
      BY <2>1, <3>1
    <3>3. Cardinality(u.got) + u.dups = Cardinality(truth.got) + truth.dups + 1
    <4>1. /\ Cardinality(truth.got) \in Nat
          /\ n \notin truth.got => Cardinality(truth.got \cup {n}) = Cardinality(truth.got) + 1
      BY <2>1, OneMore
    <4>2. CASE n \in truth.got
      BY <2>1, <3>1, <4>1, <4>2
    <4>3. CASE n \notin truth.got
      <5>1. u.got = truth.got \cup {n} /\ u.dups = truth.dups
        BY <3>1, <4>3
      <5>2. Cardinality(u.got) = Cardinality(truth.got) + 1
        BY <4>1, <4>3, <5>1
      <5>. QED BY <2>1, <4>1, <5>1, <5>2
    <4>. QED BY <4>2, <4>3
    <3>4. x[1] = RtpNumber(n) /\ x[2] = u
      BY <2>4 DEF u
    <3>. QED BY <1>1, <1>4, <2>1, <2>4, <3>1, <3>2, <3>3, <3>4, LateAdds
  <2>5. ASSUME NEW n \in truth.high + MAX_DROPOUT .. truth.high + RTP_SEQ_MOD - MAX_MISORDER,
               x = <<RtpNumber(n), Far(n)>>
        PROVE  StreamAdds(x[2], RtpPacket(data, x[1]))
    <3>1. x[1] = RtpNumber(n) /\ x[2] = Far(n)
      BY <2>5
    <3> DEFINE p == RtpNumber(n)
    <3>2. p.seq = n % RTP_SEQ_MOD
      BY <1>1
    <3>3. Far(n) = IF p.seq = truth.stray THEN StreamFrom(p.seq)
                   ELSE [truth EXCEPT !.stray = (p.seq + 1) % RTP_SEQ_MOD]
      BY <3>2
    <3>. HIDE DEF p, Far
    <3>4. StreamAdds(Far(n), RtpPacket(data, p))
      BY <1>4, <3>2, <3>3, JumpAdds
    <3>. QED BY <3>1, <3>4 DEF p
  <2>. QED BY <2>2, <2>3, <2>4, <2>5
<1>. QED BY <1>2, <1>3, <1>4

-----------------------------------------------------------------------------
(* Means and sums. *)

\* n values between lo and hi and m values between lo2 and hi2, of which these
\* are no narrower
LEMMA MeansAdd ==
  ASSUME NEW n, NEW sum, NEW lo, NEW hi, Between(n, sum, lo, hi),
         NEW m, NEW sum2, NEW lo2, NEW hi2, Between(m, sum2, lo2, hi2),
         n > 0 => lo2 <= lo /\ hi <= hi2
  PROVE  Between(n + m, sum + sum2, lo2, hi2)
<1>0. /\ n \in Nat /\ sum \in Int /\ lo \in Int /\ hi \in Int
      /\ m \in Nat /\ sum2 \in Int /\ lo2 \in Int /\ hi2 \in Int
      /\ n * lo <= sum /\ sum <= n * hi /\ m * lo2 <= sum2 /\ sum2 <= m * hi2
      /\ n = 0 => sum = 0
      /\ m = 0 => sum2 = 0
  BY DEF Between
<1>1. (n + m) * lo2 = n * lo2 + m * lo2 /\ (n + m) * hi2 = n * hi2 + m * hi2
  BY <1>0
<1>2. n * lo2 <= sum /\ sum <= n * hi2
  <2>1. CASE n = 0
    <3>1. 0 * lo2 = 0 /\ 0 * hi2 = 0
      BY <1>0
    <3>. QED BY <1>0, <2>1, <3>1
  <2>2. CASE n > 0
    <3>1. n * lo2 <= n * lo
      BY <1>0, <2>2
    <3>2. n * hi <= n * hi2
      BY <1>0, <2>2
    <3>3. n * lo2 \in Int /\ n * hi2 \in Int /\ n * lo \in Int /\ n * hi \in Int
      BY <1>0
    <3>. QED BY <1>0, <3>1, <3>2, <3>3
  <2>. QED BY <1>0, <2>1, <2>2
<1> DEFINE a == n * lo2
           b == m * lo2
           u == n * hi2
           v == m * hi2
<1>3. a \in Int /\ b \in Int /\ u \in Int /\ v \in Int
  BY <1>0
<1>4. a <= sum /\ sum <= u /\ b <= sum2 /\ sum2 <= v
  BY <1>0, <1>2
<1>. HIDE DEF a, b, u, v
<1>5. a + b <= sum + sum2 /\ sum + sum2 <= u + v
  BY <1>0, <1>3, <1>4
<1>. QED BY <1>0, <1>1, <1>5 DEF Between, a, b, u, v

\* One value
LEMMA OneBetween ==
  ASSUME NEW x \in Int, NEW lo \in Int, NEW hi \in Int, lo <= x, x <= hi
  PROVE  Between(1, x, lo, hi)
BY DEF Between

\* None
LEMMA NoneBetween ==
  ASSUME NEW lo \in Int, NEW hi \in Int
  PROVE  Between(0, 0, lo, hi)
<1>1. 0 * lo = 0 /\ 0 * hi = 0
  OBVIOUS
<1>. QED BY <1>1 DEF Between

LEMMA MinOfTwo ==
  ASSUME NEW a \in Int, NEW b \in Int
  PROVE  Min({a, b}) = IF a <= b THEN a ELSE b
<1> DEFINE m == IF a <= b THEN a ELSE b
<1>1. m \in {a, b} /\ \A y \in {a, b} : m <= y
  OBVIOUS
<1>2. \A x, z \in {a, b} : (\A y \in {a, b} : x <= y) /\ (\A y \in {a, b} : z <= y) => x = z
  OBVIOUS
<1>. QED BY <1>1, <1>2 DEF Min

\* jitter
LEMMA JitterAdds ==
  ASSUME NEW d, NEW s \in Nat, NEW n \in Int, NEW t \in Nat, t > 0, TimesAdd(d, s, n, t),
         NEW p, p.t \in Nat, p.t >= t
  PROVE  TimesAdd(JitterPacket(d, p), s + 1, n, p.t)
<1> DEFINE e == JitterPacket(d, p)
           diff == p.t - d.last
<1>1. /\ {"n", "first", "last", "min", "max", "sum"} \subseteq DOMAIN d
      /\ d.n \in Nat /\ d.first \in Nat /\ d.last \in Nat /\ d.min \in Nat /\ d.max \in Nat
      /\ s = 0 <=> d.first = 0
      /\ n + d.n = IF s = 0 THEN 0 ELSE s - 1
      /\ d.last = IF s = 0 THEN 0 ELSE t
      /\ Between(d.n, d.last - d.first, d.min, d.max)
  BY DEF TimesAdd
<1>2. CASE d.first = 0
  <2>1. e = [d EXCEPT !.first = p.t, !.last = p.t]
    BY <1>2 DEF JitterPacket
  <2>2. /\ e.n = d.n /\ e.first = p.t /\ e.last = p.t /\ e.min = d.min /\ e.max = d.max
        /\ DOMAIN e = DOMAIN d
    BY <1>1, <2>1
  <2>. HIDE DEF e
  <2>3. e.last - e.first = 0 /\ d.last - d.first = 0
    BY <1>1, <1>2, <2>2
  <2>4. Between(e.n, e.last - e.first, e.min, e.max)
    BY <1>1, <2>2, <2>3
  <2>. QED BY <1>1, <1>2, <2>2, <2>4 DEF TimesAdd, e
<1>3. CASE d.first # 0
  <2>1. e = [d EXCEPT !.n = @ + 1, !.last = p.t, !.sum = @ + diff,
                      !.min = Min({@, diff}), !.max = Max({@, diff})]
    BY <1>3 DEF JitterPacket
  <2>2. /\ e.n = d.n + 1 /\ e.first = d.first /\ e.last = p.t /\ e.min = Min({d.min, diff})
        /\ e.max = Max({d.max, diff}) /\ DOMAIN e = DOMAIN d
    BY <1>1, <2>1
  <2>3. diff \in Nat /\ d.last - d.first + diff = p.t - d.first
    BY <1>1, <1>3
  <2>. HIDE DEF e, diff
  <2>4. /\ e.min \in Nat /\ e.max \in Nat
        /\ e.min <= d.min /\ e.max >= d.max /\ e.min <= diff /\ diff <= e.max
    <3>0. d.min \in Int /\ d.max \in Int /\ diff \in Int
      BY <1>1, <2>3
    <3>1. Min({d.min, diff}) = IF d.min <= diff THEN d.min ELSE diff
      BY ONLY <3>0, MinOfTwo
    <3>2. Max({d.max, diff}) = IF d.max >= diff THEN d.max ELSE diff
      BY ONLY <3>0, MaxOfTwo
    <3>. QED BY <1>1, <2>2, <2>3, <3>1, <3>2
  <2>5. Between(1, diff, e.min, e.max)
    BY <2>3, <2>4, OneBetween
  <2>6. Between(d.n + 1, d.last - d.first + diff, e.min, e.max)
    BY <1>1, <2>4, <2>5, MeansAdd
  <2>7. Between(e.n, e.last - e.first, e.min, e.max)
    BY <2>2, <2>3, <2>6
  <2>. QED BY <1>1, <1>3, <2>2, <2>4, <2>7 DEF TimesAdd, e
<1>. QED BY <1>2, <1>3

LEMMA JitterExportAdds ==
  ASSUME NEW d, NEW s \in Nat, NEW n \in Int, NEW t \in Nat, t > 0, TimesAdd(d, s, n, t)
  PROVE  TimesAdd(JitterExport(d), s, n + d.n, t) /\ JitterExport(d).n = 0
<1> DEFINE e == JitterExport(d)
<1>1. /\ e.n = 0 /\ e.first = d.last /\ e.last = d.last /\ e.min = Never /\ e.max = 0
      /\ DOMAIN e = {"n", "first", "last", "min", "max", "sum"}
  BY DEF JitterExport, JitterInit
<1>. HIDE DEF e
<1>2. Never \in Nat /\ d.last \in Nat
  BY MeasurementsAssumption DEF TimesAdd
<1>3. e.last - e.first = 0
  BY <1>1, <1>2
<1>4. Between(e.n, e.last - e.first, e.min, e.max)
  BY <1>1, <1>2, <1>3, NoneBetween
<1>. QED BY <1>1, <1>2, <1>4 DEF TimesAdd, e

\* pktlen
LEMMA PktlenAdds ==
  ASSUME NEW d, NEW s \in Nat, NEW n \in Int, LengthsAdd(d, s, n), NEW p, p.len \in Nat
  PROVE  LengthsAdd(PktlenPacket(d, p), s + 1, n)
<1> DEFINE e == PktlenPacket(d, p)
           x == p.len
<1>1. /\ d.n \in Nat /\ d.bytes \in Nat /\ d.min \in Nat /\ d.max \in Nat /\ n + d.n = s
      /\ Between(d.n, d.bytes, d.min, d.max)
  BY DEF LengthsAdd
<1>2. /\ e.n = d.n + 1 /\ e.bytes = d.bytes + x
      /\ e.min = IF d.n = 0 THEN x ELSE Min({d.min, x})
      /\ e.max = IF d.n = 0 THEN x ELSE Max({d.max, x})
      /\ e = [n |-> e.n, bytes |-> e.bytes, min |-> e.min, max |-> e.max]
  BY DEF PktlenPacket
<1>. HIDE DEF e
<1>3. x \in Nat
  OBVIOUS
<1>. HIDE DEF x
<1>4. /\ e.min \in Nat /\ e.max \in Nat /\ e.min <= x /\ x <= e.max
      /\ d.n > 0 => e.min <= d.min /\ d.max <= e.max
  <2>1. Min({d.min, x}) = IF d.min <= x THEN d.min ELSE x
    BY <1>1, <1>3, MinOfTwo
  <2>2. Max({d.max, x}) = IF d.max >= x THEN d.max ELSE x
    BY <1>1, <1>3, MaxOfTwo
  <2>. QED BY <1>1, <1>2, <1>3, <2>1, <2>2
<1>5. Between(d.n + 1, d.bytes + x, e.min, e.max)
  <2>1. Between(1, x, e.min, e.max)
    BY <1>3, <1>4, OneBetween
  <2>. QED BY <1>1, <1>4, <2>1, MeansAdd
<1>6. e \in [n : Nat, bytes : Nat, min : Nat, max : Nat]
  BY <1>1, <1>2, <1>3, <1>4
<1>. QED BY <1>1, <1>2, <1>5, <1>6 DEF LengthsAdd, e

LEMMA PktlenExportAdds ==
  ASSUME NEW d, NEW s \in Nat, NEW n \in Int, LengthsAdd(d, s, n)
  PROVE  LengthsAdd(PktlenExport(d), s, n + d.n) /\ PktlenExport(d).n = 0
<1> DEFINE e == PktlenExport(d)
<1>1. /\ e \in [n : Nat, bytes : Nat, min : Nat, max : Nat]
      /\ e.n = 0 /\ e.bytes = 0 /\ e.min = 0 /\ e.max = 0
  BY DEF PktlenExport, PktlenInit
<1>. HIDE DEF e
<1>2. Between(e.n, e.bytes, e.min, e.max)
  BY <1>1, NoneBetween
<1>. QED BY <1>1, <1>2 DEF LengthsAdd, e

\* The values of a function on a finite set
LEMMA ValuesFinite ==
  ASSUME NEW S, IsFiniteSet(S), NEW f, DOMAIN f = S, f = [x \in S |-> f[x]]
  PROVE  IsFiniteSet({f[x] : x \in S})
<1> DEFINE T == {f[x] : x \in S}
<1>1. f \in [S -> T] /\ \A y \in T : \E x \in S : f[x] = y
  OBVIOUS
<1>. HIDE DEF T
<1>2. f \in Surjection(S, T)
  BY <1>1 DEF Surjection
<1>3. IsFiniteSet(T)
  BY <1>2, FS_Surjection
<1>. QED BY <1>3 DEF T

LEMMA ListFinite ==
  ASSUME NEW T \in SUBSET (0 .. ENTRIES - 1)
  PROVE  IsFiniteSet(T) /\ Cardinality(T) \in Nat
<1>1. IsFiniteSet(0 .. ENTRIES - 1)
  BY FS_Interval, MeasurementsAssumption
<1>2. IsFiniteSet(T)
  BY <1>1, FS_Subset
<1>. QED BY <1>2, FS_CardinalityType

\* rtt_ping: a request changes no times that were measured
LEMMA PingRequestAdds ==
  ASSUME NEW d, PingsAdd(d), NEW p, p.t \in Int
  PROVE  PingsAdd(PingRequest(d, p))
<1> DEFINE e == PingRequest(d, p)
           k == EntryFor(d)
           entry == [id |-> p.echo.id, seqno |-> p.echo.seqno, t |-> p.t]
<1>1. /\ DOMAIN e = DOMAIN d /\ e.list = [d.list EXCEPT ![k] = entry]
      /\ e.matches = d.matches /\ e.sum = d.sum /\ e.min = d.min /\ e.max = d.max
  BY DEF PingRequest, PingsAdd
<1>. HIDE DEF e, k
<1>2. {"id", "t"} \subseteq DOMAIN entry /\ entry.t \in Int
  OBVIOUS
<1>. HIDE DEF entry
<1>3. /\ DOMAIN e.list = DOMAIN d.list
      /\ \A i \in DOMAIN d.list : e.list[i] = IF i = k THEN entry ELSE d.list[i]
  BY <1>1
<1>. QED BY <1>1, <1>2, <1>3 DEF PingsAdd, e

\* What the least, and the greatest, of other values and those of f is chosen from
LowerOf(f, S, n, min) == {f[x] : x \in S} \cup IF n = 0 THEN {} ELSE {min}
UpperOf(f, S, max) == {f[x] : x \in S} \cup {max}

\* f has an integer for each x in S.
IntegersOn(f, S) == DOMAIN f = S /\ f = [x \in S |-> f[x]] /\ \A x \in S : f[x] \in Int

\* Values added to others: bounds of both are bounds of all.
LEMMA ValuesAdd ==
  ASSUME NEW S, IsFiniteSet(S), S # {},
         NEW f, IntegersOn(f, S),
         NEW n, NEW sum, NEW min, NEW max, Between(n, sum, min, max)
  PROVE  Between(n + Cardinality(S), sum + Total(f, S),
                 Min(LowerOf(f, S, n, min)), Max(UpperOf(f, S, max)))
<1> DEFINE V == {f[x] : x \in S}
           lower == LowerOf(f, S, n, min)
           upper == UpperOf(f, S, max)
           lo == Min(lower)
           hi == Max(upper)
<1>a. DOMAIN f = S /\ f = [x \in S |-> f[x]] /\ \A x \in S : f[x] \in Int
  BY DEF IntegersOn
<1>b. lower = V \cup (IF n = 0 THEN {} ELSE {min}) /\ upper = V \cup {max}
  BY DEF LowerOf, UpperOf
<1>1. n \in Nat /\ sum \in Int /\ min \in Int /\ max \in Int
  BY DEF Between
<1>2. IsFiniteSet(V)
  BY <1>a, ValuesFinite
<1>3. V \subseteq Int /\ V # {} /\ \A x \in S : f[x] \in V
  BY <1>a
<1>. HIDE DEF V, lower, upper
<1>4. lower \subseteq Int /\ IsFiniteSet(lower) /\ lower # {}
  <2>1. CASE n = 0
    BY ONLY <1>2, <1>3, <2>1, <1>b
  <2>2. CASE n # 0
    <3>1. lower = V \cup {min}
      BY <1>b, <2>2
    <3>. QED BY ONLY <1>1, <1>2, <1>3, <3>1, FS_AddElement
  <2>. QED BY <2>1, <2>2
<1>5. upper \subseteq Int /\ IsFiniteSet(upper) /\ upper # {}
  BY ONLY <1>1, <1>2, <1>3, <1>b, FS_AddElement
<1>6. lo \in Int /\ \A x \in lower : lo <= x
  BY ONLY <1>4, ExtremesAre
<1>7. hi \in Int /\ \A x \in upper : x <= hi
  BY ONLY <1>5, ExtremesAre
<1>. HIDE DEF lo, hi
<1>8. \A x \in S : f[x] \in lower /\ f[x] \in upper
  BY ONLY <1>3, <1>b
<1>9. \A x \in S : f[x] \in Int /\ lo <= f[x] /\ f[x] <= hi
  BY ONLY <1>6, <1>7, <1>8, <1>a
<1>10. n > 0 => lo <= min /\ max <= hi
  <2>1. max \in upper /\ (n > 0 => min \in lower)
    BY ONLY <1>1, <1>b
  <2>. QED BY ONLY <1>6, <1>7, <2>1
<1>11. Total(f, S) \in Int /\ Cardinality(S) \in Nat /\ Cardinality(S) # 0
  BY <1>a, TotalIsInt, FS_CardinalityType, FS_EmptySet
<1>12. Cardinality(S) * lo <= Total(f, S) /\ Total(f, S) <= Cardinality(S) * hi
  BY <1>6, <1>7, <1>9, TotalBounds
<1>13. Between(Cardinality(S), Total(f, S), lo, hi)
  BY ONLY <1>6, <1>7, <1>11, <1>12 DEF Between
<1>14. Between(n + Cardinality(S), sum + Total(f, S), lo, hi)
  BY <1>10, <1>13, MeansAdd
<1>. QED BY <1>14 DEF lo, hi, lower, upper

\* A reply adds the times since the requests it is matched with.
LEMMA PingReplyAdds ==
  ASSUME NEW d, PingsAdd(d), NEW p, p.t \in Int
  PROVE  PingsAdd(PingReply(d, p))
<1> DEFINE hit == {i \in DOMAIN d.list : /\ d.list[i].id = p.echo.id /\ d.list[i].id # 0
                                         /\ d.list[i].seqno = p.echo.seqno}
           rtt == [i \in hit |-> p.t - d.list[i].t]
           lower == LowerOf(rtt, hit, d.matches, d.min)
           upper == UpperOf(rtt, hit, d.max)
           freed == [i \in DOMAIN d.list |-> IF i \in hit THEN [d.list[i] EXCEPT !.id = 0]
                                             ELSE d.list[i]]
           e == [d EXCEPT !.list = freed,
                          !.free = d.free + Cardinality(hit),
                          !.matches = d.matches + Cardinality(hit),
                          !.sum = d.sum + Total(rtt, hit),
                          !.min = Min(lower), !.max = Max(upper)]
<1>1. PingReply(d, p) = IF hit = {} THEN d ELSE e
  BY Zenon DEF PingReply, LowerOf, UpperOf
<1>2. /\ DOMAIN d.list = 0 .. ENTRIES - 1
      /\ \A i \in DOMAIN d.list : {"id", "t"} \subseteq DOMAIN d.list[i] /\ d.list[i].t \in Int
      /\ {"list", "free", "matches", "min", "max", "sum"} \subseteq DOMAIN d
      /\ Between(d.matches, d.sum, d.min, d.max)
  BY DEF PingsAdd
<1>4. hit \subseteq 0 .. ENTRIES - 1 /\ hit \subseteq DOMAIN d.list
  BY <1>2
<1>5. IsFiniteSet(hit)
  BY <1>4, ListFinite
<1>6. /\ DOMAIN freed = DOMAIN d.list
      /\ \A i \in DOMAIN d.list : {"id", "t"} \subseteq DOMAIN freed[i] /\ freed[i].t \in Int
  BY <1>2
<1>. HIDE DEF hit, freed
<1>7. IntegersOn(rtt, hit)
  BY <1>2, <1>4 DEF IntegersOn
<1>. HIDE DEF rtt
<1>8. ASSUME hit # {} PROVE PingsAdd(e)
  <2>1. Between(d.matches + Cardinality(hit), d.sum + Total(rtt, hit), Min(lower), Max(upper))
    BY <1>2, <1>5, <1>7, <1>8, ValuesAdd
  <2>2. /\ DOMAIN e = DOMAIN d /\ e.list = freed /\ e.matches = d.matches + Cardinality(hit)
        /\ e.sum = d.sum + Total(rtt, hit) /\ e.min = Min(lower) /\ e.max = Max(upper)
    BY <1>2
  <2>. HIDE DEF e
  <2>. QED BY <1>2, <1>6, <2>1, <2>2 DEF PingsAdd
<1>. QED BY <1>1, <1>8

LEMMA PingResetAdds ==
  ASSUME NEW d, PingsAdd(d)
  PROVE  PingsAdd(PingReset(d))
<1> DEFINE e == PingReset(d)
<1>1. /\ DOMAIN e = DOMAIN d /\ e.list = d.list
      /\ e.matches = 0 /\ e.sum = 0 /\ e.min = 0 /\ e.max = 0
  BY DEF PingReset, PingsAdd
<1>. HIDE DEF e
<1>2. Between(e.matches, e.sum, e.min, e.max)
  BY <1>1, NoneBetween
<1>. QED BY <1>1, <1>2 DEF PingsAdd, e

-----------------------------------------------------------------------------
(* port_use *)

\* No value of a sum of naturals is more than the sum.
LEMMA TotalOfNats ==
  ASSUME NEW f, NEW S, IsFiniteSet(S), \A x \in S : f[x] \in Nat
  PROVE  Total(f, S) \in Nat /\ \A x \in S : f[x] <= Total(f, S)
<1> DEFINE F == {T \in SUBSET S : Total(f, T) >= 0}
<1>0. \A T \in SUBSET S : IsFiniteSet(T) /\ Total(f, T) \in Int
  <2>. TAKE T \in SUBSET S
  <2>1. IsFiniteSet(T)
    BY FS_Subset
  <2>2. \A x \in T : f[x] \in Int
    OBVIOUS
  <2>. QED BY <2>1, <2>2, TotalIsInt
<1>1. {} \in F
  BY TotalEmpty
<1>2. ASSUME NEW T \in SUBSET S, T # {}, \A x \in T : T \ {x} \in F PROVE T \in F
  <2>1. PICK x \in T : TRUE
    BY <1>2
  <2>2. IsFiniteSet(T) /\ \A y \in T : f[y] \in Int
    BY <1>0
  <2>3. Total(f, T) = f[x] + Total(f, T \ {x})
    BY <2>1, <2>2, TotalWithout
  <2>4. f[x] \in Nat /\ Total(f, T \ {x}) \in Int /\ Total(f, T \ {x}) >= 0
    BY <1>0, <1>2, <2>1
  <2>. QED BY <2>3, <2>4
<1>. HIDE DEF F
<1>3. \A T \in SUBSET S : T \in F
  <2>. TAKE T \in SUBSET S
  <2>1. IsFiniteSet(T)
    BY <1>0
  <2>2. \A U \in SUBSET T : U # {} /\ (\A x \in U : U \ {x} \in F) => U \in F
    BY <1>2
  <2>. QED BY <1>1, <2>1, <2>2, FiniteInduction
<1>4. \A T \in SUBSET S : Total(f, T) \in Nat
  BY <1>0, <1>3 DEF F
<1>5. ASSUME NEW x \in S PROVE f[x] <= Total(f, S)
  <2>1. Total(f, S) = f[x] + Total(f, S \ {x})
    BY TotalWithout
  <2>2. Total(f, S \ {x}) \in Nat /\ Total(f, S) \in Nat /\ f[x] \in Nat
    BY <1>4
  <2>. QED BY <2>1, <2>2
<1>. QED BY <1>4, <1>5

\* A packet is one of its port, or of the others.
LEMMA PortPacketAdds ==
  ASSUME NEW d, PortsAdd(d), NEW p, p.len \in Nat
  PROVE  PortsAdd(PortPacket(d, p))
<1> DEFINE e == PortPacket(d, p)
           q == p.port
<1>1. /\ {"all", "other", "packets", "bytes"} \subseteq DOMAIN d
      /\ d.other \in Int /\ d.packets \in [Ports -> Nat] /\ d.bytes \in [Ports -> Nat]
      /\ d.all = d.other + Total(d.bytes, Ports)
  BY DEF PortsAdd
<1>2. IsFiniteSet(Ports) /\ \A x \in Ports : d.bytes[x] \in Int
  BY <1>1, MeasurementsAssumption
<1>3. Total(d.bytes, Ports) \in Int
  BY <1>2, TotalIsInt
<1>4. CASE q \in Ports
  <2> DEFINE packets == [d.packets EXCEPT ![q] = @ + 1]
             bytes == [d.bytes EXCEPT ![q] = @ + p.len]
  <2>1. packets \in [Ports -> Nat] /\ bytes \in [Ports -> Nat]
    BY <1>1, <1>4
  <2>2. bytes[q] = d.bytes[q] + p.len /\ \A y \in Ports : y # q => bytes[y] = d.bytes[y]
    BY <1>1, <1>4
  <2>3. /\ e.all = d.all + p.len /\ e.other = d.other /\ e.packets = packets /\ e.bytes = bytes
        /\ DOMAIN e = DOMAIN d
    BY <1>1, <1>4 DEF PortPacket
  <2>. HIDE DEF packets, bytes, e, q
  <2>4. Total(bytes, Ports) = Total(d.bytes, Ports) - d.bytes[q] + bytes[q]
    BY <1>2, <1>4, <2>1, <2>2, TotalChanged
  <2>5. d.bytes[q] \in Int
    BY <1>2, <1>4
  <2>6. e.all = e.other + Total(e.bytes, Ports)
    BY <1>1, <1>3, <2>2, <2>3, <2>4, <2>5
  <2>7. PortsAdd(e)
    BY <1>1, <2>1, <2>3, <2>6 DEF PortsAdd
  <2>. QED BY <2>7 DEF e
<1>5. CASE q \notin Ports
  <2>1. /\ e.all = d.all + p.len /\ e.other = d.other + p.len /\ e.packets = d.packets
        /\ e.bytes = d.bytes /\ DOMAIN e = DOMAIN d
    BY <1>1, <1>5 DEF PortPacket
  <2>. HIDE DEF e
  <2>2. PortsAdd(e)
    BY <1>1, <1>3, <2>1 DEF PortsAdd
  <2>. QED BY <2>2 DEF e
<1>. QED BY <1>4, <1>5

\* The rest is that of the ports which are not told one by one.
LEMMA RestIs ==
  ASSUME NEW d, PortsAdd(d), NEW T \in TopPorts(d)
  PROVE  /\ Rest(d, T) = Total(d.bytes, Ports \ T)
         /\ \A q \in Ports \ T : d.bytes[q] <= Rest(d, T)
<1>1. /\ d.other \in Int /\ d.bytes \in [Ports -> Nat]
      /\ d.all = d.other + Total(d.bytes, Ports)
  BY DEF PortsAdd
<1>2. IsFiniteSet(Ports) /\ T \in SUBSET Ports
  BY MeasurementsAssumption DEF TopPorts
<1>3. IsFiniteSet(T) /\ IsFiniteSet(Ports \ T)
  BY <1>2, FS_Subset
<1>4. \A q \in Ports : d.bytes[q] \in Int /\ d.bytes[q] \in Nat
  BY <1>1
<1>5. Total(d.bytes, Ports) = Total(d.bytes, T) + Total(d.bytes, Ports \ T)
  BY <1>2, <1>4, TotalSplit
<1>6. Total(d.bytes, T) \in Int
  BY <1>2, <1>3, <1>4, TotalIsInt
<1>7. /\ Total(d.bytes, Ports \ T) \in Nat
      /\ \A q \in Ports \ T : d.bytes[q] <= Total(d.bytes, Ports \ T)
  BY <1>3, <1>4, TotalOfNats
<1>8. Rest(d, T) = Total(d.bytes, Ports \ T)
  BY <1>1, <1>5, <1>6, <1>7 DEF Rest
<1>. QED BY <1>7, <1>8

LEMMA InitPorts == PortsAdd(PortInit)
<1> DEFINE d == PortInit
<1>1. /\ DOMAIN d = {"all", "other", "packets", "bytes"} /\ d.all = 0 /\ d.other = 0
      /\ d.packets \in [Ports -> Nat] /\ d.bytes = [q \in Ports |-> 0]
  BY DEF PortInit
<1>. HIDE DEF d
<1>2. IsFiniteSet(Ports) /\ \A q \in Ports : d.bytes[q] = 0
  BY <1>1, MeasurementsAssumption
<1>3. Cardinality(Ports) * 0 <= Total(d.bytes, Ports) /\ Total(d.bytes, Ports) <= Cardinality(Ports) * 0
  BY <1>2, TotalBounds
<1>4. Cardinality(Ports) \in Nat /\ Total(d.bytes, Ports) \in Int
  BY <1>2, FS_CardinalityType, TotalIsInt
<1>5. Total(d.bytes, Ports) = 0
  BY <1>3, <1>4
<1>6. d.bytes \in [Ports -> Nat]
  BY <1>1
<1>. QED BY <1>1, <1>5, <1>6 DEF PortsAdd, d

-----------------------------------------------------------------------------
(* The modules that count packets. *)

\* What bandwidth still has to tell are the counters and the snapshots.
LEMMA StoredIs ==
  ASSUME NEW d, BandwidthFits(d), NEW f, f = [i \in DOMAIN d.sets |-> d.sets[i].n]
  PROVE  /\ d.curr.n \in Nat /\ IsFiniteSet(DOMAIN d.sets)
         /\ DOMAIN d.sets = 1 .. Len(d.sets) /\ Len(d.sets) \in Nat
         /\ \A i \in DOMAIN d.sets : f[i] \in Int
         /\ Total(f, DOMAIN d.sets) \in Int
<1>1. d.curr \in Counters /\ d.sets \in Seq(Counters)
  BY DEF BandwidthFits
<1>2. DOMAIN d.sets = 1 .. Len(d.sets) /\ Len(d.sets) \in Nat
  BY <1>1
<1>3. IsFiniteSet(DOMAIN d.sets)
  BY <1>2, FS_Interval
<1>4. \A i \in DOMAIN d.sets : f[i] \in Int
  <2>1. \A i \in DOMAIN d.sets : d.sets[i] \in Counters
    BY <1>1, <1>2
  <2>2. \A i \in DOMAIN d.sets : f[i] = d.sets[i].n
    OBVIOUS
  <2>. QED BY <2>1, <2>2 DEF Counters
<1>. QED BY <1>1, <1>2, <1>3, <1>4, TotalIsInt DEF Counters

LEMMA UntoldIs ==
  ASSUME kind \in Counting, Countable(data)
  PROVE  Untold(data) \in Int
<1>1. CASE kind = "bandwidth"
  <2> DEFINE f == [i \in DOMAIN data.sets |-> data.sets[i].n]
  <2>1. Untold(data) = data.curr.n + Total(f, DOMAIN data.sets)
    BY <1>1 DEF Untold
  <2>2. BandwidthFits(data)
    BY <1>1 DEF Countable
  <2>3. f = [i \in DOMAIN data.sets |-> data.sets[i].n]
    OBVIOUS
  <2>. HIDE DEF f
  <2>4. data.curr.n \in Nat /\ Total(f, DOMAIN data.sets) \in Int
    BY <2>2, <2>3, StoredIs
  <2>. QED BY <2>1, <2>4
<1>2. CASE kind # "bandwidth"
  BY <1>2 DEF Untold, Countable, Counting
<1>. QED BY <1>1, <1>2

LEMMA CountedPacket ==
  ASSUME kind \in Counting, Countable(data), NEW p, p.t \in Int,
         data' = Process(p), kind' = kind
  PROVE  Countable(data)' /\ Untold(data)' = Untold(data) + 1
<1>1. CASE kind = "bandwidth"
  <2> DEFINE f == [i \in DOMAIN data.sets |-> data.sets[i].n]
  <2>1. data' = BandwidthPacket(data, p)
    BY <1>1 DEF Process
  <2>2. BandwidthFits(data)
    BY <1>1 DEF Countable
  <2>3. data'.sets = data.sets /\ data'.curr.n = data.curr.n + 1
    BY <2>1, <2>2 DEF BandwidthPacket, BandwidthFits
  <2>4. BandwidthFits(data')
    BY <2>1, <2>2, SnapshotsFit
  <2>5. /\ Untold(data) = data.curr.n + Total(f, DOMAIN data.sets)
        /\ Untold(data)' = data'.curr.n + Total(f, DOMAIN data.sets)
    BY <1>1, <2>3 DEF Untold
  <2>6. f = [i \in DOMAIN data.sets |-> data.sets[i].n]
    OBVIOUS
  <2>. HIDE DEF f
  <2>7. data.curr.n \in Nat /\ Total(f, DOMAIN data.sets) \in Int
    BY <2>2, <2>6, StoredIs
  <2>8. Untold(data)' = Untold(data) + 1
    BY <2>3, <2>5, <2>7
  <2>. QED BY <1>1, <2>4, <2>8 DEF Countable
<1>2. CASE kind # "bandwidth"
  <2>1. "n" \in DOMAIN data /\ data.n \in Nat
    BY <1>2 DEF Countable
  <2>2. Untold(data) = data.n /\ Untold(data)' = data'.n
    BY <1>2 DEF Untold, Counting
  <2>3. data'.n = data.n + 1 /\ "n" \in DOMAIN data'
    <3>1. CASE kind = "count"
      BY <3>1 DEF Process, CountPacket
    <3>2. CASE kind = "capture"
      BY <3>2 DEF Process, CapturePacket
    <3>3. CASE kind \in {"pktid_md5", "pktid_crc32"}
      <4>1. data' = PktidPacket(data, p)
        BY <3>3 DEF Process, CrcPacket
      <4>. QED BY <4>1 DEF PktidPacket
    <3>4. CASE kind = "show_ascii"
      <4>1. data' = ShowPacket(data, p)
        BY <3>4 DEF Process
      <4>. QED BY <2>1, <4>1 DEF ShowPacket
    <3>. QED BY <1>2, <3>1, <3>2, <3>3, <3>4 DEF Counting
  <2>. QED BY <1>2, <2>1, <2>2, <2>3 DEF Countable
<1>. QED BY <1>1, <1>2

\* After an export, or a reset, there is still a number of packets.
LEMMA CountedExport ==
  ASSUME kind \in Counting, Countable(data), data' \in {Exported, Reset(Exported)}, kind' = kind
  PROVE  /\ Countable(data)'
         /\ kind = "count" /\ data' = Exported => data' = data
<1>1. CASE kind = "bandwidth"
  <2>1. Exported = BandwidthExport(data)
    BY <1>1 DEF Exported
  <2>2. \A d : Reset(d) = d
    BY <1>1 DEF Reset
  <2> DEFINE p == [t |-> 0]
  <2>3. p.t \in Int
    OBVIOUS
  <2>. HIDE DEF p
  <2>4. BandwidthFits(data')
    BY <1>1, <2>1, <2>2, <2>3, SnapshotsFit DEF Countable
  <2>. QED BY <1>1, <2>4 DEF Countable
<1>2. CASE kind # "bandwidth"
  <2>1. "n" \in DOMAIN data /\ data.n \in Nat
    BY <1>2 DEF Countable
  <2>2. "n" \in DOMAIN data' /\ data'.n \in Nat
    <3>1. CASE kind = "count"
      <4>1. Exported = data /\ \A d : Reset(d) = CountInit
        BY <3>1 DEF Exported, Reset
      <4>. QED BY <2>1, <4>1 DEF CountInit
    <3>2. CASE kind = "capture"
      <4>1. Exported = CaptureReset(data) /\ \A d : Reset(d) = CaptureReset(data)
        BY <3>2 DEF Exported, Reset, CaptureExport, CaptureReset
      <4>. QED BY <4>1 DEF CaptureReset
    <3>3. CASE kind \in {"pktid_md5", "pktid_crc32"}
      <4>1. Exported = PktidExport(data) /\ \A d : Reset(d) = PktidInit
        BY <3>3 DEF Exported, Reset, CrcExport, PktidReset
      <4>2. CASE data' = PktidExport(data)
        BY <2>1, <4>2 DEF PktidExport
      <4>3. CASE data' = PktidInit
        BY <4>3 DEF PktidInit
      <4>. QED BY <4>1, <4>2, <4>3
    <3>4. CASE kind = "show_ascii"
      <4>1. Exported = ShowExport(data) /\ \A d : Reset(d) = ShowReset(data)
        BY <3>4 DEF Exported, Reset, ShowReset
      <4>. QED BY <2>1, <4>1 DEF ShowExport, ShowReset
    <3>. QED BY <1>2, <3>1, <3>2, <3>3, <3>4 DEF Counting
  <2>3. kind = "count" => Exported = data
    BY DEF Exported
  <2>. QED BY <1>2, <2>2, <2>3 DEF Countable
<1>. QED BY <1>1, <1>2

\* A timeout makes a snapshot of the counters.
LEMMA CountedTimeout ==
  ASSUME kind = "bandwidth", Countable(data), data' = BandwidthTimeout(data), kind' = kind
  PROVE  Countable(data)' /\ Untold(data)' = Untold(data)
<1> DEFINE f == [i \in DOMAIN data.sets |-> data.sets[i].n]
           g == [i \in DOMAIN data'.sets |-> data'.sets[i].n]
           k == Len(data.sets) + 1
<1>1. BandwidthFits(data)
  BY DEF Countable
<1>2. BandwidthFits(data')
  <2> DEFINE p == [t |-> 0]
  <2>1. p.t \in Int
    OBVIOUS
  <2>. HIDE DEF p
  <2>. QED BY <1>1, <2>1, SnapshotsFit
<1>3. data'.sets = Append(data.sets, data.curr) /\ data'.curr.n = 0
  BY <1>1 DEF BandwidthTimeout, AppendCounters, NoCounters, BandwidthFits
<1>4. data.sets \in Seq(Counters) /\ data.curr \in Counters
  BY <1>1 DEF BandwidthFits
<1>5. /\ k \in Nat /\ DOMAIN data.sets = 1 .. k - 1 /\ DOMAIN data'.sets = 1 .. k
      /\ \A i \in 1 .. k - 1 : data'.sets[i] = data.sets[i]
      /\ data'.sets[k] = data.curr
  BY <1>3, <1>4
<1>6. /\ Untold(data) = data.curr.n + Total(f, DOMAIN data.sets)
      /\ Untold(data)' = data'.curr.n + Total(g, DOMAIN data'.sets)
  BY DEF Untold
<1>7. /\ f = [i \in DOMAIN data.sets |-> data.sets[i].n]
      /\ g = [i \in DOMAIN data'.sets |-> data'.sets[i].n]
  OBVIOUS
<1>8. (\A i \in 1 .. k - 1 : g[i] = f[i]) /\ g[k] = data.curr.n /\ k \in 1 .. k
  BY <1>4, <1>5
<1>. HIDE DEF f, g
<1>9. /\ data.curr.n \in Nat /\ Total(f, DOMAIN data.sets) \in Int
      /\ IsFiniteSet(DOMAIN data'.sets) /\ IsFiniteSet(DOMAIN data.sets)
      /\ \A i \in DOMAIN data'.sets : g[i] \in Int
  BY <1>1, <1>2, <1>7, StoredIs
<1>. HIDE DEF k
<1>10. Total(g, 1 .. k) = g[k] + Total(g, (1 .. k) \ {k})
  BY <1>5, <1>8, <1>9, TotalWithout
<1>11. (1 .. k) \ {k} = 1 .. k - 1
  BY <1>5
<1>12. Total(g, 1 .. k - 1) = Total(f, 1 .. k - 1)
  BY <1>5, <1>8, <1>9, TotalSame
<1>13. Untold(data)' = Untold(data)
  <2>1. Untold(data) = data.curr.n + Total(f, 1 .. k - 1) /\ Total(f, 1 .. k - 1) \in Int
    BY ONLY <1>5, <1>6, <1>9
  <2>2. Untold(data)' = data'.curr.n + Total(g, 1 .. k)
    BY ONLY <1>5, <1>6
  <2>3. Total(g, 1 .. k) = data.curr.n + Total(f, 1 .. k - 1)
    BY ONLY <1>8, <1>10, <1>11, <1>12
  <2>. QED BY ONLY <1>3, <1>9, <2>1, <2>2, <2>3
<1>. QED BY <1>2, <1>13 DEF Countable

-----------------------------------------------------------------------------
(* The invariant of what is measured, and that every step keeps it. *)

LEMMA InitAdds == Init => AddsInv
<1> SUFFICES ASSUME Init PROVE AddsInv
  OBVIOUS
<1>1. /\ kind \in Modules /\ data \in InitFlowRecs(kind) /\ now = 2 /\ sent = 0 /\ told = 0
      /\ truth = Truth(kind, IF IsFlowStats THEN data.cap ELSE 0)
  BY DEF Init
<1>2. Never \in Nat /\ Caps \subseteq Nat /\ Second \in Nat
  BY MeasurementsAssumption, ProcModulesAssumption
<1>3. ASSUME IsFlowStats PROVE FlowAdds(data, truth)
  <2>1. truth = [first |-> 0, last |-> 0, n |-> 0, aborted |-> FALSE,
                 cap |-> IF kind = "netai_flowstats_dscp_1s" THEN Second ELSE data.cap]
    <3>1. truth = Truth(kind, data.cap) /\ kind \in FlowStatsKinds
      BY <1>1, <1>3 DEF IsFlowStats
    <3>. QED BY SMT, <3>1 DEF Truth, FlowStatsKinds
  <2>2. /\ PeriodsAdd(data) /\ data.f.n = 0 /\ data.b.n = 0 /\ data.first = 0 /\ GetLast(data) = 0
        /\ data.cap \in Nat
        /\ kind = "netai_flowstats_dscp_1s" => data.cap = Never
    <3>1. CASE kind = "netai_flowstats"
      <4>1. PICK c \in Caps : data = Cleared(c, MinDuration)
        BY <1>1, <3>1 DEF InitFlowRecs, InitFlowRec
      <4>. QED BY <1>2, <3>1, <4>1, ClearedAdds
    <3>2. CASE kind \in {"netai_flowstats_dscp", "netai_flowstats_dscp_1s"}
      <4>1. data = InitFlowRecDscp(Never, 0)
        BY <1>1, <3>2 DEF InitFlowRecs
      <4>. QED BY <1>2, <4>1, ClearedAdds
    <3>. QED BY <1>3, <3>1, <3>2 DEF IsFlowStats, FlowStatsKinds
  <2>. QED BY <1>1, <1>2, <2>1, <2>2 DEF FlowAdds
<1>4. ASSUME kind = "rtploss" PROVE StreamAdds(truth, data)
  <2>1. data = RtpInit
    BY <1>1, <1>4 DEF InitFlowRecs
  <2>2. truth = StreamFrom(0)
    BY <1>1, <1>4 DEF Truth, FlowStatsKinds
  <2>3. RTP_SEQ_MOD \in Nat \ {0}
    BY MeasurementsAssumption
  <2>. QED BY <2>1, <2>2, <2>3 DEF RtpInit, StreamFrom, StreamAdds
<1>5. ASSUME kind = "jitter" PROVE TimesAdd(data, sent, told, now)
  <2>1. data = JitterInit
    BY <1>1, <1>5 DEF InitFlowRecs
  <2>2. /\ DOMAIN data = {"n", "first", "last", "min", "max", "sum"}
        /\ data.n = 0 /\ data.first = 0 /\ data.last = 0 /\ data.min = Never /\ data.max = 0
    BY <2>1 DEF JitterInit
  <2>3. Between(data.n, data.last - data.first, data.min, data.max)
    <3>1. data.last - data.first = 0
      BY <2>2
    <3>. QED BY <1>2, <2>2, <3>1, NoneBetween
  <2>. QED BY <1>1, <1>2, <2>2, <2>3 DEF TimesAdd
<1>6. ASSUME kind = "pktlen" PROVE LengthsAdd(data, sent, told)
  <2>1. data = PktlenInit
    BY <1>1, <1>6 DEF InitFlowRecs
  <2>2. /\ data \in [n : Nat, bytes : Nat, min : Nat, max : Nat]
        /\ data.n = 0 /\ data.bytes = 0 /\ data.min = 0 /\ data.max = 0
    BY <2>1 DEF PktlenInit
  <2>3. Between(data.n, data.bytes, data.min, data.max)
    BY <2>2, NoneBetween
  <2>. QED BY <1>1, <2>2, <2>3 DEF LengthsAdd
<1>7. ASSUME kind = "rtt_ping" PROVE PingsAdd(data)
  <2>1. data = PingInit
    BY <1>1, <1>7 DEF InitFlowRecs
  <2>2. /\ DOMAIN data = {"list", "free", "matches", "min", "max", "sum"}
        /\ DOMAIN data.list = 0 .. ENTRIES - 1
        /\ \A i \in DOMAIN data.list : data.list[i] = NoEntry
        /\ data.matches = 0 /\ data.sum = 0 /\ data.min = 0 /\ data.max = 0
    BY <2>1 DEF PingInit
  <2>3. Between(data.matches, data.sum, data.min, data.max)
    BY <2>2, NoneBetween
  <2>. QED BY <2>2, <2>3 DEF PingsAdd, NoEntry
<1>8. ASSUME kind = "port_use" PROVE PortsAdd(data)
  BY <1>1, <1>8, InitPorts DEF InitFlowRecs
<1>9. ASSUME kind \in Counting PROVE Countable(data) /\ Untold(data) = 0
  <2>1. CASE kind = "bandwidth"
    <3>1. PICK b \in BOOLEAN : data = BandwidthInit(b)
      BY <1>1, <2>1 DEF InitFlowRecs
    <3>2. /\ DOMAIN data = {"curr", "sets", "maxSets", "timer"}
          /\ data.curr = NoCounters /\ data.sets = <<>> /\ data.maxSets = 0
      BY <3>1 DEF BandwidthInit
    <3>3. BandwidthFits(data)
      <4>1. NoCounters \in Counters /\ <<>> \in Seq(Counters) /\ Len(<<>>) = 0
        BY DEF NoCounters, Counters
      <4>. QED BY <3>2, <4>1 DEF BandwidthFits
    <3> DEFINE f == [i \in DOMAIN data.sets |-> data.sets[i].n]
    <3>4. Untold(data) = data.curr.n + Total(f, DOMAIN data.sets)
      BY <2>1 DEF Untold
    <3>. HIDE DEF f
    <3>5. DOMAIN data.sets = {} /\ data.curr.n = 0
      BY <3>2 DEF NoCounters
    <3>6. Untold(data) = 0
      BY <3>4, <3>5, TotalEmpty
    <3>. QED BY <2>1, <3>3, <3>6 DEF Countable
  <2>2. CASE kind # "bandwidth"
    <3>1. data \in {CountInit, CaptureInit, PktidInit, ShowInit}
      BY <1>1, <1>9, <2>2 DEF InitFlowRecs, Counting
    <3>2. "n" \in DOMAIN data /\ data.n = 0
      BY <3>1 DEF CountInit, CaptureInit, PktidInit, ShowInit
    <3>. QED BY <1>9, <2>2, <3>2 DEF Countable, Untold, Counting
  <2>. QED BY <2>1, <2>2
<1>10. kind \in Counting => told + Untold(data) = sent
  BY <1>1, <1>9
<1>. QED BY <1>1, <1>3, <1>4, <1>5, <1>6, <1>7, <1>8, <1>9, <1>10 DEF AddsInv

\* A packet that is measured, of any module but those of flow statistics
Taken(p) ==
    /\ p.t \in Nat /\ p.t >= now /\ p.len \in Nat
    /\ data' = Process(p) /\ kind' = kind
    /\ now' = p.t /\ sent' = sent + 1 /\ told' = told

LEMMA MeasureTakes ==
  ASSUME now \in Nat, NEW p, p.t \in Nat, p.t >= now, p.len \in Nat, NEW u, Measure(p, u)
  PROVE  Taken(p) /\ truth' = u
<1>1. now' = Max({now, p.t})
  BY DEF Measure
<1>2. Max({now, p.t}) = p.t
  BY MaxOfTwo
<1>. QED BY <1>1, <1>2 DEF Measure, Taken

LEMMA TakenAdds ==
  ASSUME AddsInv, now \in Nat, now > 0, NEW p, Taken(p), ~IsFlowStats, kind # "rtploss"
  PROVE  AddsInv'
<1>0. /\ sent \in Nat /\ told \in Int /\ p.t \in Nat /\ p.t >= now /\ p.len \in Nat
      /\ data' = Process(p) /\ kind' = kind /\ now' = p.t /\ sent' = sent + 1 /\ told' = told
      /\ p.t \in Int
  BY DEF Taken, AddsInv
<1>1. sent' \in Nat /\ told' \in Int /\ ~IsFlowStats' /\ kind' # "rtploss"
  BY <1>0 DEF IsFlowStats
<1>2. ASSUME kind = "jitter" PROVE TimesAdd(data', sent', told', now')
  <2>1. data' = JitterPacket(data, p)
    BY <1>0, <1>2 DEF Process
  <2>2. TimesAdd(data, sent, told, now)
    BY <1>2 DEF AddsInv
  <2>. QED BY <1>0, <2>1, <2>2, JitterAdds
<1>3. ASSUME kind = "pktlen" PROVE LengthsAdd(data', sent', told')
  <2>1. data' = PktlenPacket(data, p)
    BY <1>0, <1>3 DEF Process
  <2>2. LengthsAdd(data, sent, told)
    BY <1>3 DEF AddsInv
  <2>. QED BY <1>0, <2>1, <2>2, PktlenAdds
<1>4. ASSUME kind = "rtt_ping" PROVE PingsAdd(data')
  <2>1. data' \in {PingRequest(data, p), PingReply(data, p)}
    BY <1>0, <1>4 DEF Process, PingPacket
  <2>2. PingsAdd(data)
    BY <1>4 DEF AddsInv
  <2>. QED BY <1>0, <2>1, <2>2, PingRequestAdds, PingReplyAdds
<1>5. ASSUME kind = "port_use" PROVE PortsAdd(data')
  <2>1. data' = PortPacket(data, p)
    BY <1>0, <1>5 DEF Process
  <2>2. PortsAdd(data)
    BY <1>5 DEF AddsInv
  <2>. QED BY <1>0, <2>1, <2>2, PortPacketAdds
<1>6. ASSUME kind \in Counting
      PROVE  Countable(data)' /\ told' + Untold(data)' = sent'
  <2>1. Countable(data) /\ told + Untold(data) = sent
    BY <1>6 DEF AddsInv
  <2>2. Untold(data) \in Int
    BY <1>6, <2>1, UntoldIs
  <2>3. Countable(data)' /\ Untold(data)' = Untold(data) + 1
    BY <1>0, <1>6, <2>1, CountedPacket
  <2>. QED BY <1>0, <2>1, <2>2, <2>3
<1>. QED BY <1>0, <1>1, <1>2, <1>3, <1>4, <1>5, <1>6 DEF AddsInv

\* An export, of all or of what is idle, by a module that is not one of flow statistics
LEMMA TellingAdds ==
  ASSUME AddsInv, now \in Nat, now > 0, ~IsFlowStats, kind' = kind, now' = now, sent' = sent,
         truth' = truth,
         \/ data' = Exported /\ told' = told + (IF kind \in {"count"} THEN 0
                                                ELSE Untold(data) - Untold(data'))
         \/ /\ data' = Reset(Exported) /\ kind # "rtploss"
            /\ told' = told + Untold(data) - Untold(data')
  PROVE  AddsInv'
<1>0. sent \in Nat /\ told \in Int /\ ~IsFlowStats'
  BY DEF AddsInv, IsFlowStats
<1>1. ASSUME kind \in Counting
      PROVE  told' \in Int /\ Countable(data)' /\ told' + Untold(data)' = sent'
  <2>1. Countable(data) /\ told + Untold(data) = sent
    BY <1>1 DEF AddsInv
  <2>2. Countable(data)' /\ (kind = "count" /\ data' = Exported => data' = data)
    BY <1>1, <2>1, CountedExport
  <2>3. Untold(data) \in Int
    BY <1>1, <2>1, UntoldIs
  <2>4. Untold(data)' \in Int
    <3>1. kind' \in Counting /\ Countable(data)'
      BY <1>1, <2>2 DEF Counting
    <3>2. (kind \in Counting /\ Countable(data) => Untold(data) \in Int)'
      BY UntoldIs, PTL
    <3>. QED BY <3>1, <3>2 DEF Counting
  <2>5. Untold(data)' = Untold(data')
    BY DEF Untold
  <2>6. kind = "count" /\ data' = Exported => Untold(data') = Untold(data)
    BY <2>2
  <2>. QED BY <1>0, <2>1, <2>2, <2>3, <2>4, <2>5, <2>6
<1>2. ASSUME kind = "jitter" PROVE told' \in Int /\ TimesAdd(data', sent', told', now')
  <2>1. data' = JitterExport(data)
    <3>1. Exported = JitterExport(data)
      BY <1>2 DEF Exported
    <3>2. \A d : Reset(d) = d
      BY <1>2 DEF Reset
    <3>. QED BY <3>1, <3>2
  <2>2. TimesAdd(data, sent, told, now)
    BY <1>2 DEF AddsInv
  <2>3. TimesAdd(data', sent, told + data.n, now) /\ data'.n = 0
    BY <1>0, <2>1, <2>2, JitterExportAdds
  <2>4. Untold(data) = data.n /\ Untold(data') = data'.n
    BY <1>2 DEF Untold
  <2>5. data.n \in Nat
    BY <2>2 DEF TimesAdd
  <2>6. told' = told + data.n
    BY <1>0, <1>2, <2>3, <2>4, <2>5
  <2>. QED BY <1>0, <2>3, <2>5, <2>6
<1>3. ASSUME kind = "pktlen" PROVE told' \in Int /\ LengthsAdd(data', sent', told')
  <2>1. data' = PktlenExport(data)
    <3>1. Exported = PktlenExport(data)
      BY <1>3 DEF Exported
    <3>2. \A d : Reset(d) = d
      BY <1>3 DEF Reset
    <3>. QED BY <3>1, <3>2
  <2>2. LengthsAdd(data, sent, told)
    BY <1>3 DEF AddsInv
  <2>3. LengthsAdd(data', sent, told + data.n) /\ data'.n = 0
    BY <1>0, <2>1, <2>2, PktlenExportAdds
  <2>4. Untold(data) = data.n /\ Untold(data') = data'.n
    BY <1>3 DEF Untold
  <2>5. data.n \in Nat
    BY <2>2 DEF LengthsAdd
  <2>6. told' = told + data.n
    BY <1>0, <1>3, <2>3, <2>4, <2>5
  <2>. QED BY <1>0, <2>3, <2>5, <2>6
<1>4. ASSUME kind \notin Counting, kind # "jitter", kind # "pktlen" PROVE told' \in Int
  <2>1. \A d : Untold(d) = 0
    BY <1>4 DEF Untold, Counting
  <2>. QED BY <1>0, <2>1
<1>5. ASSUME kind = "rtt_ping" PROVE PingsAdd(data')
  <2>1. Exported = data /\ \A d : Reset(d) = PingReset(d)
    BY <1>5 DEF Exported, Reset
  <2>2. PingsAdd(data)
    BY <1>5 DEF AddsInv
  <2>. QED BY <2>1, <2>2, PingResetAdds
<1>6. ASSUME kind = "port_use" PROVE PortsAdd(data')
  <2>1. Exported = data /\ \A d : Reset(d) = d
    BY <1>6 DEF Exported, Reset
  <2>2. PortsAdd(data)
    BY <1>6 DEF AddsInv
  <2>. QED BY <2>1, <2>2
<1>7. ASSUME kind = "rtploss" PROVE StreamAdds(truth', data')
  <2>1. data' = RtpExport(data)
    BY <1>7 DEF Exported
  <2>2. StreamAdds(truth, data)
    BY <1>7 DEF AddsInv
  <2>3. /\ DOMAIN data' = DOMAIN data
        /\ data'.cycles = data.cycles /\ data'.base = data.base /\ data'.max = data.max
        /\ data'.received = data.received /\ data'.bad = data.bad
        /\ data'.probation = data.probation
    BY <2>1, <2>2 DEF RtpExport, StreamAdds
  <2>. QED BY <2>2, <2>3 DEF StreamAdds
<1>8. told' \in Int
  BY <1>1, <1>2, <1>3, <1>4
<1>. QED BY <1>0, <1>1, <1>2, <1>3, <1>5, <1>6, <1>7, <1>8 DEF AddsInv

\* What flow statistics export is what they had, or is nothing.
LEMMA FlowTellingAdds ==
  ASSUME AddsInv, IsFlowStats, kind' = kind, now' = now, sent' = sent, told' \in Int, now \in Nat,
         \/ data' = data /\ truth' = truth
         \/ /\ data' = Reset(Exported) /\ truth' = Truth(kind, truth.cap)
            /\ kind = "netai_flowstats_dscp_1s" => data.cap > 0
  PROVE  AddsInv'
<1>1. FlowAdds(data, truth) /\ sent' \in Nat /\ told' \in Int
  BY DEF AddsInv
<1>2. CASE data' = data /\ truth' = truth
  <2>1. FlowAdds(data, truth)'
    BY <1>1, <1>2 DEF FlowAdds
  <2>. QED BY <1>1, <2>1 DEF AddsInv, IsFlowStats, FlowStatsKinds, Counting
<1>3. CASE /\ data' = Reset(Exported) /\ truth' = Truth(kind, truth.cap)
           /\ kind = "netai_flowstats_dscp_1s" => data.cap > 0
  <2>1. truth' = [first |-> 0, last |-> 0, n |-> 0, aborted |-> FALSE,
                  cap |-> IF kind = "netai_flowstats_dscp_1s" THEN Second ELSE truth.cap]
    <3>1. kind \in FlowStatsKinds
      BY DEF IsFlowStats
    <3>. QED BY SMT, <1>3, <3>1 DEF Truth, FlowStatsKinds
  <2>2. Exported.cap = data.cap
    <3>1. Exported = ExportData(data)
      BY DEF Exported, IsFlowStats, FlowStatsKinds, ExportDataDscp, ExportDataDscp1s
    <3>. QED BY <3>1 DEF ExportData
  <2>3. \/ data' = Cleared(data.cap, Exported.minDur)
        \/ data' = InitFlowRecDscp(data.cap, Exported.minDur)
    BY <1>3, <2>2
       DEF Reset, IsFlowStats, FlowStatsKinds, ResetFlowRec, ResetFlowRecDscp, ResetFlowRecDscp1s
  <2>4. /\ PeriodsAdd(data') /\ data'.f.n = 0 /\ data'.b.n = 0 /\ data'.first = 0
        /\ GetLast(data') = 0 /\ data'.cap = data.cap
    BY <2>3, ClearedAdds
  <2>5. data.cap \in Nat /\ (kind = "netai_flowstats_dscp_1s" => data.cap = Never)
        /\ (kind # "netai_flowstats_dscp_1s" => truth.cap = data.cap)
    BY <1>1, <1>3 DEF FlowAdds
  <2>6. Second \in Nat
    BY ProcModulesAssumption
  <2>7. FlowAdds(data, truth)'
    BY <2>1, <2>4, <2>5, <2>6 DEF FlowAdds
  <2>. QED BY <1>1, <2>7 DEF AddsInv, IsFlowStats, FlowStatsKinds, Counting
<1>. QED BY <1>2, <1>3

LEMMA NextAdds ==
  ASSUME Exposed = {}, Never >= 2, Never >= Second
  PROVE  StatsInv /\ AddsInv /\ [Next]_vars => AddsInv'
<1> SUFFICES ASSUME StatsInv, AddsInv, [Next]_vars PROVE AddsInv'
  OBVIOUS
<1>0. now \in Nat /\ now > 0 /\ now >= 2 /\ Gaps \subseteq Nat /\ Lengths \subseteq Nat
  BY ProcModulesAssumption DEF StatsInv
<1>1. CASE PacketOfFlow
  <2>1. PICK p \in FlowPackets : p.t >= data.first /\ GapFits(p) /\ Measure(p, FlowTruth(p))
    BY <1>1 DEF PacketOfFlow
  <2>2. p.t \in Times /\ p.reverse \in BOOLEAN /\ p.len = 1
    BY FlowPacketIs
  <2>3. p.t \in Nat /\ p.t > 0 /\ p.t >= now - 1
    <3>1. p.t = now - 1 \/ \E g \in Gaps : p.t = now + g
      BY <2>2 DEF Times
    <3>2. CASE p.t = now - 1
      BY ONLY <1>0, <3>2
    <3>3. CASE \E g \in Gaps : p.t = now + g
      <4>1. PICK g \in Gaps : p.t = now + g
        BY <3>3
      <4>. QED BY ONLY <1>0, <4>1
    <3>. QED BY <3>1, <3>2, <3>3
  <2>4. IsFlowStats /\ FlowFits(data) /\ FlowAdds(data, truth)
    BY <1>1 DEF PacketOfFlow, StatsInv, AddsInv
  <2>5. Timely(data, p)
    BY <2>1, <2>2, <2>3 DEF Timely, GapFits
  <2>6. /\ data' = Process(p) /\ truth' = FlowTruth(p) /\ now' = Max({now, p.t})
        /\ kind' = kind /\ sent' = sent + 1 /\ told' = told
    BY <2>1 DEF Measure
  <2>7. FlowAdds(data, truth)'
    <3>1. CASE kind = "netai_flowstats_dscp_1s"
      BY <1>0, <2>1, <2>3, <2>4, <2>5, <2>6, <3>1, CappedPacketAdds
    <3>2. CASE kind # "netai_flowstats_dscp_1s"
      BY <2>1, <2>4, <2>5, <2>6, <3>2, FlowPacketAdds
    <3>. QED BY <3>1, <3>2
  <2>8. sent' \in Nat /\ told' \in Int
    BY <2>6 DEF AddsInv
  <2>. QED BY <2>4, <2>6, <2>7, <2>8 DEF AddsInv, IsFlowStats, FlowStatsKinds, Counting
<1>2. CASE PacketOfConnection
  <2>1. kind = "tcp" /\ kind' = kind /\ sent' = sent + 1 /\ told' = told
    BY <1>2 DEF PacketOfConnection, Measure
  <2>. QED BY <2>1 DEF AddsInv, IsFlowStats, FlowStatsKinds, Counting
<1>3. CASE PacketOfStream
  <2>1. PICK x \in RtpNumbers : Measure(x[1], x[2])
    BY <1>3 DEF PacketOfStream
  <2>2. kind = "rtploss" /\ kind' = kind /\ sent' = sent + 1 /\ told' = told
    BY <1>3, <2>1 DEF PacketOfStream, Measure
  <2>3. data' = RtpPacket(data, x[1]) /\ truth' = x[2]
    BY <2>1, <2>2 DEF Measure, Process
  <2>4. StreamAdds(truth', data')
    BY <2>2, <2>3, StreamPacketAdds DEF AddsInv
  <2>. QED BY <2>2, <2>4 DEF AddsInv, IsFlowStats, FlowStatsKinds, Counting
<1>4. CASE Ping
  <2>1. PICK g \in Gaps, type \in {0, 8}, id \in {0, 1}, seqno \in {1, 2} :
            Measure([AnyPacket EXCEPT !.t = now + g, !.proto = "ICMP",
                         !.echo = [type |-> type, id |-> id, seqno |-> seqno]], truth)
    BY <1>4 DEF Ping
  <2> DEFINE p == [AnyPacket EXCEPT !.t = now + g, !.proto = "ICMP",
                       !.echo = [type |-> type, id |-> id, seqno |-> seqno]]
  <2>2. p.t \in Nat /\ p.t >= now /\ p.len \in Nat
    BY <1>0 DEF AnyPacket
  <2>3. Measure(p, truth)
    BY <2>1
  <2>. HIDE DEF p
  <2>4. ~IsFlowStats /\ kind # "rtploss"
    BY <1>4 DEF Ping, IsFlowStats, FlowStatsKinds
  <2>5. Taken(p)
    BY <1>0, <2>2, <2>3, MeasureTakes
  <2>. QED BY <1>0, <2>4, <2>5, TakenAdds
<1>5. CASE PacketOfRule
  <2>1. PICK g \in IF kind \in {"jitter", "bandwidth"} THEN Gaps ELSE {1},
             n \in Lengths, q \in Ports \cup {"none"} :
            Measure([AnyPacket EXCEPT !.t = now + g, !.len = n, !.port = q], truth)
    BY <1>5 DEF PacketOfRule
  <2> DEFINE p == [AnyPacket EXCEPT !.t = now + g, !.len = n, !.port = q]
  <2>2. p.t \in Nat /\ p.t >= now /\ p.len \in Nat
    BY <1>0 DEF AnyPacket
  <2>3. Measure(p, truth)
    BY <2>1
  <2>. HIDE DEF p
  <2>4. ~IsFlowStats /\ kind # "rtploss"
    BY <1>5 DEF PacketOfRule
  <2>5. Taken(p)
    BY <1>0, <2>2, <2>3, MeasureTakes
  <2>. QED BY <1>0, <2>4, <2>5, TakenAdds
<1>6. CASE Export
  <2>1. /\ UNCHANGED <<kind, now, sent, truth, asked>> /\ data' = Exported
        /\ told' = told + (IF kind \in {"count"} THEN 0 ELSE Untold(data) - Untold(data'))
    BY <1>6 DEF Export
  <2>2. CASE IsFlowStats
    <3>1. data' = data
      <4>1. Silent(data)
        BY <1>6, <2>2 DEF Export
      <4>2. Exported = ExportData(data)
        BY <2>2 DEF Exported, IsFlowStats, FlowStatsKinds, ExportDataDscp, ExportDataDscp1s
      <4>. QED BY <2>1, <4>1, <4>2 DEF ExportData
    <3>2. told' \in Int
      <4>1. kind # "count" /\ \A d : Untold(d) = 0
        BY <2>2 DEF Untold, IsFlowStats, FlowStatsKinds
      <4>. QED BY <2>1, <4>1 DEF AddsInv
    <3>. QED BY <1>0, <2>1, <2>2, <3>1, <3>2, FlowTellingAdds
  <2>3. CASE ~IsFlowStats
    BY <1>0, <2>1, <2>3, TellingAdds
  <2>. QED BY <2>2, <2>3
<1>7. CASE ExportIdle
  <2>1. /\ UNCHANGED <<kind, now, sent, asked>> /\ data' = Reset(Exported) /\ kind # "rtploss"
        /\ told' = told + Untold(data) - Untold(data')
        /\ truth' = IF IsFlowStats THEN Truth(kind, truth.cap) ELSE truth
        /\ kind = "netai_flowstats_dscp_1s" => data.cap > 0
    BY <1>7 DEF ExportIdle
  <2>2. CASE IsFlowStats
    <3>1. told' \in Int
      <4>1. \A d : Untold(d) = 0
        BY <2>2 DEF Untold, IsFlowStats, FlowStatsKinds
      <4>. QED BY <2>1, <4>1 DEF AddsInv
    <3>. QED BY <1>0, <2>1, <2>2, <3>1, FlowTellingAdds
  <2>3. CASE ~IsFlowStats
    BY <1>0, <2>1, <2>3, TellingAdds
  <2>. QED BY <2>2, <2>3
<1>8. CASE Timeout
  <2>1. /\ kind = "bandwidth" /\ data' = BandwidthTimeout(data)
        /\ kind' = kind /\ sent' = sent /\ told' = told
    BY <1>8 DEF Timeout
  <2>2. Countable(data) /\ told + Untold(data) = sent
    BY <2>1 DEF AddsInv, Counting
  <2>3. Countable(data)' /\ Untold(data)' = Untold(data)
    BY <2>1, <2>2, CountedTimeout
  <2>. QED BY <2>1, <2>2, <2>3 DEF AddsInv, IsFlowStats, FlowStatsKinds
<1>9. CASE UNCHANGED vars
  BY <1>9 DEF vars, AddsInv, IsFlowStats, FlowAdds, Countable, Untold
<1>. QED BY <1>1, <1>2, <1>3, <1>4, <1>5, <1>6, <1>7, <1>8, <1>9 DEF Next

LEMMA AddsUp == AddsInv /\ StatsInv => MeasuresAddUp
<1> SUFFICES ASSUME AddsInv, StatsInv PROVE MeasuresAddUp
  OBVIOUS
<1>1. CASE IsFlowStats
  <2>1. FlowAdds(data, truth)
    BY <1>1 DEF AddsInv
  <2>2. /\ data.f.n + data.b.n = truth.n
        /\ data.active.sum + GetLast(data) - data.lactive + data.idle.sum
               = GetLast(data) - data.first
    BY <2>1 DEF FlowAdds, PeriodsAdd
  <2>. QED BY <1>1, <2>2 DEF MeasuresAddUp, IsFlowStats, FlowStatsKinds
<1>2. CASE kind = "rtploss" /\ data.probation = 0
  <2> DEFINE c == Cardinality(truth.got)
  <2>1. /\ data.base = truth.first - 1 /\ data.cycles + data.max = truth.high
        /\ data.received = c + truth.dups
        /\ truth.first \in Nat /\ truth.high \in Nat /\ truth.dups \in Nat
        /\ truth.got \subseteq truth.first .. truth.high
        /\ \E k \in Nat : data.cycles = k * RTP_SEQ_MOD
        /\ data.max \in 0 .. RTP_SEQ_MOD - 1
    BY <1>2 DEF AddsInv, StreamAdds
  <2>2. c \in Nat
    <3>1. IsFiniteSet(truth.first .. truth.high)
      <4>1. truth.first \in Int /\ truth.high \in Int
        BY <2>1
      <4>. QED BY ONLY <4>1, FS_Interval
    <3>. QED BY <2>1, <3>1, FS_Subset, FS_CardinalityType
  <2>3. data.cycles \in Int /\ data.max \in Int
    BY <2>1, MeasurementsAssumption
  <2>. HIDE DEF c
  <2>4. RtpLoss(data) = data.cycles + data.max - data.base + 1 - data.received
    BY ONLY <2>1, <2>2, <2>3 DEF RtpLoss, RtpExpected
  <2>5. RtpLoss(data) + truth.dups = 1 + truth.high - truth.first + 1 - c
    BY ONLY <2>1, <2>2, <2>3, <2>4
  <2>. QED BY <1>2, <2>5 DEF MeasuresAddUp, IsFlowStats, FlowStatsKinds, c
<1>3. CASE kind = "jitter"
  BY <1>3 DEF MeasuresAddUp, AddsInv, TimesAdd, Between, MeanInRange, IsFlowStats, FlowStatsKinds
<1>4. CASE kind = "rtt_ping"
  BY <1>4 DEF MeasuresAddUp, AddsInv, PingsAdd, Between, MeanInRange, IsFlowStats, FlowStatsKinds
<1>5. CASE kind = "port_use"
  <2>1. PortsAdd(data)
    BY <1>5 DEF AddsInv
  <2>. QED BY <1>5, <2>1, RestIs DEF MeasuresAddUp, IsFlowStats, FlowStatsKinds
<1>6. CASE kind = "pktlen"
  BY <1>6 DEF MeasuresAddUp, AddsInv, LengthsAdd, Between, MeanInRange, IsFlowStats, FlowStatsKinds
<1>7. CASE kind \in Counting
  BY <1>7 DEF MeasuresAddUp, AddsInv, Counting, IsFlowStats, FlowStatsKinds
<1>8. CASE kind = "tcp" \/ (kind = "rtploss" /\ data.probation # 0)
  BY <1>8 DEF MeasuresAddUp, IsFlowStats, FlowStatsKinds
<1>9. kind \in Modules
  BY DEF StatsInv
<1>. QED
  BY <1>1, <1>2, <1>3, <1>4, <1>5, <1>6, <1>7, <1>8, <1>9, ProcModulesAssumption
     DEF IsFlowStats, Counting

\* Nothing is measured twice or forgotten, for any number of packets in any
\* order, of exports and of timeouts: periods are the duration, bytes those of
\* the ports, the loss what is missing of the stream, and each packet is in
\* one export.  It needs what AssertionsAreTrue needs, and that the capped
\* module has no time cap but its own second.
THEOREM NothingIsLost ==
  ASSUME Exposed = {}, Never >= 2, Never >= Second
  PROVE  Spec => []MeasuresAddUp
<1>1. Init => StatsInv /\ AddsInv
  BY InitStats, InitAdds
<1>2. StatsInv /\ AddsInv /\ [Next]_vars => StatsInv' /\ AddsInv'
  BY NextStats, NextAdds
<1>. QED BY <1>1, <1>2, AddsUp, PTL DEF Spec
=============================================================================
