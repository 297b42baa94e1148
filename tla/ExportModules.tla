---------------------------- MODULE ExportModules ----------------------------
(***************************************************************************)
(* The export modules at work: rules with export records come and go, flow *)
(* records are handed to every export module of their rule, and the timer  *)
(* of the modules that collect rows for a socket runs.  What a module keeps *)
(* for all rules (the rows not sent yet, the last socket, the connections) *)
(* is shared by the rules that use it.                                     *)
(***************************************************************************)
EXTENDS ExportSockets

CONSTANTS
    Rules,
    Confs,          \* each rule's [metrics, exports]; an export is
                    \* [module, dest, multi, flowId]
    Infos,          \* what the processing modules declare to export
    KeyTypes,       \* of a flow's key
    Dests,          \* hosts
    MaxExports,     \* export modules of a rule (bound)
    MaxRecords,     \* flow records, of all rules (bound)
    MaxRows,        \* rows of a list of variable length (bound)
    Exposed         \* situations, excluded otherwise, that break properties

FileModules == {"text_file", "ctext_file", "ac_file", "netai_arff", "bin_file"}
SocketModules == {"ac_udp", "netai_socket"}
AllModules == FileModules \cup SocketModules \cup {"ipfix"}

ASSUME ExportModulesAssumption ==
    /\ DefaultDest \in Dests /\ IsFiniteSet(Rules) /\ MaxExports \in Nat \ {0}
    /\ \A c \in Confs, r \in Rules :
          /\ c[r].metrics \in Seq(DOMAIN Infos)
          /\ c[r].exports \in Seq([module : AllModules, dest : Dests, multi : BOOLEAN, flowId : BOOLEAN])
          /\ Len(c[r].exports) <= MaxExports
    /\ Exposed \subseteq {"two hosts", "rows left", "last socket closed", "empty list", "key after rows", "no width"}

None == [fd |-> -1, first |-> FALSE]

VARIABLES
    conf,           \* the rules' configuration
    recs,           \* export records, by rule and place: [fd, first]; fd: of a
                    \* socket, or ipfix's connection
    files,          \* what the files hold
    sent,           \* what the hosts have received
    netBuffer,      \* of the modules with a socket: rows not sent yet
    lastFd,         \* the socket opened last
    idle,           \* lastExport is a second ago
    fds,            \* sockets: the host they lead to, or Closed
    conns,          \* ipfix: [ref, dest]
    due,            \* each export's rows, as the processing modules wrote them
    seen,           \* flows that have been in a flow record
    records,        \* flow records so far
    died            \* a module has ended the process
shared == <<recs, files, sent, netBuffer, lastFd, idle, fds, conns, died>>
vars == <<conf, shared, due, seen, records>>

Exports(r) == conf[r].exports
Uses == {<<r, i>> : r \in Rules, i \in 1..MaxExports}
Configured == {u \in Uses : u[2] \in DOMAIN Exports(u[1])}
Of(u) == Exports(u[1])[u[2]]
Open(rs) == {u \in Configured : rs[u] # None}

Now == [recs |-> recs, files |-> files, sent |-> sent, buf |-> netBuffer, last |-> lastFd,
        idle |-> idle, fds |-> fds, conns |-> conns, died |-> died]
Becomes(w) ==
    /\ recs' = w.recs /\ files' = w.files /\ sent' = w.sent /\ netBuffer' = w.buf
    /\ lastFd' = w.last /\ idle' = w.idle /\ fds' = w.fds /\ conns' = w.conns /\ died' = w.died

-----------------------------------------------------------------------------
(* A flow record goes to each export module of its rule, from the start. *)

\* exportData of a module, for the data of one processing module
ExportMetric(w, u, x, md) ==
    CASE x.module = "text_file" -> TextExport(w, u, x, md)
      [] x.module = "ctext_file" -> CTextExport(w, u, x, md)
      [] x.module = "ac_file" -> AcExport(w, u, x, md)
      [] x.module = "netai_arff" -> ArffExport(w, u, x, md)
      [] x.module = "bin_file" -> BinExport(w, u, x, md)
      [] x.module = "ac_udp" -> UdpExport(w, u, x, md)
      [] x.module = "netai_socket" -> SocketExport(w, u, x, md)
      [] x.module = "ipfix" -> IpfixExport(w, u, x, md)

\* acc: what the modules share, and the flow record, a sequence of MetricData
ExportNext(acc, u, i) ==
    LET r == ExportMetric(acc.w, u, Of(u), acc.frec[i])
    IN  [w |-> r.w, frec |-> [acc.frec EXCEPT ![i] = r.md]]

ExportData(acc, u) ==
    FoldLeft(LAMBDA a, i : ExportNext(a, u, i), acc, [i \in DOMAIN acc.frec |-> i])

ExportFlowRecord(w, r, frec) ==
    FoldLeft(LAMBDA acc, i : ExportData(acc, <<r, i>>), [w |-> w, frec |-> frec],
             [i \in DOMAIN Exports(r) |-> i])

-----------------------------------------------------------------------------
(* Modules are initialised for the first rule, destroyed after the last. *)

InUse(w, m) == \E u \in Open(w.recs) : Of(u).module = m

InitModule(w, m) ==
    CASE ~InUse(w, m) /\ m = "ipfix" -> IpfixInitModule(w)
      [] ~InUse(w, m) /\ m \in SocketModules -> [w EXCEPT !.buf[m] = <<>>, !.last[m] = 0]
      [] OTHER -> w

DestroyModule(w, m) ==
    CASE ~InUse(w, m) /\ m = "ipfix" -> CloseAllConn(w)
      [] ~InUse(w, m) /\ m = "ac_udp" -> UdpDestroyModule(w)
      [] ~InUse(w, m) /\ m = "netai_socket" -> [w EXCEPT !.buf[m] = <<>>]
      [] OTHER -> w

InitExportRec(w, u) ==
    LET m == Of(u).module
        s == InitModule(w, m)
    IN  CASE m = "text_file" -> TextInit(s, u)
          [] m = "ctext_file" -> CTextInit(s, u)
          [] m = "ac_file" -> AcInit(s, u)
          [] m = "netai_arff" -> ArffInit(s, u)
          [] m = "bin_file" -> BinInit(s, u)
          [] m = "ac_udp" -> UdpInit(s, u, Of(u))
          [] m = "netai_socket" -> SocketInit(s, u, Of(u))
          [] m = "ipfix" -> IpfixInit(s, u, Of(u))

DestroyExportRec(w, u) ==
    LET m == Of(u).module
        s == CASE m = "ac_udp" -> UdpDestroy(w, u)
               [] m = "netai_socket" -> SocketDestroy(w, u)
               [] m = "ipfix" -> IpfixDestroy(w, u)
               [] OTHER -> w
    IN  DestroyModule([s EXCEPT !.recs[u] = None], m)

ForExports(Op(_, _), w, r) ==
    FoldLeft(LAMBDA acc, i : Op(acc, <<r, i>>), w, [i \in DOMAIN Exports(r) |-> i])

-----------------------------------------------------------------------------
(* Situations in which rows get lost, go astray, or are not understood *)

Modules(w) == {Of(u).module : u \in Open(w.recs)}
Waiting(m) == netBuffer[m] # <<>>

\* Rules export through one socket module to different hosts.
TwoHosts(r) ==
    \E u, v \in Open(recs) \cup {x \in Configured : x[1] = r} :
        Of(u).module = Of(v).module /\ Of(u).module \in SocketModules /\ Of(u).dest # Of(v).dest

\* ac_udp: a rule goes while rows wait.
RowsLeft(r) == \E i \in DOMAIN Exports(r) : Exports(r)[i].module = "ac_udp" /\ Waiting("ac_udp")

\* The socket that was opened last is closed before others.
LastSocketClosed(r) ==
    \E i \in DOMAIN Exports(r), u \in Open(recs) :
        /\ u[1] # r /\ Exports(r)[i].module = Of(u).module /\ Of(u).module \in SocketModules
        /\ recs[<<r, i>>].fd = lastFd[Of(u).module]

Cuts(r) == \E i \in DOMAIN Exports(r) : Exports(r)[i].module \in {"bin_file", "ipfix"}
Keyed(r) == \E i \in DOMAIN Exports(r) : Exports(r)[i].module = "ipfix"

\* ipfix: the rule's data has columns whose type has no width of its own.
NoWidth(r) ==
    /\ Keyed(r)
    /\ \E name \in ToSet(conf[r].metrics) : ToSet(Infos[name]) \cap {"STRING", "BINARY"} # {}

-----------------------------------------------------------------------------
Init ==
    /\ conf \in Confs
    /\ recs = [u \in Uses |-> None]
    /\ files = [f \in {FileOf(Of(u), [name |-> n]) : u \in Configured, n \in DOMAIN Infos} |-> <<>>]
    /\ sent = [d \in Dests |-> <<>>]
    /\ netBuffer = [m \in SocketModules |-> <<>>]
    /\ lastFd = [m \in SocketModules |-> 0]
    /\ idle = [m \in SocketModules |-> TRUE]
    /\ fds = [f \in 1..MaxExports * Cardinality(Rules) |-> Closed]
    /\ conns = NoConns
    /\ due = [u \in Uses |-> <<>>]
    /\ seen = {}
    /\ records = 0
    /\ died = FALSE

AddRule(r) ==
    /\ ~died /\ \A u \in Open(recs) : u[1] # r
    /\ "two hosts" \notin Exposed => ~TwoHosts(r)
    /\ Becomes(ForExports(InitExportRec, Now, r))
    /\ UNCHANGED <<conf, due, seen, records>>

RemoveRule(r) ==
    /\ ~died /\ <<r, 1>> \in Open(recs)
    /\ "rows left" \notin Exposed => ~RowsLeft(r)
    /\ "last socket closed" \notin Exposed => ~LastSocketClosed(r)
    /\ Becomes(ForExports(DestroyExportRec, Now, r))
    /\ seen' = {id \in seen : id[1] # r}
    /\ UNCHANGED <<conf, due, records>>

\* The values of a list: their names tell where they belong.
Value(t, n, p) ==
    [type |-> t, len |-> IF t \in {"STRING", "BINARY"} THEN 1 + p[2] ELSE 0, val |-> <<n, p>>]
Table(list, n, id, l, rows) ==
    [i \in 1..(IF list.variable THEN rows ELSE 1) |->
        [c \in DOMAIN list.cols |-> Value(list.cols[c], n, <<id, i, l, c>>)]]

\* PacketProcessor::exportRule: the data of a rule's flows, new ones among them,
\* by processing module; only the first is told that a flow is new.
FlowIds(r, shape) == [f \in 1..shape.flows |-> <<r, f>>]
FlowRecord(r, n, shape) ==
    [k \in DOMAIN conf[r].metrics |->
        LET name == conf[r].metrics[k]
            lists == ExportLists(Infos[name])
            empty == [name |-> name, lists |-> lists, flows |-> <<>>]
        IN  FoldLeft(LAMBDA md, id : AddFlowData(md, id, id \notin seen /\ k = 1,
                         [t \in DOMAIN KeyTypes |-> Value(KeyTypes[t], 0, <<id, 0, 0, t>>)],
                         Written(lists, [l \in DOMAIN lists |->
                             Table(lists[l], n, id, l, IF k = 1 THEN shape.rows ELSE MaxRows)]).mem),
                     empty, FlowIds(r, shape))]

\* The rows of a record, as they were written.
RowsOf(u, n, shape) ==
    LET r == u[1]
        Row(k, list, id, l, i) ==
            [kind |-> "row", rule |-> r, metric |-> conf[r].metrics[k], flow |-> id, cols |-> list.cols, flowId |-> Of(u).flowId,
             key |-> IF Of(u).module = "ipfix" THEN <<>>
                     ELSE [t \in DOMAIN KeyTypes |-> Value(KeyTypes[t], 0, <<id, 0, 0, t>>)],
             vals |-> [c \in DOMAIN list.cols |-> Value(list.cols[c], n, <<id, i, l, c>>)]]
        OfList(k, list, l, rows) ==
            FlattenSeq([f \in 1..shape.flows |->
                [i \in 1..(IF list.variable THEN rows ELSE 1) |-> Row(k, list, <<r, f>>, l, i)]])
        OfMetric(k) ==
            LET lists == ExportLists(Infos[conf[r].metrics[k]])
            IN  FlattenSeq([l \in DOMAIN lists |->
                    OfList(k, lists[l], l, IF k = 1 THEN shape.rows ELSE MaxRows)])
    IN  FlattenSeq([k \in DOMAIN conf[r].metrics |-> OfMetric(k)])

\* bin_file starts its file anew for each export record.
Anew(u) == Of(u).module = "bin_file" /\ recs[u].first
Shapes == [flows : 1..2, rows : 0..MaxRows]

ExportRule(r) ==
    /\ ~died /\ <<r, 1>> \in Open(recs) /\ records < MaxRecords
    /\ "no width" \notin Exposed => ~NoWidth(r)
    /\ \E shape \in Shapes :
        /\ "empty list" \notin Exposed => ~(Cuts(r) /\ Len(ExportLists(Infos[conf[r].metrics[1]])) > 1
                                            /\ shape.rows = 0)
        /\ "key after rows" \notin Exposed => ~(Keyed(r) /\ shape.rows = 0)
        /\ Becomes(ExportFlowRecord(Now, r, FlowRecord(r, records, shape)).w)
        /\ seen' = seen \cup ToSet(FlowIds(r, shape))
        /\ due' = [u \in Uses |-> IF u[1] = r /\ u \in Configured
                                  THEN (IF Anew(u) THEN <<>> ELSE due[u]) \o RowsOf(u, records, shape)
                                  ELSE due[u]]
    /\ records' = records + 1
    /\ UNCHANGED conf

\* A module's timer; between two that change something, time passes.
Timeout(m) ==
    /\ ~died /\ m \in Modules(Now)
    /\ Becomes(IF m = "ac_udp" THEN UdpTimeout(Now) ELSE SocketTimeout(Now))
    /\ UNCHANGED <<conf, due, seen, records>>

SecondPasses(m) ==
    /\ m \in Modules(Now) /\ ~idle[m] /\ idle' = [idle EXCEPT ![m] = TRUE]
    /\ UNCHANGED <<conf, recs, files, sent, netBuffer, lastFd, fds, conns, died, due, seen, records>>

Next == \/ \E r \in Rules : AddRule(r) \/ RemoveRule(r) \/ ExportRule(r)
        \/ \E m \in SocketModules : Timeout(m) \/ SecondPasses(m)

\* Time passes, and the scheduler fires the timers of loaded modules.
Fairness == \A m \in SocketModules : WF_vars(SecondPasses(m)) /\ WF_vars(Timeout(m))
Spec == Init /\ [][Next]_vars /\ Fairness

-----------------------------------------------------------------------------
\* A rule's rows of one processing module at the destination, and those that wait.
RowsFrom(seq, u, name) ==
    SelectSeq(seq, LAMBDA e : e.kind = "row" /\ e.rule = u[1] /\ e.metric = name)
Arrived(u, name) ==
    LET m == Of(u).module
    IN  CASE m \in SocketModules -> RowsFrom(sent[Of(u).dest] \o netBuffer[m], u, name)
          [] m = "ipfix" -> RowsFrom(sent[Of(u).dest], u, name)
          [] OTHER -> RowsFrom(files[FileOf(Of(u), [name |-> name])], u, name)

\* Each row that a processing module wrote reaches the file or host its rule
\* asks for, once, with every value and the flow's key as they were written,
\* in order, or waits to be sent there.
RowsArrive ==
    \A u \in Configured : \A name \in ToSet(conf[u[1]].metrics) :
        Arrived(u, name) = RowsFrom(due[u], u, name)

\* What is needed to read a row stands before it: in a file with headers the
\* last one names the row's columns, and an ipfix collector has received the
\* key of the row's flow.
RowsAreDescribed ==
    /\ \A u \in Configured : Of(u).module \in {"text_file", "netai_arff"} =>
        \A f \in {g \in DOMAIN files : g[1] = Of(u).dest} : \A i \in DOMAIN files[f] :
            files[f][i].kind = "row" /\ files[f][i].rule = u[1] =>
                \E h \in 1..i : /\ files[f][h].kind = "header"
                                /\ \A k \in h + 1..i : files[f][k].kind # "header"
                                /\ files[f][h].cols = files[f][i].cols
                                /\ files[f][h].flowId = files[f][i].flowId
    /\ \A u \in Configured : Of(u).module = "ipfix" =>
        LET got == sent[Of(u).dest]
        IN  \A i \in DOMAIN got : got[i].kind = "row" /\ got[i].rule = u[1] =>
                \E k \in 1..i : got[k].kind = "key" /\ got[k].flow = got[i].flow

\* ipfix: a connection's references are the export records that use it, and
\* one for the configured collector; each leads where its users want to go.
ConnectionsCounted ==
    LET users == {u \in Open(recs) : Of(u).module = "ipfix"}
    IN  ~died => /\ \A c \in DOMAIN conns :
                        conns[c].ref = Cardinality({u \in users : recs[u].fd = c})
                                       + IF c = 0 /\ users # {} THEN 1 ELSE 0
                 /\ \A u \in users : conns[recs[u].fd].dest = Of(u).dest

\* Rows that wait for a packet to be full are sent all the same, as long as
\* the module is used.
EveryRowSent ==
    \A m \in SocketModules : netBuffer[m] # <<>> ~> netBuffer[m] = <<>> \/ died
=============================================================================
