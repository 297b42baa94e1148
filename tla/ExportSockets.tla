---------------------------- MODULE ExportSockets ----------------------------
(***************************************************************************)
(* The export modules that send: ac_udp and netai_socket collect rows of   *)
(* all rules in one buffer and send it through a socket of one of them;    *)
(* ipfix shares connections between the rules that want the same collector *)
(* and counts their users.                                                 *)
(***************************************************************************)
EXTENDS ExportFiles

CONSTANTS
    DefaultDest,    \* ipfix: the collector of the configuration
    BufferRows,     \* rows that fit into netBuffer
    MaxConn         \* ipfix: connections

ASSUME ExportSocketsAssumption ==
    BufferRows \in Nat \ {0} /\ MaxConn \in Nat \ {0} /\ LongBytes \in {4, 8}

Closed == "closed"
Lowest(S) == CHOOSE x \in S : \A y \in S : x <= y

-----------------------------------------------------------------------------
(* What ac_udp and netai_socket have in common *)

\* send: all that was collected, through socket fd; to nobody if it is closed
SendBuffer(w, m, fd) ==
    [w EXCEPT !.sent = IF fd # 0 /\ w.fds[fd] # Closed
                       THEN [@ EXCEPT ![w.fds[fd]] = @ \o w.buf[m]] ELSE @,
              !.buf[m] = <<>>]

\* A row that does not fit any more is the first of the next buffer.
Collect(w, e, m, fd) ==
    IF Len(w.buf[m]) + 1 > BufferRows THEN [SendBuffer(w, m, fd) EXCEPT !.buf[m] = <<e>>]
    ELSE [w EXCEPT !.buf[m] = Append(@, e)]

Collected(w, u, m, lines) ==
    LET c == FoldLeft(LAMBDA acc, e : Collect(acc, e, m, w.recs[u].fd), w, lines)
    IN  [w EXCEPT !.sent = c.sent, !.buf = c.buf, !.idle[m] = FALSE]

\* initNetwork: a socket connected to the host, and the module's last one
Connected(w, u, m, dest) ==
    LET fd == Lowest({f \in DOMAIN w.fds : w.fds[f] = Closed})
    IN  [w EXCEPT !.fds[fd] = dest, !.last[m] = fd, !.recs[u] = [fd |-> fd, first |-> TRUE]]

-----------------------------------------------------------------------------
(* ac_udp *)

UdpOpen(w, u, x) == Connected(w, u, "ac_udp", x.dest)
UdpInit(w, u, x) == UdpOpen(w, u, x)
UdpDestroy(w, u) == [w EXCEPT !.fds[w.recs[u].fd] = Closed]
UdpDestroyModule(w) == IF w.buf["ac_udp"] # <<>> THEN SendBuffer(w, "ac_udp", w.last["ac_udp"]) ELSE w
UdpValue(v) == AsLong(v)
UdpMetricData(md) == Walk(md, "rows")
UdpExport(w, u, x, md) ==
    LET r == UdpMetricData(md)
    IN  [w |-> Collected(w, u, "ac_udp", Lines(u, x, md, Printed(r.out, UdpValue))), md |-> r.md]

\* Mutant of UdpTimeout: the test for the second that has passed is turned round.
UdpTimeoutEarly(w) ==
    IF w.buf["ac_udp"] # <<>> /\ ~w.idle["ac_udp"]
    THEN [SendBuffer(w, "ac_udp", w.last["ac_udp"]) EXCEPT !.idle["ac_udp"] = FALSE] ELSE w

\* Once a second: what has waited for a second is sent.
UdpTimeout(w) ==
    IF w.buf["ac_udp"] # <<>> /\ w.idle["ac_udp"]
    THEN [SendBuffer(w, "ac_udp", w.last["ac_udp"]) EXCEPT !.idle["ac_udp"] = FALSE] ELSE w

-----------------------------------------------------------------------------
(* netai_socket *)

SocketOpen(w, u, x) == Connected(w, u, "netai_socket", x.dest)
SocketInit(w, u, x) == SocketOpen(w, u, x)

\* Mutant of SocketDestroy: rows that were collected go with the socket.
SocketDestroyUnsent(w, u) == [w EXCEPT !.buf["netai_socket"] = <<>>, !.fds[w.recs[u].fd] = Closed]

SocketDestroy(w, u) ==
    LET s == IF w.buf["netai_socket"] # <<>> THEN SendBuffer(w, "netai_socket", w.recs[u].fd) ELSE w
    IN  [s EXCEPT !.fds[w.recs[u].fd] = Closed]

SocketValue(v) == v
SocketMetricData(md) == Walk(md, "rows")
SocketExport(w, u, x, md) ==
    LET r == SocketMetricData(md)
    IN  [w |-> Collected(w, u, "netai_socket", Lines(u, x, md, Printed(r.out, SocketValue))), md |-> r.md]
SocketTimeout(w) ==
    IF w.buf["netai_socket"] # <<>> /\ w.idle["netai_socket"]
    THEN [SendBuffer(w, "netai_socket", w.last["netai_socket"]) EXCEPT !.idle["netai_socket"] = FALSE]
    ELSE w

-----------------------------------------------------------------------------
(* ipfix *)

NoConns == [c \in 0..MaxConn - 1 |-> [ref |-> 0, dest |-> Closed]]
OpenConn(w, c, dest) == [w EXCEPT !.conns[c] = [ref |-> @.ref + 1, dest |-> dest]]
CloseAllConn(w) == [w EXCEPT !.conns = NoConns]
IpfixInitModule(w) == OpenConn(CloseAllConn(w), 0, DefaultDest)

ConnsTo(w, dest) == {c \in DOMAIN w.conns : w.conns[c].ref > 0 /\ w.conns[c].dest = dest}
UnusedConns(w) == {c \in DOMAIN w.conns : w.conns[c].ref = 0}

\* Mutant of IpfixInit: a connection that is found is not counted.
IpfixInitUncounted(w, u, x) ==
    LET old == ConnsTo(w, x.dest)
        c == Lowest(IF old # {} THEN old ELSE UnusedConns(w))
    IN  [(IF old # {} THEN w ELSE OpenConn(w, c, x.dest)) EXCEPT !.recs[u] = [fd |-> c, first |-> TRUE]]

\* A connection that leads there already, or one that is not used; the end of
\* the process if there is none.
IpfixInit(w, u, x) ==
    LET old == ConnsTo(w, x.dest)
        c == Lowest(IF old # {} THEN old ELSE UnusedConns(w))
    IN  IF old \cup UnusedConns(w) = {} THEN [w EXCEPT !.died = TRUE]
        ELSE [OpenConn(w, c, x.dest) EXCEPT !.recs[u] = [fd |-> c, first |-> TRUE]]

IpfixDestroy(w, u) == [w EXCEPT !.conns[w.recs[u].fd].ref = @ - 1]

\* The template has the width of the type, from where the value starts: of a
\* binary its length arrives and none of its bytes, of a string nothing.
IpfixValue(v) ==
    CASE v.type = "BINARY" -> [v EXCEPT !.val = Garbage]
      [] v.type = "STRING" -> [v EXCEPT !.len = 0, !.val = Garbage]
      [] OTHER -> v
IpfixMetricData(md) == Walk(md, "keys")
IpfixExport(w, u, x, md) ==
    LET r == IpfixMetricData(md)
    IN  [w |-> [w EXCEPT !.sent[w.conns[w.recs[u].fd].dest] = @ \o Lines(u, x, md, Printed(r.out, IpfixValue))],
         md |-> r.md]
=============================================================================
