------------------------------ MODULE FlowStats ------------------------------
(***************************************************************************)
(* The processing module netai_flowstats and its variants _dscp and        *)
(* _dscp_1s: the data of a flow and what the functions of the module's     *)
(* interface do to it.  ProcModules calls them.                            *)
(*                                                                         *)
(* A distribution (packet lengths, times between packets, active and idle  *)
(* periods) is a record of its count, sum, minimum and maximum; sums of    *)
(* squares, and the counters of flags and header bytes, are left out.  A   *)
(* minimum of 0 stands for "none yet", as times of 0 do.                   *)
(***************************************************************************)
EXTENDS Integers, FiniteSetsExt

CONSTANTS IdleThreshold,  \* a longer silence ends an active period
          Word            \* 2^32: the width of the times between packets

ASSUME FlowStatsAssumption == IdleThreshold \in Nat /\ Word \in Nat \ {0}

NoValues == [n |-> 0, sum |-> 0, min |-> 0, max |-> 0]

\* Another value x; the smallest and the largest are kept in words of size w.
Sampled(s, x, w) ==
    [n |-> s.n + 1,
     sum |-> s.sum + x,
     min |-> IF x < s.min \/ s.min = 0 THEN x % w ELSE s.min,
     max |-> IF x > s.max THEN x % w ELSE s.max]

\* Values that are as wide as their variables.
Measured(s, x) == Sampled(s, x, x + 1)

NoPackets == [n |-> 0, len |-> NoValues, iat |-> NoValues, last |-> 0]

\* resetFlowRec clears all but the parameters
Cleared(cap, minDur) ==
    [f |-> NoPackets, b |-> NoPackets, first |-> 0, lactive |-> 0,
     periods |-> 0, active |-> NoValues, idle |-> NoValues,
     cstate |-> "INITIAL", sstate |-> "INITIAL",
     valid |-> FALSE, hasData |-> FALSE, cap |-> cap, minDur |-> minDur]

ResetFlowRec(d) == Cleared(d.cap, d.minDur)

InitFlowRec(cap, minDur) == Cleared(cap, minDur)

\* getLast: the time of the last packet in the active period
GetLast(d) == Max({d.f.last, d.b.last})

-----------------------------------------------------------------------------
(* TCP connections *)

\* A move of one end's state: from, the flags needed, if the packet is from
\* this end, to.
Moves == {<<"INITIAL", {"SYN"}, TRUE, "SYN">>,
          <<"SYN", {"SYN", "ACK"}, FALSE, "SYNACK">>,
          <<"SYNACK", {"ACK"}, TRUE, "ESTABLISHED">>,
          <<"FIN", {"ACK"}, FALSE, "CLOSED">>}

\* Mutant of UpdateState: who sent the acknowledgement does not matter.
UpdateStateAnySide(state, flags, own) ==
    IF "RST" \in flags THEN "CLOSED"
    ELSE IF state = "FIN" /\ "ACK" \in flags THEN "CLOSED"
    ELSE IF "FIN" \in flags /\ own THEN "FIN"
    ELSE state

\* updateState; own is dir == pdir
UpdateState(state, flags, own) ==
    LET moves == {m \in Moves : m[1] = state /\ m[2] \subseteq flags /\ m[3] = own}
    IN  CASE "RST" \in flags -> "CLOSED"
          [] "FIN" \in flags /\ own /\ "RST" \notin flags -> "FIN"
          [] OTHER -> IF moves = {} THEN state ELSE (CHOOSE m \in moves : TRUE)[4]

Closed(d) == d.cstate = "CLOSED" /\ d.sstate = "CLOSED"

\* What the packet's protocol says of the flow: the states of the two ends,
\* and if the flow is worth a record.
Judged(d, p) ==
    IF p.proto = "TCP"
    THEN LET c == UpdateState(d.cstate, p.flags, ~p.reverse)
             s == UpdateState(d.sstate, p.flags, p.reverse)
             data == d.hasData
                     \/ (~d.valid /\ p.data /\ "ESTABLISHED" \in {c, s})
             bothWays == d.f.n > 0 /\ d.b.n > 0
         IN  [d EXCEPT !.cstate = c, !.sstate = s, !.hasData = data,
                       !.valid = @ \/ (data /\ (p.t - d.first > d.cap \/ bothWays))]
    ELSE [d EXCEPT !.valid = @ \/ p.proto = "ICMP" \/ (p.proto = "UDP" /\ p.data)]

-----------------------------------------------------------------------------
(* Statistics *)

\* Mutant of Began: the end of a period is not the start of the next one.
BeganLate(d, t) ==
    LET silence == t - GetLast(d)
    IN  IF d.first = 0 THEN [d EXCEPT !.first = t, !.periods = 1, !.lactive = t]
        ELSE IF silence <= IdleThreshold THEN d
        ELSE [d EXCEPT !.idle = Measured(@, silence),
                       !.active = Measured(@, GetLast(d) - d.lactive),
                       !.periods = @ + 1, !.f.last = 0, !.b.last = 0]

\* The first packet of a flow, or of an active period, or neither.
Began(d, t) ==
    LET silence == t - GetLast(d)
    IN  IF d.first = 0 THEN [d EXCEPT !.first = t, !.periods = 1, !.lactive = t]
        ELSE IF silence <= IdleThreshold THEN d
        ELSE [d EXCEPT !.idle = Measured(@, silence),
                       !.active = Measured(@, GetLast(d) - d.lactive),
                       !.periods = @ + 1, !.f.last = 0, !.b.last = 0,
                       !.lactive = t]

Counted(x, p) ==
    [n |-> x.n + 1,
     len |-> Measured(x.len, p.len),
     iat |-> IF x.last > 0 THEN Sampled(x.iat, p.t - x.last, Word) ELSE x.iat,
     last |-> p.t]

Accounted(d, p) ==
    LET e == Began(d, p.t)
    IN  IF p.reverse THEN [e EXCEPT !.b = Counted(@, p)] ELSE [e EXCEPT !.f = Counted(@, p)]

\* Mutant of ProcessPacket: packets from the past are measured too.
ProcessAnyPacket(d, p) ==
    LET e == Judged(d, p)
    IN  IF e.first > 0 /\ p.t - e.first > e.cap THEN e ELSE Accounted(e, p)

\* processPacket: reordered packets are ignored, and the statistics, not the
\* states, stop at the time cap.
ProcessPacket(d, p) ==
    IF p.t < GetLast(d) THEN d
    ELSE LET e == Judged(d, p)
         IN  IF e.first > 0 /\ p.t - e.first > e.cap THEN e ELSE Accounted(e, p)

\* processPacket's result 1: the connection is closed, export it
AsksForExport(d, p) == p.t >= GetLast(d) /\ p.proto = "TCP" /\ Closed(ProcessPacket(d, p))

\* exportData has nothing to say of the flow.
Silent(d) == ~d.valid \/ GetLast(d) - d.first < d.minDur

\* exportData adds the active period that has not ended to the flow's data.
ExportData(d) ==
    IF Silent(d) THEN d ELSE [d EXCEPT !.active = Measured(@, GetLast(d) - d.lactive)]

\* The assertions of exportData about one direction
DirectionAsserts(x) ==
    /\ x.n > 0 => /\ x.len.sum > 0 /\ x.len.min > 0
                  /\ x.len.max >= x.len.min
                  /\ x.iat.n < x.n
    /\ x.iat.n > 0 => x.iat.max >= x.iat.min

\* and about the flow.
ExportAsserts(d) ==
    Silent(d) \/ /\ DirectionAsserts(d.f) /\ DirectionAsserts(d.b)
                 /\ d.f.n > 0 => d.first > 0 /\ GetLast(d) > 0
                 /\ d.f.n > 1 \/ d.b.n > 1 => d.periods > 0
                 /\ d.idle.sum >= d.idle.n * IdleThreshold
                 /\ d.periods <= d.f.n + d.b.n

-----------------------------------------------------------------------------
(* The variants: _dscp also keeps the first DSCP value that is not 0. *)

InitFlowRecDscp(cap, minDur) ==
    LET d == InitFlowRec(cap, minDur)
    IN  [x \in DOMAIN d \cup {"dscp"} |-> IF x = "dscp" THEN 0 ELSE d[x]]

ResetFlowRecDscp(d) == InitFlowRecDscp(d.cap, d.minDur)

ProcessPacketDscp(d, p) ==
    IF p.t < GetLast(d) THEN d
    ELSE ProcessPacket([d EXCEPT !.dscp = IF @ = 0 THEN p.dscp ELSE @], p)

ExportDataDscp(d) == ExportData(d)

\* _dscp_1s sets the time cap to 0 at the first packet more than a second
\* (Second) after the flow's first one, be it reordered or not.
Capped(d, p, Second) ==
    IF d.first > 0 /\ p.t - d.first > Second THEN [d EXCEPT !.cap = 0] ELSE d

ProcessPacketDscp1s(d, p, Second) == ProcessPacketDscp(Capped(d, p, Second), p)

ResetFlowRecDscp1s(d) == ResetFlowRecDscp(d)

ExportDataDscp1s(d) == ExportDataDscp(d)
=============================================================================
