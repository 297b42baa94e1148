----------------------------- MODULE ProcModules -----------------------------
(***************************************************************************)
(* A processing module and its data of one rule or flow, driven as         *)
(* PacketProcessor drives it: a packet at a time, exports at intervals     *)
(* (the data is kept), exports of what is idle (the data is reset, or      *)
(* destroyed with its flow), exports the module asks for, and timeouts.    *)
(*                                                                         *)
(* The module is chosen in the initial state; "tcp" is netai_flowstats on  *)
(* the packets of a TCP connection.  Beside the module's data there is the *)
(* truth: the two ends of the connection or the RTP stream that the        *)
(* packets come from.                                                      *)
(***************************************************************************)
EXTENDS FlowStats, Measurements

CONSTANTS Modules,     \* processing modules to be looked at
          Gaps,        \* times between packets
          Lengths,     \* of packets
          Caps,        \* values of Time_Cap
          MinDuration, \* the parameter Min_Duration
          Second,      \* EXPORT_TIME of netai_flowstats_dscp_1s
          MaxPackets,  \* of a flow or rule
          MaxSegments, \* of a TCP connection or an RTP stream
          Exposed      \* situations, excluded otherwise, that break properties

FlowStatsKinds ==
    {"netai_flowstats", "netai_flowstats_dscp", "netai_flowstats_dscp_1s"}

ASSUME ProcModulesAssumption ==
    /\ Gaps \subseteq Nat /\ Lengths \subseteq Nat \ {0}
    /\ Caps \subseteq Nat /\ Second \in Nat \ {0}
    /\ MaxPackets \in Nat /\ MaxSegments \in Nat
    /\ Modules \subseteq FlowStatsKinds \cup
           {"tcp", "count", "pktlen", "jitter", "bandwidth", "port_use", "rtt_ping",
            "rtploss", "capture", "pktid_md5", "pktid_crc32", "show_ascii"}
    /\ Exposed \subseteq {"older than the flow", "long gap", "kept after export",
                          "capped reset", "freed rows"}

VARIABLES kind,     \* the processing module
          data,     \* its data
          now,      \* time of the last packet
          sent,     \* number of packets so far
          truth,    \* what the packets come from
          told,     \* packets, or times between them, in records exported so far
          asked     \* the module asked for the export of the flow

vars == <<kind, data, now, sent, truth, told, asked>>

IsFlowStats == kind \in FlowStatsKinds

-----------------------------------------------------------------------------
(* The modules' interface. *)

InitFlowRecs(k) ==
    CASE k = "netai_flowstats" -> {InitFlowRec(c, MinDuration) : c \in Caps}
      [] k = "tcp" -> {InitFlowRec(Never, 0)}
      [] k \in {"netai_flowstats_dscp", "netai_flowstats_dscp_1s"} ->
             {InitFlowRecDscp(Never, 0)}
      [] k = "count" -> {CountInit}
      [] k = "pktlen" -> {PktlenInit}
      [] k = "jitter" -> {JitterInit}
      [] k = "bandwidth" -> {BandwidthInit(b) : b \in BOOLEAN}
      [] k = "port_use" -> {PortInit}
      [] k = "rtt_ping" -> {PingInit}
      [] k = "rtploss" -> {RtpInit}
      [] k = "capture" -> {CaptureInit}
      [] k \in {"pktid_md5", "pktid_crc32"} -> {PktidInit}
      [] k = "show_ascii" -> {ShowInit}

Process(p) ==
    CASE kind \in {"netai_flowstats", "tcp"} -> ProcessPacket(data, p)
      [] kind = "netai_flowstats_dscp" -> ProcessPacketDscp(data, p)
      [] kind = "netai_flowstats_dscp_1s" -> ProcessPacketDscp1s(data, p, Second)
      [] kind = "count" -> CountPacket(data, p)
      [] kind = "pktlen" -> PktlenPacket(data, p)
      [] kind = "jitter" -> JitterPacket(data, p)
      [] kind = "bandwidth" -> BandwidthPacket(data, p)
      [] kind = "port_use" -> PortPacket(data, p)
      [] kind = "rtt_ping" -> PingPacket(data, p)
      [] kind = "rtploss" -> RtpPacket(data, p)
      [] kind = "capture" -> CapturePacket(data, p)
      [] kind = "pktid_md5" -> PktidPacket(data, p)
      [] kind = "pktid_crc32" -> CrcPacket(data, p)
      [] kind = "show_ascii" -> ShowPacket(data, p)

Exported ==
    CASE kind \in {"netai_flowstats", "tcp"} -> ExportData(data)
      [] kind = "netai_flowstats_dscp" -> ExportDataDscp(data)
      [] kind = "netai_flowstats_dscp_1s" -> ExportDataDscp1s(data)
      [] kind \in {"count", "port_use", "rtt_ping"} -> data
      [] kind = "pktlen" -> PktlenExport(data)
      [] kind = "jitter" -> JitterExport(data)
      [] kind = "bandwidth" -> BandwidthExport(data)
      [] kind = "rtploss" -> RtpExport(data)
      [] kind = "capture" -> CaptureExport(data)
      [] kind = "pktid_md5" -> PktidExport(data)
      [] kind = "pktid_crc32" -> CrcExport(data)
      [] kind = "show_ascii" -> ShowExport(data)

\* resetFlowRec of jitter, pktlen, bandwidth, port_use and rtploss does nothing.
Reset(d) ==
    CASE kind \in {"netai_flowstats", "tcp"} -> ResetFlowRec(d)
      [] kind = "netai_flowstats_dscp" -> ResetFlowRecDscp(d)
      [] kind = "netai_flowstats_dscp_1s" -> ResetFlowRecDscp1s(d)
      [] kind = "count" -> CountInit
      [] kind = "rtt_ping" -> PingReset(d)
      [] kind = "capture" -> CaptureReset(d)
      [] kind \in {"pktid_md5", "pktid_crc32"} -> PktidReset(d)
      [] kind = "show_ascii" -> ShowReset(d)
      [] OTHER -> d

\* Packets, or times between packets, that the data still has to tell
Untold(d) ==
    CASE kind \in {"count", "pktlen", "jitter", "capture", "pktid_md5", "pktid_crc32",
                   "show_ascii"} -> d.n
      [] kind = "bandwidth" -> d.curr.n + Total([i \in DOMAIN d.sets |-> d.sets[i].n], DOMAIN d.sets)
      [] OTHER -> 0

-----------------------------------------------------------------------------
(* The packets. *)

AnyPacket == [t |-> now, reverse |-> FALSE, proto |-> "UDP", flags |-> {}, data |-> TRUE,
              len |-> 1, dscp |-> 0, port |-> "none", seq |-> 0, echo |-> <<>>]

\* Time passes between packets, or the packet was overtaken by the one before.
Times == {now + g : g \in Gaps} \cup {now - 1}

\* Packets that are measured by direction and time.
FlowPackets ==
    {[AnyPacket EXCEPT !.t = t, !.reverse = r, !.proto = x[1], !.data = x[2], !.dscp = x[3]] :
        t \in Times, r \in BOOLEAN,
        x \in {<<"UDP", TRUE, 1>>, <<"UDP", FALSE, 0>>, <<"ICMP", FALSE, 0>>}}

\* What a packet does to the truth about a flow: it is to be measured, unless
\* it was overtaken or comes after the time cap.
Measurable(p) == /\ p.t >= truth.last
                 /\ truth.first > 0 => p.t - truth.first <= truth.cap

FlowTruth(p) ==
    IF p.t < data.first THEN [truth EXCEPT !.aborted = TRUE]
    ELSE IF ~Measurable(p) /\ kind # "netai_flowstats_dscp_1s" THEN truth
    ELSE IF ~Measurable(p) THEN [truth EXCEPT !.last = Max({@, p.t})]
    ELSE [truth EXCEPT !.first = IF @ = 0 THEN p.t ELSE @, !.last = p.t, !.n = @ + 1]

\* The packet's direction has been silent for less than the width of its times.
GapFits(p) ==
    LET last == IF p.reverse THEN data.b.last ELSE data.f.last
    IN  last = 0 \/ p.t - last < Word

-----------------------------------------------------------------------------
(* TCP: the ends c and s are "none", "syn", "est", "fin" (it has sent a     *)
(* FIN), "done" (which was acknowledged) or "reset".                       *)

Segment(reverse, flags, payload) ==
    [AnyPacket EXCEPT !.proto = "TCP", !.reverse = reverse, !.flags = flags,
                      !.data = payload]

Open == truth.c \in {"est", "fin", "done"} /\ truth.s \in {"est", "fin", "done"}

\* The other end of a sender that acknowledges, or does not, what it sent.
Heard(x) == IF x = "fin" THEN {"fin", "done"} ELSE {x}

\* carried: there was data before the client's FIN.
After(c, s, payload) ==
    [truth EXCEPT !.c = c, !.s = s, !.carried = @ \/ (payload /\ c = "est")]

ClientSends(flags, payload, c) ==
    {<<Segment(FALSE, flags, payload), After(c, s, payload)>> : s \in Heard(truth.s)}

ServerSends(flags, payload, s) ==
    {<<Segment(TRUE, flags, payload), After(c, s, payload)>> : c \in Heard(truth.c)}

Handshake ==
    CASE truth.s = "none" ->
             ClientSends({"SYN"}, FALSE, "syn")
             \cup IF truth.c = "none" THEN {} ELSE ServerSends({"SYN", "ACK"}, FALSE, "syn")
      [] truth.s = "syn" ->
             {<<Segment(FALSE, {"ACK"}, b), After("est", "est", b)>> : b \in BOOLEAN}
      [] OTHER -> {}

\* Each segment a connection may have next, with the truth after it.
Segments ==
    IF ~Open THEN Handshake
    ELSE (UNION {ClientSends({"ACK"}, b, truth.c) : b \in {FALSE, truth.c = "est"}})
         \cup (UNION {ServerSends({"ACK"}, b, truth.s) : b \in {FALSE, truth.s = "est"}})
         \cup ClientSends({"FIN", "ACK"}, FALSE, "fin")
         \cup ServerSends({"FIN", "ACK"}, FALSE, "fin")
         \cup {<<Segment(r, {"RST"}, FALSE), After("reset", "reset", FALSE)>> : r \in BOOLEAN}

-----------------------------------------------------------------------------
(* RTP: the stream's numbers from first to high, of which got have come,   *)
(* dups more than once; late ones, and lost ones, are less than            *)
(* MAX_MISORDER, and MAX_DROPOUT, away from high.  A stray number is far    *)
(* from high, and the stream restarts if the one after it comes.           *)

RtpNumber(n) == [AnyPacket EXCEPT !.seq = n % RTP_SEQ_MOD]

StreamFrom(n) == [first |-> n, high |-> n, got |-> {n}, dups |-> 0, stray |-> -1]

\* Numbers before the source is valid: any, until two are in sequence.
Unproved(n) ==
    IF n = data.max + 1 /\ data.probation = 1 THEN StreamFrom(n) ELSE truth

RtpNumbers ==
    IF data.probation > 0
    THEN {<<RtpNumber(n), Unproved(n)>> : n \in 0 .. RTP_SEQ_MOD - 1}
    ELSE {<<RtpNumber(n), [truth EXCEPT !.high = n, !.got = @ \cup {n}]>> :
              n \in truth.high + 1 .. truth.high + MAX_DROPOUT - 1}
         \cup {<<RtpNumber(n), IF n \in truth.got THEN [truth EXCEPT !.dups = @ + 1]
                               ELSE [truth EXCEPT !.got = @ \cup {n}]>> :
              n \in {m \in truth.first .. truth.high : truth.high - m < MAX_MISORDER}}
         \cup {LET s == n % RTP_SEQ_MOD
               IN  <<RtpNumber(n), IF s = truth.stray THEN StreamFrom(s)
                                   ELSE [truth EXCEPT !.stray = (s + 1) % RTP_SEQ_MOD]>> :
              n \in truth.high + MAX_DROPOUT .. truth.high + RTP_SEQ_MOD - MAX_MISORDER}

-----------------------------------------------------------------------------
Truth(k, cap) ==
    CASE k \in FlowStatsKinds ->
             [first |-> 0, last |-> 0, n |-> 0, aborted |-> FALSE,
              cap |-> IF k = "netai_flowstats_dscp_1s" THEN Second ELSE cap]
      [] k = "tcp" -> [c |-> "none", s |-> "none", carried |-> FALSE]
      [] k = "rtploss" -> StreamFrom(0)
      [] OTHER -> <<>>

Init ==
    /\ kind \in Modules
    /\ data \in InitFlowRecs(kind)
    /\ truth = Truth(kind, IF IsFlowStats THEN data.cap ELSE 0)
    /\ now = 2 /\ sent = 0 /\ told = 0
    /\ asked = FALSE

More == ~asked /\ sent < IF kind \in {"tcp", "rtploss"} THEN MaxSegments ELSE MaxPackets

\* processPacket is called.
Measure(p, u) ==
    /\ More
    /\ data' = Process(p)
    /\ asked' = (kind = "tcp" /\ AsksForExport(data, p))
    /\ now' = Max({now, p.t})
    /\ sent' = sent + 1
    /\ truth' = u
    /\ UNCHANGED <<kind, told>>

PacketOfFlow ==
    /\ IsFlowStats
    /\ \E p \in FlowPackets :
          /\ p.t >= data.first \/ "older than the flow" \in Exposed
          /\ GapFits(p) \/ "long gap" \in Exposed
          /\ Measure(p, FlowTruth(p))

PacketOfConnection == kind = "tcp" /\ \E x \in Segments : Measure(x[1], x[2])

PacketOfStream == kind = "rtploss" /\ \E x \in RtpNumbers : Measure(x[1], x[2])

Ping ==
    /\ kind = "rtt_ping"
    /\ \E g \in Gaps, type \in {0, 8}, id \in {0, 1}, seqno \in {1, 2} :
          Measure([AnyPacket EXCEPT !.t = now + g, !.proto = "ICMP",
                       !.echo = [type |-> type, id |-> id, seqno |-> seqno]], truth)

PacketOfRule ==
    /\ ~IsFlowStats /\ kind \notin {"tcp", "rtploss", "rtt_ping"}
    /\ \E g \in IF kind \in {"jitter", "bandwidth"} THEN Gaps ELSE {1},
          n \in Lengths, q \in Ports \cup {"none"} :
          /\ kind = "port_use" \/ q = "none"
          /\ Measure([AnyPacket EXCEPT !.t = now + g, !.len = n, !.port = q], truth)

\* A push export keeps the data.
Export ==
    /\ More
    /\ IsFlowStats \/ kind = "tcp" => Silent(data) \/ "kept after export" \in Exposed
    /\ data' = Exported
    /\ told' = told + IF kind \in {"count"} THEN 0 ELSE Untold(data) - Untold(data')
    /\ UNCHANGED <<kind, now, sent, truth, asked>>

\* An export of what is idle resets the data of a rule.
ExportIdle ==
    /\ More
    /\ kind \notin {"tcp", "rtploss"}
    /\ kind = "show_ascii" => "freed rows" \in Exposed
    /\ kind = "netai_flowstats_dscp_1s" => data.cap > 0 \/ "capped reset" \in Exposed
    /\ data' = Reset(Exported)
    /\ told' = told + Untold(data) - Untold(data')
    /\ truth' = IF IsFlowStats THEN Truth(kind, truth.cap) ELSE truth
    /\ UNCHANGED <<kind, now, sent, asked>>

Timeout ==
    /\ kind = "bandwidth" /\ data.timer
    /\ Len(data.sets) <= COUNTCHUNK
    /\ data' = BandwidthTimeout(data)
    /\ UNCHANGED <<kind, now, sent, truth, told, asked>>

Next == \/ PacketOfFlow \/ PacketOfConnection \/ PacketOfStream \/ Ping \/ PacketOfRule
        \/ Export \/ ExportIdle \/ Timeout

Spec == Init /\ [][Next]_vars

-----------------------------------------------------------------------------
\* What the assertions in netai_flowstats and its variants say of a flow is
\* true whenever the flow might be exported, for any order of packets of both
\* directions, overtaken ones and silences included.
AssertionsHold ==
    /\ IsFlowStats \/ kind = "tcp" => ExportAsserts(data)
    /\ IsFlowStats => ~truth.aborted

\* The module asks for the export of a connection at the latest when both
\* FINs have been acknowledged, or at a reset, whatever was sent twice, and
\* not before both ends have sent a FIN; and the record tells something if
\* and only if there was data before the client's FIN.
EndsWithConnection ==
    kind = "tcp" =>
        LET ends == {truth.c, truth.s}
        IN  /\ ends \subseteq {"done"} \/ ends \subseteq {"reset"} => asked
            /\ asked => ends \subseteq {"fin", "done"} \/ ends \subseteq {"reset"}
            /\ ~Silent(data) <=> truth.carried

\* The mean of what was measured is between its minimum and maximum.
MeanInRange(n, sum, min, max) == n = 0 \/ (n * min <= sum /\ sum <= n * max)

\* Nothing is measured twice or forgotten.  The active and idle periods of a
\* flow are its duration, each packet that is to be measured is; a packet (or
\* a time between packets) is in one export; the ports, and the rest, are all
\* bytes; the RTP packets lost are those missing in the stream, but for one
\* too many (the packet that proves the source is expected and not received)
\* and one less for each that came twice.  Means are between the minimum and
\* the maximum, over any number of duplicates, matches and exports.
MeasuresAddUp ==
    CASE IsFlowStats ->
             /\ data.f.n + data.b.n = truth.n
             /\ data.active.sum + GetLast(data) - data.lactive + data.idle.sum
                    = GetLast(data) - data.first
      [] kind = "rtploss" /\ data.probation = 0 ->
             RtpLoss(data) + truth.dups
                 = 1 + truth.high - truth.first + 1 - Cardinality(truth.got)
      [] kind = "jitter" ->
             /\ told + data.n = IF sent = 0 THEN 0 ELSE sent - 1
             /\ MeanInRange(data.n, data.last - data.first, data.min, data.max)
      [] kind = "rtt_ping" -> MeanInRange(data.matches, data.sum, data.min, data.max)
      [] kind = "port_use" ->
             \A T \in TopPorts(data) :
                 /\ Rest(data, T) = Total(data.bytes, Ports \ T)
                 /\ \A q \in Ports \ T : data.bytes[q] <= Rest(data, T)
      [] kind = "pktlen" ->
             /\ told + data.n = sent
             /\ MeanInRange(data.n, data.bytes, data.min, data.max)
      [] kind \in {"count", "bandwidth", "capture", "pktid_md5", "pktid_crc32",
                   "show_ascii"} -> told + Untold(data) = sent
      [] OTHER -> TRUE

\* What a module keeps of packets is in memory it has allocated, and the
\* search for an unused entry in the list of pings ends inside the list,
\* whatever was answered, overwritten or sent with the id that means unused.
MemorySuffices ==
    CASE kind = "rtt_ping" -> data.free <= Cardinality(Unused(data))
      [] kind = "capture" -> data.len <= data.size
      [] kind \in {"pktid_md5", "pktid_crc32"} -> data.n + data.free = data.size /\ data.size > 0
      [] kind = "show_ascii" -> data.n <= data.size /\ ~data.freed
      [] kind = "bandwidth" -> Len(data.sets) <= data.maxSets
      [] OTHER -> TRUE
=============================================================================
