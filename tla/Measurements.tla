----------------------------- MODULE Measurements -----------------------------
(***************************************************************************)
(* The processing modules count, pktlen, jitter, bandwidth, port_use,      *)
(* rtt_ping, rtploss, capture, pktid_md5, pktid_crc32 and show_ascii: the  *)
(* data of a rule or flow and what the functions of the modules' interface *)
(* do to it.  ProcModules calls them.                                      *)
(*                                                                         *)
(* A packet has a time t, a length len, a port (or "none", if it is        *)
(* neither TCP nor UDP), a sequence number seq, and an echo: its type, id  *)
(* and seqno.  Lists of what was kept of each packet are their lengths.    *)
(***************************************************************************)
EXTENDS Integers, Sequences, FiniteSetsExt

CONSTANTS Ports,        \* destination ports
          TOP_N,        \* ports that port_use tells
          Never,        \* later than any time
          COUNTCHUNK,   \* snapshots that bandwidth makes room for at a time
          ENTRIES,      \* pings that rtt_ping remembers
          RTP_SEQ_MOD, MAX_DROPOUT, MAX_MISORDER, MIN_SEQUENTIAL,  \* of rtploss
          INIT_BLEN,    \* the first size of capture's buffer
          FileHeader, PacketHeader,  \* sizes of pcap's headers
          INIT_ELEM     \* the first size of the other lists of packets

ASSUME MeasurementsAssumption ==
    /\ TOP_N \in Nat \ {0} /\ COUNTCHUNK \in Nat \ {0} /\ ENTRIES \in Nat \ {0}
    /\ IsFiniteSet(Ports)
    /\ {RTP_SEQ_MOD, MAX_DROPOUT, MAX_MISORDER, MIN_SEQUENTIAL} \subseteq Nat \ {0}
    /\ MAX_DROPOUT + MAX_MISORDER <= RTP_SEQ_MOD /\ MIN_SEQUENTIAL > 1
    /\ {Never, FileHeader, PacketHeader, INIT_BLEN} \subseteq Nat
    /\ FileHeader <= INIT_BLEN /\ INIT_ELEM \in Nat \ {0}

\* The sum of f[x] for x \in S
Total(f, S) == MapThenSumSet(LAMBDA x : f[x], S)

-----------------------------------------------------------------------------
(* count *)

CountInit == [n |-> 0, bytes |-> 0, first |-> 0, last |-> 0]

CountPacket(d, p) ==
    [n |-> d.n + 1, bytes |-> d.bytes + p.len,
     first |-> IF d.n = 0 THEN p.t ELSE d.first, last |-> p.t]

-----------------------------------------------------------------------------
(* pktlen: an export begins a new interval. *)

PktlenInit == [n |-> 0, bytes |-> 0, min |-> 0, max |-> 0]

PktlenPacket(d, p) ==
    [n |-> d.n + 1, bytes |-> d.bytes + p.len,
     min |-> IF d.n = 0 THEN p.len ELSE Min({d.min, p.len}),
     max |-> IF d.n = 0 THEN p.len ELSE Max({d.max, p.len})]

PktlenExport(d) == PktlenInit

-----------------------------------------------------------------------------
(* jitter: n counts the times between packets; first is 0 before the first *)
(* packet, and min then larger than any time.                              *)

JitterInit == [n |-> 0, first |-> 0, last |-> 0, min |-> Never, max |-> 0, sum |-> 0]

JitterPacket(d, p) ==
    IF d.first = 0 THEN [d EXCEPT !.first = p.t, !.last = p.t]
    ELSE LET diff == p.t - d.last
         IN  [d EXCEPT !.n = @ + 1, !.last = p.t, !.sum = @ + diff,
                       !.min = Min({@, diff}), !.max = Max({@, diff})]

JitterExport(d) == [JitterInit EXCEPT !.first = d.last, !.last = d.last]

-----------------------------------------------------------------------------
(* bandwidth: the timer stores the counters as a snapshot. *)

NoCounters == [n |-> 0, first |-> 0, last |-> 0]

BandwidthInit(timer) == [curr |-> NoCounters, sets |-> <<>>, maxSets |-> 0, timer |-> timer]

BandwidthPacket(d, p) ==
    [d EXCEPT !.curr = [n |-> @.n + 1, first |-> IF @.n = 0 THEN p.t ELSE @.first,
                        last |-> p.t]]

\* appendCounters
AppendCounters(d) ==
    [d EXCEPT !.sets = Append(@, d.curr),
              !.maxSets = IF Len(d.sets) = @ THEN @ + COUNTCHUNK ELSE @]

\* timeout; getTimers gives the timer away only if it has an interval
BandwidthTimeout(d) == [AppendCounters(d) EXCEPT !.curr = NoCounters]

\* What an export tells: the snapshots, or the counters if there are none.
BandwidthTold(d) == IF d.sets = <<>> THEN <<d.curr>> ELSE d.sets

BandwidthExport(d) ==
    IF d.sets = <<>> THEN [d EXCEPT !.curr = NoCounters] ELSE [d EXCEPT !.sets = <<>>]

-----------------------------------------------------------------------------
(* port_use *)

PortInit == [all |-> 0, other |-> 0, packets |-> [q \in Ports |-> 0],
             bytes |-> [q \in Ports |-> 0]]

PortPacket(d, p) ==
    IF p.port \in Ports
    THEN [d EXCEPT !.all = @ + p.len, !.packets[p.port] = @ + 1, !.bytes[p.port] = @ + p.len]
    ELSE [d EXCEPT !.all = @ + p.len, !.other = @ + p.len]

\* setcmp: what has more bytes comes first
Before(d, q, r) == d.bytes[q] > d.bytes[r]

\* exportData sorts the ports that were used; which one of two with the same
\* number of bytes comes first is left to qsort.
TopPorts(d) ==
    LET used == {q \in Ports : d.packets[q] > 0}
    IN  {T \in SUBSET used :
            /\ Cardinality(T) = Min({TOP_N, Cardinality(used)})
            /\ \A q \in T, r \in used \ T : ~Before(d, r, q)}

Rest(d, T) == d.all - d.other - Total(d.bytes, T)

-----------------------------------------------------------------------------
(* rtt_ping: an entry with id 0 is unused.  Times are not split into       *)
(* seconds and microseconds, and the average is left out.                  *)

NoEntry == [id |-> 0, seqno |-> 0, t |-> 0]

PingInit == [list |-> [i \in 0 .. ENTRIES - 1 |-> NoEntry], free |-> ENTRIES,
             matches |-> 0, min |-> 0, max |-> 0, sum |-> 0]

Unused(d) == {i \in DOMAIN d.list : d.list[i].id = 0}

\* The entry for a request; with none free it is the first one, used or not.
\* (Without an unused one the search would leave the list.)
EntryFor(d) == IF d.free > 0 /\ Unused(d) # {} THEN Min(Unused(d)) ELSE 0

PingRequest(d, p) ==
    [d EXCEPT !.list[EntryFor(d)] = [id |-> p.echo.id, seqno |-> p.echo.seqno, t |-> p.t],
              !.free = IF @ > 0 THEN @ - 1 ELSE 0]

\* A reply is matched with every entry of its id and number.
PingReply(d, p) ==
    LET hit == {i \in DOMAIN d.list : /\ d.list[i].id = p.echo.id /\ d.list[i].id # 0
                                      /\ d.list[i].seqno = p.echo.seqno}
        rtt == [i \in hit |-> p.t - d.list[i].t]
        rtts == {rtt[i] : i \in hit}
    IN  IF hit = {} THEN d
        ELSE [d EXCEPT !.list = [i \in DOMAIN @ |-> IF i \in hit THEN [@[i] EXCEPT !.id = 0]
                                                    ELSE @[i]],
                       !.free = @ + Cardinality(hit),
                       !.matches = @ + Cardinality(hit),
                       !.sum = @ + Total(rtt, hit),
                       !.min = Min(rtts \cup IF d.matches = 0 THEN {} ELSE {@}),
                       !.max = Max(rtts \cup {@})]

\* Mutant of PingPacket: a request is not counted as one that uses an entry.
PingPacketUncounted(d, p) ==
    IF p.echo.type = 8 THEN [PingRequest(d, p) EXCEPT !.free = d.free] ELSE PingReply(d, p)

PingPacket(d, p) == IF p.echo.type = 8 THEN PingRequest(d, p) ELSE PingReply(d, p)

\* resetFlowRec, and exportData in relative mode; the entries stay.
PingReset(d) == [d EXCEPT !.matches = 0, !.min = 0, !.max = 0, !.sum = 0]

-----------------------------------------------------------------------------
(* rtploss: the sequence numbers of an RTP stream, after RFC 3550.  Longs  *)
(* are integers here: what is exported is the difference of two of them.   *)

RtpInit == [cycles |-> 0, base |-> 0, max |-> 0, received |-> 0, receivedPrior |-> 0,
            expectedPrior |-> 0, bad |-> 0, probation |-> 1]

\* init_rtp_seq
RtpInitSeq(d, seq) ==
    [d EXCEPT !.base = seq - 1, !.max = seq, !.bad = RTP_SEQ_MOD + 1, !.cycles = 0,
              !.received = 0, !.receivedPrior = 0, !.expectedPrior = 0]

RtpReceived(d) == [d EXCEPT !.received = @ + 1]

\* The source is not valid until packets in sequence have been received.
RtpProbation(d, seq) ==
    IF seq # d.max + 1 THEN [d EXCEPT !.probation = MIN_SEQUENTIAL - 1, !.max = seq]
    ELSE LET e == [d EXCEPT !.probation = @ - 1, !.max = seq]
         IN  IF e.probation = 0 THEN RtpReceived(RtpInitSeq(e, seq)) ELSE e

\* In order, with a permissible gap, perhaps wrapped
RtpInOrder(d, seq) ==
    RtpReceived([d EXCEPT !.cycles = IF seq < d.max THEN @ + RTP_SEQ_MOD ELSE @, !.max = seq])

\* A very large jump: a restart if the next number follows, ignored otherwise.
RtpJump(d, seq) ==
    IF seq = d.bad THEN RtpReceived(RtpInitSeq(d, seq))
    ELSE [d EXCEPT !.bad = (seq + 1) % RTP_SEQ_MOD]

\* update_rtp_seq
RtpPacket(d, p) ==
    LET udelta == (p.seq - d.max) % RTP_SEQ_MOD
    IN  CASE d.probation > 0 -> RtpProbation(d, p.seq)
          [] d.probation = 0 /\ udelta < MAX_DROPOUT -> RtpInOrder(d, p.seq)
          [] /\ d.probation = 0
             /\ udelta \in MAX_DROPOUT .. RTP_SEQ_MOD - MAX_MISORDER -> RtpJump(d, p.seq)
          [] OTHER -> RtpReceived(d)

RtpExpected(d) == d.cycles + d.max - d.base + 1

\* update_loss: the loss so far, and what of it is told of this interval
RtpLoss(d) == RtpExpected(d) - d.received
RtpLossInt(d) == RtpLoss(d) - (d.expectedPrior - d.receivedPrior)

RtpExport(d) ==
    IF d.received = 0 THEN d
    ELSE [d EXCEPT !.expectedPrior = RtpExpected(d), !.receivedPrior = d.received]

-----------------------------------------------------------------------------
(* capture: packets as a pcap file; only the first export has its header. *)

CaptureInit == [size |-> INIT_BLEN, len |-> FileHeader, n |-> 0]

CapturePacket(d, p) ==
    [size |-> IF d.size - d.len < PacketHeader + p.len THEN 2 * d.size ELSE d.size,
     len |-> d.len + PacketHeader + p.len, n |-> d.n + 1]

CaptureReset(d) == [size |-> INIT_BLEN, len |-> 0, n |-> 0]

CaptureExport(d) == CaptureReset(d)

-----------------------------------------------------------------------------
(* Lists of packets, whose memory is doubled; size is what is allocated.   *)

PktidInit == [n |-> 0, free |-> INIT_ELEM, size |-> INIT_ELEM]

PktidPacket(d, p) ==
    [n |-> d.n + 1,
     free |-> (IF d.free = 0 THEN d.n ELSE d.free) - 1,
     size |-> IF d.free = 0 THEN 2 * d.n ELSE d.size]

PktidReset(d) == PktidInit

PktidExport(d) == [d EXCEPT !.free = @ + d.n, !.n = 0]

\* pktid_crc32
CrcPacket(d, p) == PktidPacket(d, p)
CrcExport(d) == PktidExport(d)

\* show_ascii; resetFlowRec frees the rows, and the pointer stays.
ShowInit == [n |-> 0, size |-> INIT_ELEM, freed |-> FALSE]

\* fetchRow, and a row that is filled
ShowPacket(d, p) ==
    [d EXCEPT !.n = @ + 1, !.size = IF d.n = @ THEN 2 * @ ELSE @]

ShowReset(d) == [n |-> 0, size |-> 0, freed |-> TRUE]

ShowExport(d) == [d EXCEPT !.n = 0]
=============================================================================
