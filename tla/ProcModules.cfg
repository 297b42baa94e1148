CONSTANTS
    IdleThreshold = 2
    Word = 5
    Ports = {p, q}
    TOP_N = 1
    Never = 1000
    COUNTCHUNK = 1
    ENTRIES = 2
    RTP_SEQ_MOD = 8
    MAX_DROPOUT = 3
    MAX_MISORDER = 2
    MIN_SEQUENTIAL = 2
    INIT_BLEN = 4
    FileHeader = 1
    PacketHeader = 1
    INIT_ELEM = 2
    Modules = {"netai_flowstats", "netai_flowstats_dscp", "netai_flowstats_dscp_1s", "tcp", "count", "pktlen", "jitter", "bandwidth", "port_use", "rtt_ping", "rtploss", "capture", "pktid_md5", "pktid_crc32", "show_ascii"}
    Gaps = {0, 2, 3}
    Lengths = {1, 2}
    Caps = {4, 1000}
    MinDuration = 1
    Second = 2
    MaxPackets = 5
    MaxSegments = 8
    Exposed = {}
SPECIFICATION Spec
INVARIANTS AssertionsHold EndsWithConnection MeasuresAddUp MemorySuffices
CHECK_DEADLOCK FALSE
