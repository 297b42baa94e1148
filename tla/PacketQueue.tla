---------------------------- MODULE PacketQueue ----------------------------
(***************************************************************************)
(* The queue between the Classifier and the PacketProcessor               *)
(* (PacketQueue.cc): a ring of MaxBuffers descriptors over a ring of       *)
(* MaxMemory bytes.  A buffer handed to the writer is always GuardBufLen   *)
(* contiguous bytes, so bytes at the end of the memory that are too few    *)
(* for that are skipped, and given back when the packet before them is     *)
(* released.                                                               *)
(*                                                                         *)
(* Every operation holds the queue's mutex from its first to its last      *)
(* line and is one action.  Between two operations nothing is locked: the  *)
(* writer fills its buffer (WriteBuffer) while the reader works on the     *)
(* oldest packet, and only the layout of the ring keeps the two apart.     *)
(* Pointers are offsets into the memory.                                   *)
(***************************************************************************)
EXTENDS Integers, FiniteSets, Sequences

CONSTANTS MaxBuffers,    \* descriptors of the queue (maxBuffers)
          MaxMemory,     \* bytes of packet memory (maxMemory)
          GuardBufLen,   \* bytes guaranteed to a writer (guardBufLen)
          Byte,          \* the values a byte of packet memory may have
          Zero,          \* the value new memory is cleared to
          DropRange      \* number of values droppedPackets can count

ASSUME QueueAssumption ==
    /\ MaxBuffers \in Nat \ {0}
    /\ MaxMemory \in Nat
    /\ GuardBufLen \in Nat \ {0}
    /\ DropRange \in Nat \ {0}
    /\ Zero \in Byte

VARIABLES bufRecs,         \* the descriptors: where a packet starts, its length
          nextInBuf,       \* descriptor of the next packet to be committed
          nextOutBuf,      \* descriptor of the oldest packet
          freeBuffers,     \* descriptors not in use
          freeMemory,      \* bytes not in use and not skipped
          curData,         \* where the next packet will be stored
          rawData,         \* the packet memory
          droppedPackets,  \* refused requests for a buffer
          lentBuf,         \* the buffer the writer holds, or NoBuffer
          reading          \* TRUE while the reader holds the oldest packet

ring == <<bufRecs, nextInBuf, nextOutBuf, freeBuffers, freeMemory, curData>>
queueVars == <<ring, rawData, droppedPackets, lentBuf, reading>>

NoBuffer == -1

\* getUsedBuffers
Used == MaxBuffers - freeBuffers

\* The descriptor k places after descriptor i, wrapping around.
Slot(i, k) == IF i + k < MaxBuffers THEN i + k ELSE i + k - MaxBuffers

\* Where the k-th packet of the queue, counted from the oldest, starts, and
\* its length.
Pos(k) == bufRecs[Slot(nextOutBuf, k)].pos
Size(k) == bufRecs[Slot(nextOutBuf, k)].len

\* The index after i in the ring of descriptors.
Succ(i) == IF i + 1 = MaxBuffers THEN 0 ELSE i + 1

\* Where the packet after one that ends before p starts: at p, or at the
\* start of the memory when GuardBufLen bytes do not fit in at p.
TooNearEnd(p) == p + GuardBufLen > MaxMemory
Skipped(p) == IF TooNearEnd(p) THEN MaxMemory - p ELSE 0
Advance(p) == IF TooNearEnd(p) THEN 0 ELSE p

-----------------------------------------------------------------------------
QueueInit ==
    /\ bufRecs = [i \in 0 .. MaxBuffers - 1 |-> [pos |-> 0, len |-> 0]]
    /\ nextInBuf = 0
    /\ nextOutBuf = 0
    /\ freeBuffers = MaxBuffers
    /\ freeMemory = MaxMemory
    /\ curData = 0
    /\ rawData = [b \in 0 .. MaxMemory - 1 |-> Zero]
    /\ droppedPackets = 0
    /\ lentBuf = NoBuffer
    /\ reading = FALSE

NoRoomForOne == freeBuffers = 0 \/ freeMemory < 1  \* mutant of NoRoom
NoRoom == freeBuffers = 0 \/ freeMemory < GuardBufLen

\* The writer, at the start of Classifier::processPacket, asks for a buffer.
\* A buffer it still holds, because no packet came or the packet matched no
\* rule, is simply forgotten.
GetBufferSpace ==
    /\ IF NoRoom
       THEN /\ droppedPackets' = (droppedPackets + 1) % DropRange
            /\ lentBuf' = NoBuffer
       ELSE /\ lentBuf' = curData
            /\ UNCHANGED droppedPackets
    /\ UNCHANGED <<ring, rawData, reading>>

\* The writer stores n bytes of packet and metadata in its buffer, without
\* holding any lock (NetTap::getPacket, Classifier::classify).
WriteBuffer(v, n) ==
    /\ lentBuf # NoBuffer
    /\ rawData' = [b \in 0 .. MaxMemory - 1 |->
                      IF lentBuf <= b /\ b < lentBuf + n THEN v ELSE rawData[b]]
    /\ UNCHANGED <<ring, droppedPackets, lentBuf, reading>>

Acceptable(len) ==
    /\ len > 0 /\ len <= GuardBufLen
    /\ freeBuffers # 0 /\ freeMemory >= len

\* The writer commits len bytes of its buffer.  len comes from the original
\* length of the packet, so it may be more than fits: the call then fails,
\* and its caller does not look.
SetBufferOccupied(len) ==
    /\ lentBuf # NoBuffer
    /\ lentBuf' = NoBuffer
    /\ IF Acceptable(len)
       THEN /\ bufRecs' = [bufRecs EXCEPT ![nextInBuf] =
                              [pos |-> curData, len |-> len]]
            /\ nextInBuf' = Succ(nextInBuf)
            /\ freeMemory' = freeMemory - len - Skipped(curData + len)
            /\ curData' = Advance(curData + len)
            /\ freeBuffers' = freeBuffers - 1
            /\ UNCHANGED nextOutBuf
       ELSE UNCHANGED ring
    /\ UNCHANGED <<rawData, droppedPackets, reading>>

\* The reader gets the address of the oldest packet (readBuffer).
ReadBuffer ==
    /\ ~reading
    /\ Used > 0
    /\ reading' = TRUE
    /\ UNCHANGED <<ring, rawData, droppedPackets, lentBuf>>

\* Mutant of ReleaseBuffer: the skipped bytes are not given back.
ReleaseNoSkip ==
    /\ reading
    /\ reading' = FALSE
    /\ nextOutBuf' = Succ(nextOutBuf)
    /\ freeMemory' = freeMemory + bufRecs[nextOutBuf].len
    /\ freeBuffers' = freeBuffers + 1
    /\ UNCHANGED <<bufRecs, nextInBuf, curData, rawData, droppedPackets, lentBuf>>

\* The reader gives the oldest packet's bytes back, with the bytes skipped
\* behind it.  ReadBuffer found a packet, and only this action removes one,
\* so the code's test for an empty queue never fails here.
ReleaseBuffer ==
    /\ reading
    /\ reading' = FALSE
    /\ LET old == bufRecs[nextOutBuf] IN
       freeMemory' = freeMemory + old.len + Skipped(old.pos + old.len)
    /\ nextOutBuf' = Succ(nextOutBuf)
    /\ freeBuffers' = freeBuffers + 1
    /\ UNCHANGED <<bufRecs, nextInBuf, curData, rawData, droppedPackets, lentBuf>>

QueueNext ==
    \/ GetBufferSpace
    \/ \E v \in Byte, n \in 1 .. GuardBufLen : WriteBuffer(v, n)
    \/ \E len \in 0 .. GuardBufLen + 1 : SetBufferOccupied(len)
    \/ ReadBuffer
    \/ ReleaseBuffer

QueueSpec == QueueInit /\ [][QueueNext]_queueVars

-----------------------------------------------------------------------------
\* Every variable has values of its type; the counters stay in the bounds
\* the code relies on when it indexes the ring.
QueueTypeOK ==
    /\ bufRecs \in [0 .. MaxBuffers - 1 ->
                       [pos : 0 .. MaxMemory, len : 0 .. GuardBufLen]]
    /\ nextInBuf \in 0 .. MaxBuffers - 1
    /\ nextOutBuf \in 0 .. MaxBuffers - 1
    /\ freeBuffers \in 0 .. MaxBuffers
    /\ freeMemory \in 0 .. MaxMemory
    /\ curData \in 0 .. MaxMemory
    /\ rawData \in [0 .. MaxMemory - 1 -> Byte]
    /\ droppedPackets \in 0 .. DropRange - 1
    /\ lentBuf \in {NoBuffer} \cup 0 .. MaxMemory
    /\ reading \in BOOLEAN

\* The two descriptor indices are as far apart as the count of used ones.
IndicesAgree == nextInBuf = Slot(nextOutBuf, Used)

\* Every queued packet, and the place for the next one, has GuardBufLen
\* bytes before the end of the memory.
WithinMemory ==
    /\ MaxMemory >= GuardBufLen => curData + GuardBufLen <= MaxMemory
    /\ \A k \in 0 .. Used - 1 : /\ Size(k) > 0
                                /\ Pos(k) + GuardBufLen <= MaxMemory

\* Each packet starts where the one before it ends, or at 0 after a skip.
Chained ==
    \A k \in 0 .. Used - 1 :
        Advance(Pos(k) + Size(k)) = IF k = Used - 1 THEN curData ELSE Pos(k + 1)

\* No two queued packets share a byte.
Disjoint ==
    \A j, k \in 0 .. Used - 1 :
        /\ j # k => Pos(j) # Pos(k)
        /\ Pos(j) < Pos(k) => Pos(j) + Size(j) <= Pos(k)

\* All queued packets lie between the oldest one and curData, going round
\* the ring, and freeMemory is the number of bytes from curData on to the
\* oldest packet: every byte that is not in use, the skipped ones excepted,
\* can be used again, and none is counted twice.
FreeMemoryExact ==
    /\ Used = 0 => freeMemory = MaxMemory
    /\ Used > 0 /\ Pos(0) < curData =>
         /\ freeMemory = MaxMemory - (curData - Pos(0))
         /\ \A k \in 0 .. Used - 1 : /\ Pos(k) >= Pos(0)
                                     /\ Pos(k) + Size(k) <= curData
    /\ Used > 0 /\ Pos(0) >= curData =>
         /\ freeMemory = Pos(0) - curData
         /\ \A k \in 0 .. Used - 1 : \/ Pos(k) >= Pos(0)
                                     \/ Pos(k) + Size(k) <= curData

\* A buffer the writer holds was handed out where the next packet goes, and
\* room for a whole packet is still there; the reader's packet is queued.
LoansValid ==
    /\ lentBuf # NoBuffer =>
         lentBuf = curData /\ freeBuffers > 0 /\ freeMemory >= GuardBufLen
    /\ reading => Used > 0

\* The layout of the ring that makes the queue correct: this is preserved by
\* every operation, and the properties below follow from it.
RingLayout ==
    /\ IndicesAgree
    /\ WithinMemory
    /\ Chained
    /\ Disjoint
    /\ FreeMemoryExact
    /\ LoansValid

\* While the writer holds a buffer, all its GuardBufLen bytes are inside the
\* packet memory and none belongs to a queued packet, whatever the reader
\* released or the writer committed since: the unlocked writes of
\* Classifier::processPacket cannot corrupt what PacketProcessor reads.
LentBufferFree ==
    lentBuf # NoBuffer =>
        /\ lentBuf >= 0 /\ lentBuf + GuardBufLen <= MaxMemory
        /\ \A k \in 0 .. Used - 1 : \/ Pos(k) + Size(k) <= lentBuf
                                    \/ lentBuf + GuardBufLen <= Pos(k)

\* An empty queue accepts a packet: no sequence of commits and releases
\* leaks a descriptor or a skipped byte (getBufferSpace refuses only while
\* a packet waits to be processed).
EmptyQueueAccepts == Used = 0 /\ MaxMemory >= GuardBufLen => ~NoRoom

-----------------------------------------------------------------------------
\* What the reader finds in the queue: the bytes of every queued packet.
Contents == [k \in 1 .. Used |->
                [i \in 1 .. Size(k - 1) |-> rawData[Pos(k - 1) + i - 1]]]

PacketData == UNION {[1 .. n -> Byte] : n \in 1 .. GuardBufLen}

Abs == INSTANCE AbsPacketQueue
           WITH Data <- PacketData, Capacity <- MaxBuffers,
                q <- Contents, lent <- lentBuf # NoBuffer, taken <- reading

\* The ring implements the abstract queue: packets come out in the order of
\* their commits with the bytes they were committed with.
AbsSpec == Abs!Spec
=============================================================================
