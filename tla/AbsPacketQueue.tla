--------------------------- MODULE AbsPacketQueue ---------------------------
(***************************************************************************)
(* What PacketQueue promises to the classifier (its only writer) and to    *)
(* the packet processor (its only reader): a bounded FIFO queue of packets *)
(* whose contents never change while they are queued, in which the writer  *)
(* first borrows a buffer and then commits or abandons it, and in which a  *)
(* request for a buffer is refused only while some packet is queued.       *)
(***************************************************************************)
EXTENDS Naturals, Sequences

CONSTANTS Data,     \* what a committed packet may contain
          Capacity  \* the number of packets the queue can hold

VARIABLES q,        \* contents of the queued packets, oldest first
          lent,     \* TRUE while the writer holds a buffer
          taken     \* TRUE while the reader works on the oldest packet

vars == <<q, lent, taken>>

Init == q = <<>> /\ lent = FALSE /\ taken = FALSE

\* The writer asks for a buffer; refusing needs a packet in the queue.
GetBufferSpace ==
    /\ \/ lent' = TRUE
       \/ q # <<>> /\ lent' = FALSE
    /\ UNCHANGED <<q, taken>>

\* The writer commits its buffer with contents d.
SetBufferOccupied(d) ==
    /\ lent
    /\ Len(q) < Capacity
    /\ q' = Append(q, d)
    /\ lent' = FALSE
    /\ UNCHANGED taken

\* The packet did not match a rule, or was too long: nothing is queued.
Abandon == lent /\ lent' = FALSE /\ UNCHANGED <<q, taken>>

\* The reader gets at the oldest packet, which stays in the queue.
ReadBuffer == ~taken /\ q # <<>> /\ taken' = TRUE /\ UNCHANGED <<q, lent>>

\* The reader is done with the oldest packet.
ReleaseBuffer == taken /\ q' = Tail(q) /\ taken' = FALSE /\ UNCHANGED lent

Next ==
    \/ GetBufferSpace
    \/ \E d \in Data : SetBufferOccupied(d)
    \/ Abandon
    \/ ReadBuffer
    \/ ReleaseBuffer

Spec == Init /\ [][Next]_vars
=============================================================================
