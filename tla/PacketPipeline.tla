--------------------------- MODULE PacketPipeline ---------------------------
(***************************************************************************)
(* The path of a packet through the meter: the Classifier reads packets    *)
(* from the network tap and queues the ones that match a rule, the         *)
(* PacketProcessor takes them from the queue and processes them, and the   *)
(* Meter runs the components that have no thread of their own, until it    *)
(* is told to stop; it then waits for the processor to empty the queue and *)
(* exports what was measured.  The queue is AbsPacketQueue, which          *)
(* PacketQueue implements.                                                 *)
(*                                                                         *)
(* A packet is its number in the order of arrival.  With a thread for the  *)
(* classifier but none for the processor the queue takes no lock at all    *)
(* (PacketProcessor.cc:57 passes it the processor's flag); that            *)
(* configuration is not one of this module.                                *)
(***************************************************************************)
EXTENDS Integers, Sequences, SequencesExt

CONSTANTS NPackets,  \* packets that ever arrive
          Capacity   \* descriptors of the queue

ASSUME PipelineAssumption == NPackets \in Nat /\ Capacity \in Nat \ {0}

VARIABLES threaded,   \* components that run in a thread of their own
          online,     \* TRUE for a network interface, FALSE for a trace file
          arrived,    \* packets at the tap so far
          next,       \* the next packet to read from the tap
          q, lent, taken,   \* the packet queue
          committed,  \* history: the packets queued, in order
          processed,  \* history: the packets processed, in order
          cpc,        \* where the classifier is
          ppc,        \* where the packet processor is
          mpc,        \* where the meter is
          locked,     \* TRUE while the meter holds the processor's mutex
          sig,        \* an 'S' is in the signal pipe
          eof,        \* the classifier thread reported the end of the trace
          stop,       \* the meter's main loop is to end
          owed        \* history: packets queued when the main loop ended

queue == <<q, lent, taken>>
config == <<threaded, online>>
vars == <<config, arrived, next, queue, committed, processed,
          cpc, ppc, mpc, locked, sig, eof, stop, owed>>

Q == INSTANCE AbsPacketQueue WITH Data <- 1 .. NPackets

Threaded(c) == c \in threaded

Init ==
    /\ threaded \in {{}, {"processor"}, {"classifier", "processor"}}
    /\ online \in BOOLEAN
    /\ arrived = IF online THEN 0 ELSE NPackets
    /\ next = 1
    /\ Q!Init
    /\ committed = <<>> /\ processed = <<>>
    /\ cpc = IF Threaded("classifier") THEN "reserve" ELSE "idle"
    /\ ppc = IF Threaded("processor") THEN "read" ELSE "idle"
    /\ mpc = "loop"
    /\ locked = FALSE
    /\ sig = FALSE /\ eof = FALSE /\ stop = FALSE
    /\ owed = 0

Running == mpc # "done"

-----------------------------------------------------------------------------
(* The environment: packets arrive, the user interrupts the meter. *)

Arrive ==
    /\ online /\ arrived < NPackets
    /\ arrived' = arrived + 1
    /\ UNCHANGED <<config, next, queue, committed, processed, cpc, ppc, mpc,
                   locked, sig, eof, stop, owed>>

\* sigint_handler
Interrupt ==
    /\ Running /\ ~sig /\ ~stop
    /\ sig' = TRUE
    /\ UNCHANGED <<config, arrived, next, queue, committed, processed, cpc,
                   ppc, mpc, locked, eof, stop, owed>>

-----------------------------------------------------------------------------
(* The classifier: processPacket, called over and over by its thread or    *)
(* once per round of the meter's loop.                                     *)

ClassifierOnly == UNCHANGED <<config, arrived, ppc, processed, mpc, locked, owed>>

\* processPacket returns: a thread calls it again, the meter goes on.
Returned == IF Threaded("classifier") THEN "reserve" ELSE "idle"

Reserve ==
    /\ Running /\ cpc = "reserve"
    /\ Q!GetBufferSpace
    /\ cpc' = IF lent' THEN "fill" ELSE Returned
    /\ UNCHANGED <<next, committed, sig, eof, stop>>
    /\ ClassifierOnly

\* A packet is read into the buffer and classified.
Fill ==
    /\ Running /\ cpc = "fill" /\ next <= arrived
    /\ next' = next + 1
    /\ cpc' \in {"commit", Returned}
    /\ UNCHANGED <<queue, committed, sig, eof, stop>>
    /\ ClassifierOnly

\* There is no packet.  In a trace file that is its end: a thread writes an
\* 'S' once, and without a thread the meter sees the return value.
FillNothing ==
    /\ Running /\ cpc = "fill" /\ next > arrived
    /\ cpc' = Returned
    /\ IF online \/ eof
       THEN UNCHANGED <<sig, eof, stop>>
       ELSE /\ eof' = TRUE
            /\ IF Threaded("classifier")
               THEN sig' = TRUE /\ UNCHANGED stop
               ELSE stop' = TRUE /\ UNCHANGED sig
    /\ UNCHANGED <<next, queue, committed>>
    /\ ClassifierOnly

\* Mutant of Wakened: the packet after the first one wakes it.
WakenedByNextOnly(p) == IF p = "asleep" /\ Len(q') = 2 THEN "read" ELSE p

\* A processor that sleeps in readBuffer is woken by the packet that makes
\* the queue non-empty.
Wakened(p) == IF p = "asleep" /\ Len(q') = 1 THEN "read" ELSE p

\* The packet read last, next - 1, is queued.
Commit ==
    /\ Running /\ cpc = "commit"
    /\ Q!SetBufferOccupied(next - 1)
    /\ committed' = Append(committed, next - 1)
    /\ ppc' = Wakened(ppc)
    /\ cpc' = Returned
    /\ UNCHANGED <<config, arrived, next, processed, mpc, locked, sig, eof,
                   stop, owed>>

\* setBufferOccupied refuses a packet longer than a buffer; nobody looks.
CommitFails ==
    /\ Running /\ cpc = "commit"
    /\ Q!Abandon
    /\ cpc' = Returned
    /\ UNCHANGED <<next, committed, sig, eof, stop>>
    /\ ClassifierOnly

-----------------------------------------------------------------------------
(* The packet processor: handleFDEvent, called over and over by its thread *)
(* or once per round of the meter's loop.                                  *)

ProcessorOnly == UNCHANGED <<config, arrived, next, cpc, committed, locked, sig,
                             eof, stop, owed>>

\* readBuffer: a thread sleeps on freeBufCond while the queue is empty.
Read ==
    /\ Running /\ ppc = "read"
    /\ IF q # <<>>
       THEN Q!ReadBuffer /\ ppc' = "process"
       ELSE /\ ppc' = IF Threaded("processor") THEN "asleep" ELSE "idle"
            /\ UNCHANGED queue
    /\ UNCHANGED <<processed, mpc>>
    /\ ProcessorOnly

\* pthread_cond_wait may return without a signal.
SpuriousWakeup ==
    /\ Running /\ ppc = "asleep"
    /\ ppc' = "read"
    /\ UNCHANGED <<queue, processed, mpc>>
    /\ ProcessorOnly

\* Mutant of Process: the buffer is given back before it is processed.
ReleaseFirst ==
    /\ Running /\ ppc = "process"
    /\ Q!ReleaseBuffer
    /\ processed' = processed
    /\ ppc' = IF Threaded("processor") THEN "test" ELSE "idle"
    /\ UNCHANGED mpc
    /\ ProcessorOnly

\* processPacket, which holds the processor's mutex throughout.
Process ==
    /\ Running /\ ppc = "process" /\ ~locked
    /\ processed' = Append(processed, Head(q))
    /\ ppc' = "release"
    /\ UNCHANGED <<queue, mpc>>
    /\ ProcessorOnly

Release ==
    /\ Running /\ ppc = "release"
    /\ Q!ReleaseBuffer
    /\ ppc' = IF Threaded("processor") THEN "test" ELSE "idle"
    /\ UNCHANGED <<processed, mpc>>
    /\ ProcessorOnly

\* The queue is looked at, and the meter signalled, without the mutex the
\* meter waits with.
TestEmpty ==
    /\ Running /\ ppc = "test"
    /\ ppc' = IF q = <<>> THEN "signal" ELSE "read"
    /\ UNCHANGED <<queue, processed, mpc>>
    /\ ProcessorOnly

SignalDone ==
    /\ Running /\ ppc = "signal"
    /\ ppc' = "read"
    /\ mpc' = IF mpc = "asleep" THEN "relock" ELSE mpc
    /\ UNCHANGED <<queue, processed>>
    /\ ProcessorOnly

-----------------------------------------------------------------------------
(* The meter's main loop and shutdown (Meter::run). *)

MeterOnly == UNCHANGED <<config, arrived, next, queue, committed, processed, eof>>

\* A round begins: online, a pending signal is handled instead of a packet.
BeginRound ==
    /\ mpc = "loop"
    /\ IF Threaded("classifier") \/ (online /\ sig)
       THEN UNCHANGED cpc
       ELSE cpc' = "reserve"
    /\ mpc' = "signals"
    /\ UNCHANGED <<ppc, locked, sig, stop, owed>>
    /\ MeterOnly

ReadSignals ==
    /\ mpc = "signals"
    /\ Threaded("classifier") \/ cpc = "idle"
    /\ stop' = (stop \/ sig)
    /\ sig' = FALSE
    /\ mpc' = "process"
    /\ ppc' = IF Threaded("processor") THEN ppc ELSE "read"
    /\ UNCHANGED <<cpc, locked, owed>>
    /\ MeterOnly

\* Mutant of EndRound: the meter does not wait for the processor.
EndRoundNoWait ==
    /\ mpc = "process"
    /\ Threaded("processor") \/ ppc = "idle"
    /\ mpc' = IF ~stop THEN "loop" ELSE "export"
    /\ owed' = IF stop THEN Len(committed) ELSE owed
    /\ UNCHANGED <<cpc, ppc, locked, sig, stop>>
    /\ MeterOnly

\* do ... while (!stop), then waitUntilDone takes the processor's mutex.
EndRound ==
    /\ mpc = "process"
    /\ Threaded("processor") \/ ppc = "idle"
    /\ mpc' = IF ~stop THEN "loop"
              ELSE IF Threaded("processor") THEN "relock" ELSE "export"
    /\ owed' = IF stop THEN Len(committed) ELSE owed
    /\ UNCHANGED <<cpc, ppc, locked, sig, stop>>
    /\ MeterOnly

WaitLock ==
    /\ mpc = "relock" /\ ~locked
    /\ locked' = TRUE
    /\ mpc' = "check"
    /\ UNCHANGED <<cpc, ppc, sig, stop, owed>>
    /\ MeterOnly

\* The loop of waitUntilDone: with the queue empty it returns and unlocks.
WaitCheck ==
    /\ mpc = "check"
    /\ mpc' = IF q = <<>> THEN "export" ELSE "wait"
    /\ locked' = (q # <<>>)
    /\ UNCHANGED <<cpc, ppc, sig, stop, owed>>
    /\ MeterOnly

\* threadCondWait: unlock and sleep are one step for those with the mutex.
WaitSleep ==
    /\ mpc = "wait"
    /\ mpc' = "asleep"
    /\ locked' = FALSE
    /\ UNCHANGED <<cpc, ppc, sig, stop, owed>>
    /\ MeterOnly

WaitSpurious ==
    /\ mpc = "asleep"
    /\ mpc' = "relock"
    /\ UNCHANGED <<cpc, ppc, locked, sig, stop, owed>>
    /\ MeterOnly

\* Flow data is exported; then the components and their threads are gone.
Export ==
    /\ mpc = "export"
    /\ mpc' = "done"
    /\ UNCHANGED <<cpc, ppc, locked, sig, stop, owed>>
    /\ MeterOnly

-----------------------------------------------------------------------------
ClassifierStep == Reserve \/ Fill \/ FillNothing \/ Commit \/ CommitFails
ProcessorStep == Read \/ Process \/ Release \/ TestEmpty \/ SignalDone
MeterStep == BeginRound \/ ReadSignals \/ EndRound \/ WaitLock \/ WaitCheck
             \/ WaitSleep \/ Export

Next ==
    \/ Arrive
    \/ Interrupt
    \/ ClassifierStep
    \/ ProcessorStep
    \/ SpuriousWakeup
    \/ MeterStep
    \/ WaitSpurious

\* The operating system runs every thread that can run, again and again.
\* Packets need not arrive, nobody need interrupt the meter, and wakeups
\* without a signal need not happen.
Spec == Init /\ [][Next]_vars
        /\ WF_vars(ClassifierStep) /\ WF_vars(ProcessorStep) /\ WF_vars(MeterStep)

-----------------------------------------------------------------------------
\* Every variable has values of its type: queued and processed packets have
\* arrived before, and the threads are where the code can stop.
TypeOK ==
    /\ threaded \subseteq {"classifier", "processor"}
    /\ online \in BOOLEAN
    /\ arrived \in 0 .. NPackets /\ next \in 1 .. arrived + 1
    /\ q \in Seq(1 .. NPackets) /\ lent \in BOOLEAN /\ taken \in BOOLEAN
    /\ committed \in Seq(1 .. NPackets) /\ processed \in Seq(1 .. NPackets)
    /\ cpc \in {"idle", "reserve", "fill", "commit"}
    /\ ppc \in {"idle", "read", "asleep", "process", "release", "test", "signal"}
    /\ mpc \in {"loop", "signals", "process", "relock", "check", "wait",
                "asleep", "export", "done"}
    /\ locked \in BOOLEAN /\ sig \in BOOLEAN /\ eof \in BOOLEAN /\ stop \in BOOLEAN
    /\ owed \in 0 .. NPackets

\* The packets that are queued but not processed yet.
Waiting == IF ppc = "release" THEN Tail(q) ELSE q

\* Every queued packet is processed once, in the order the classifier
\* queued it, whatever the threads do: none is skipped or seen twice.
ProcessedOnceInOrder == committed = processed \o Waiting

\* When the meter exports the flow data at shutdown, every packet that had
\* been queued when it left its main loop is in that data
\* (PacketProcessor::waitUntilDone, or the loop itself without threads).
DrainedBeforeExport == mpc \in {"export", "done"} => Len(processed) >= owed

\* The processor sleeps only while the queue is empty: no packet waits for a
\* thread nobody is going to wake.
SleepsOnlyWhenEmpty == ppc = "asleep" => q = <<>>

\* Every packet that is queued gets processed, unless the meter is shut down.
EveryPacketProcessed ==
    \A p \in 1 .. NPackets :
        Contains(committed, p) ~> (Contains(processed, p) \/ stop)

\* The meter, told to stop, comes to its end: waitUntilDone returns.
Terminates == stop ~> mpc = "done"
=============================================================================
