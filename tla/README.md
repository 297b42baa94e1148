# Netmate, specified

TLA+ specifications of Netmate, the flexible network meter with flow
classification in `src/`: modules, TLC configurations and TLAPS proofs. Paths
below are relative to `src/src/netmate/` unless they begin with `src/`.

Netmate reads packets from an interface or a trace file, finds the metering
rules each one matches, lets processing modules measure them (per rule or per
flow), and hands records of the measurements to export modules, at intervals,
when a flow ends, when a rule ends, and when the meter ends. Rules are added
and removed while it runs.

## The system

| Component | State | Operations | Works with |
|---|---|---|---|
| PacketQueue | ring of descriptors, ring of bytes, counters, condition variable | getBufferSpace, setBufferOccupied, readBuffer, releaseBuffer | filled by Classifier, emptied by PacketProcessor, perhaps in two threads |
| Classifier (ClassifierSimple, ClassifierRFC) | filters of the active rules, network taps | processPacket, addRules, delRule(s) | NetTap, PacketQueue; tells the meter of the end of a trace by an `S` in the signal pipe |
| PacketProcessor | for each active rule its modules, its data, its flows | handleFDEvent, processPacket, addRules, delRule(s), exportRule, ruleTimeout, waitUntilDone | PacketQueue, FlowCreator, modules, Exporter |
| FlowCreator | a rule's flows by key | getFlow, addFlow, deleteFlow | PacketProcessor |
| Exporter | export modules of each rule | storeData, handleFDEvent, exportFlowRecord, addRules, delRule(s), waitUntilDone | FlowRecordDB, export modules |
| FlowRecordDB | last record per rule and modules, queue of records | storeData, getNextRec, delData | meter and processor store, exporter takes, perhaps in a thread |
| RuleManager, RuleIdSource | rules by number and by name, removed rules, free numbers | addRules, activateRules, delRule(s) | EventScheduler |
| EventScheduler | events by time | addEvent, delRuleEvents, getNextEvent, reschedNextEvent, getNextEventTime | writes an `A` into the signal pipe when an event is due |
| Meter | main loop, signal pipe | run, handleEvent, signal handlers | everything |
| ModuleLoader | loaded libraries and their reference counts | getModule, releaseModule, getModuleInfo | PacketProcessor, Exporter, CtrlComm; two loaders, one per kind |
| Processing modules | a record per rule or flow | initFlowRec, processPacket, exportData, resetFlowRec, timeout | PacketProcessor; may ask to end a flow |
| Metric data | rows in memory without marks | written by modules, read list by list | processing modules to export modules |
| Export modules | files, sockets, connections, a buffer shared by all rules | initExportRec, exportData, destroyExportRec, timeout | Exporter, the scheduler's timers |
| Rule, parsers | definitions of filters and values, loaded once | parseRules, parseRulesBuffer | RuleManager |
| CtrlComm, httpd | connections and their states, one current event | handleFDEvent, processCmd, sendMsg | Meter: requests become events |
| nmrsh | | requests | the control interface |
| ConfigManager, Logger, CommandLineArgs | | | |

Classifier, processor and exporter each have a thread or are called once per
round of the meter's main loop (`Thread` in their configuration). Components
interact by direct calls under a mutex per component, by the packet queue and
the record queue, by events, and by the signal pipe. What is hard:

* a wakeup of a condition variable that is sent before somebody sleeps;
* memory that two threads use without a lock between two locked calls (the
  ring), and records that a table and a queue both refer to;
* a rule that is added to and removed from three components, one after the
  other, while packets flow, and whose number is used again;
* decisions (idle or not, due or not) taken in one call and used in the next;
* events executed by tokens that do not say which event they are for;
* requests that wait in a queue while their connection lives on, or does not;
* things shared by rules that come and go: libraries, buffers, sockets, classes
  of packets in precomputed tables;
* memory whose layout writer and reader compute each for itself.

What makes each component correct, in a line:

* *PacketQueue*: a FIFO of intact packets; nothing of the ring is ever lost.
* *Classifier to PacketProcessor*: each queued packet is processed once, in
  order, and nobody sleeps on work; at the end the queue is drained.
* *FlowCreator and PacketProcessor*: a packet accounted to a rule is measured in
  one place until it is in a final record, and ends up there.
* *FlowRecordDB and Exporter*: no record is used after it is freed, none leaks,
  all are exported once and in order.
* *RuleManager, RuleIdSource*: numbers are unique; database, index and tables
  agree in every state another thread can see.
* *EventScheduler and Meter*: no event is early, none is lost, none starves.
* *Classifiers*: a packet is found to match just the rules whose filters it
  passes, whatever rules were added and removed before.
* *ModuleLoader*: a library is loaded and initialized as long as a rule uses it,
  and no timer outlives it.
* *Processing modules*: what the exports say adds up to the packets; no
  assertion fails; no memory is used that a module does not have.
* *Metric data and export modules*: every row arrives once, in order, where the
  rule wants it, and after what describes it.
* *Control interface and parsers*: a client gets the answer to its own request,
  and the rules are those that the answers say and the texts describe.

`PROJECT.json` has every component with what is modelled of it, the lines of
source each definition stands for, and the list of hazards with the properties
that are about them.

## Modules

`AbsPacketQueue` is what the queue promises: a bounded FIFO of packets with a
buffer lent to the writer and a packet taken by the reader.

`PacketQueue` is the ring of PacketQueue.cc: descriptors (`bufRecs`,
`nextInBuf`, `nextOutBuf`, `freeBuffers`), bytes (`rawData`, `curData`,
`freeMemory`), the guard space and the bytes skipped at the end. Pointers are
offsets. Every call holds the mutex and is one action; the writer fills its
buffer between two calls (`WriteBuffer`), which is Classifier.cc:104-120. `Abs` is the mapping to AbsPacketQueue: the queue of the
contents of the packets' bytes.

`PacketPipeline` is Classifier, PacketProcessor and Meter::run around an
*AbsPacketQueue*, which PacketQueue implements. Program counters `cpc`, `ppc`
and `mpc` split each loop where the code locks, unlocks or waits. `locked` is the
processor's mutex while waitUntilDone holds it: the processor's thread tests
the queue and signals `doneCond` without it (PacketProcessor.cc:686-692).

`FlowRecordExport` is storeData, the exporter's loop, delRule and waitUntilDone:
`elist` and `db` are the queue and the table, `marked` the flag deleteRec,
`alive` what is allocated. Each access of the exporter to a record is a step,
because it holds no lock then.

`RuleLifecycle` is rules from addRules to storeRuleAsDone. A handler changes the
components one after the other, so each is a step (`todo`): the classifier and
the processor see the states between. Time is left out: any scheduled event may
be the next one, which has every order the times allow and more (Rule.cc accepts
a rule that stops before it starts). What RuleManager keeps is one record
(`Manager`), which `AddRule` and `DelRule` map to the next one; the rules of an
event are deleted in a step each.

`FlowTable` is processPacket, exportRule and ruleTimeout with the flow table of
every rule. A flow's key is a conversation and a direction; a module's data is
the set of packets it has seen, so that a packet lost or counted twice shows.
Modules in `Enders` may ask for the export of a flow (as netai_flowstats does
at the end of a connection). `busy` is what the meter's thread does between two
locked calls.

`MeterClock` has the times: the scheduler's multimap as a set of events with
their times, the signal pipe, and the main loop round by round, online (one
token a round, the system's clock) and offline (all tokens, the clock of the
trace). SIGINT and SIGUSR1 write into the same pipe. `First` is what
getNextEvent may take: of events with the same time any, since the multimap of
C++98 does not promise an order, so nothing shown here rests on one.

`RfcTables` is ClassifierRFC without its packets: number lines and their marks
(`Marks`), classes with reference counts and a list of free ones, the first
batch of rules (`AddInitialRules`), rules added later class by class (`AddRule`), rules removed, `RfcClassify`. A bitmap is the set of its bits.
`SimpleFilters` is ClassifierSimple in the same terms. `Classifiers` gives both
the same rules, which one is a choice of the initial state, and holds them
against `Matching`, which says in two lines what the filters mean.

`FlowStats` and `Measurements` are the processing modules, each as its record
and functions of the record (`PingPacket`, `PktlenExport`, `CaptureReset`, ...);
`ProcModules` drives one of them, chosen in the initial state, with the packets
of a flow, of a TCP connection with its two ends, or of an RTP stream, and with
exports, resets and timeouts in any order.

`ModuleUse` has the two loaders, the rules that processor and exporter have
entries for, and the timers. Checking a rule and adding it are sequences of
steps (`getModule`, `initFlowRec`, ...), each of which may throw; the operators
compute what is left then.

`MetricData` is the memory between processing and export modules: ProcModule.c
aligns and writes, MetricData.cc aligns and reads, `Garbage` is what is read in
another place than it was written. `ExportFiles` and `ExportSockets` are the
export modules, `ExportModules` the rules, records and timers that drive them.

`RuleParsers` is texts to rules. A parser is the set of its possible results:
nothing if it throws, several where it leaves a field uninitialized. `lists` is
what stays in RuleManager between two texts. `ControlComm` is httpd's connection
states, request.c, response.c, CtrlComm and the part of the main loop that runs
them. A client sends its commands (those of nmrsh, or a browser's) one after the
other, in parts; `conns` are the server's connections with the state names of
httpd.h; `events` the scheduler's due events; `tasks` the installed rules, made
by RuleParsers.

`PacketPathProofs` (of Classifiers, PacketQueue and PacketPipeline),
`FlowRecordProofs` (of FlowRecordExport and ProcModules),
`RuleLifecycleProofs`, `FlowTableProofs`, `MeterClockProofs`,
`ModuleUseProofs`, `ExportModulesProofs` and `ControlCommProofs` have the
theorems.

Composition: PacketPipeline uses AbsPacketQueue (INSTANCE), which PacketQueue
implements. Classifiers extends RfcTables and SimpleFilters, ProcModules extends
FlowStats and Measurements, ExportModules extends MetricData, ExportFiles and
ExportSockets, ControlComm extends RuleParsers. The rest share no variables:
ControlComm's commands are RuleLifecycle's requests, whose events have the
effects of FlowTable and FlowRecordExport and the times of MeterClock; the
libraries of ModuleUse are those of ProcModules and ExportModules.

Definitions named in a comment as a mutant of another one are that definition
with a plausible mistake; each property of a passing run is violated by one of
them. They are not part of any specification.

## Runs

| Run | What it shows | Bounds |
|---|---|---|
| packet_queue | layout, separation of writer and reader, no leak, implements AbsPacketQueue | 3 descriptors, 7 bytes, guard 3 |
| packet_pipeline | processed once and in order, drained at the end, nobody sleeps on work | 3 packets, 2 descriptors |
| pipeline_hang | *violation*: the meter may never end | 1 packet |
| record_export | life and order of flow records, with and without a thread | 2 rules, 2 module sets, 3 records |
| rule_lifecycle | database, index, events and tables agree; rules start and stop | 2 names, 3 rules, 1 removed rule remembered |
| flow_table | every packet in one place and then in a final record, directions, idle flows | 2 rules, 3 packets, 1 conversation, 3 s |
| meter_clock | nothing early, no burst, exports go on, stops happen | 2 rules, intervals 1 and 2, 3 s |
| classifiers | both classifiers find what the filters say, after any 4 additions and removals | 10 kinds of rules, 3 at once, 3 places (one of one byte), 2 at once in RFC's tables, 3 values |
| module_use | references, initialized libraries, timers | 5 names, 8 kinds of rules, 2 at once, libraries that come and go |
| proc_modules | assertions, end of connections, sums, memory of each of 15 modules | 5 packets, 8 segments, 2 lengths, 3 gaps |
| export_modules | rows arrive and are described, connections counted, buffers sent | 10 kinds of rows, 6 pairs of rules, 2 records of 2 rows |
| control | answers, rules, events and connections of 3 clients | 5 sets of scripts, bodies in 2 parts, 2 connections at once |

Why the bounds are enough. The ring of 7 bytes with a guard of 3 has packets of
1 to 3 bytes that fit, that leave too little at the end, and that end exactly
there, with 1, 2 and 3 queued: every branch of setBufferOccupied and
releaseBuffer is taken with every number of packets behind it. Two descriptors
for three packets make the pipeline's queue empty, full and empty again, which
is where threads sleep and are woken. Three records of two rules and two module
sets give a record that is replaced before, while and after it is exported.
Three rules with two names and one removed rule remembered give a name and a
number that are used again. Three packets give a flow two packets and a
successor, in both directions; two rules are what a packet's direction needs to
pass from one to the other. In three seconds an event with interval 1 is up to
three intervals late.

Three values on a number line are a first, a middle and a last one, with a class
of their own, or two sharing one; two places are what phases 1 and 2 need to
have something to combine, and the third one has values of one byte, whose
number line ends differently; three rules with one spare class make the tables grow
and classes be split and given back. Five packets are a first, two that are
measured, a silence and one after it, with an export or a reset at every point;
eight segments open and close a connection, with one repeated. Tables of one
and two entries (TOP_N, ENTRIES, COUNTCHUNK, INIT_ELEM) are full, or grow, with
the second and third packet. Two rules that use one library, or one socket, are
enough for the second to find what the first left; two connections are too few
for three collectors. A command of two parts and one of one part leave every
state of a connection in which the other clients' commands can be executed, and
three clients exceed two connections.

Bounds that are not the program's: `NPackets`, `NRecords`, `MaxRules` end the
supply of packets, records and rules; `DoneListSize` is 1 where the program has
50 (`DONE_LIST_SIZE`, constants.cc:36); `DropRange` is where
`droppedPackets` wraps; `MaxTime` stops the models' clocks, and new packets stop
coming early enough in FlowTable for the last flow to become idle; `MaxDumps`
limits SIGUSR1; one request at a time waits in MeterClock. `NumberLineSize` is
3 (65536, or 256 for the places in `ByteLines`), `MaxLines` 2 ends the number
lines of a first batch in ClassifierRFC, `PREALLOC_CLASSES` 1 (32, ClassifierRFCConf.h), `MaxTasks` and
`MaxPackets`, `MaxSegments`, `MaxRecords`, `MaxRows` end the supply; `MaxExports` is 2, the export modules of a rule;
`MaxUnreleased` is where ModuleUse stops counting references that are lost;
`Word` is 5 for 2^32, so that a gap can be longer than a word; `BufferRows` and
`MaxConn` in ExportModules are 2 (bytes of a datagram; 16 connections), `MaxConn`
in ControlComm 2 (32), `KeepaliveTime` and `Timeout` 1 and 2 intervals of the
timer, so that the first is over before the second. `LongBytes` is 4: with 8,
the modules that print through a long are among the situations below.

### Fairness

PacketPipeline and FlowRecordExport: weak fairness of each thread, since the
operating system runs a thread that can run. Nothing is assumed of packets,
users, or spurious wakeups. RuleLifecycle: a handler ends, and (strong fairness)
events that start or stop a rule are not passed over for ever by exports,
because events are handled in the order of their times and an export that is
scheduled again gets a later one. MeterClock does not assume that but shows it,
for events that are due: its only fairness is that the main loop goes on.
ExportModules: the second in which a socket module waits goes by, and its
timer runs (a recurrent event, as in MeterClock). ControlComm: the main loop
goes on (`WF_polled(LoopGoesOn)`), and so does time while the loop waits
(`SF_events(TimePasses)`: the timer of the control interface is a recurrent
event of the scheduler); nothing is assumed of clients, which may stop in the
middle of a request. FlowTable: the clock goes on, the test for idle flows comes again and again
(FLOW_TIMEOUT is a recurrent event, RuleManager.cc:365-382), and the meter
completes a handler.

### What the passing runs leave out

Where the code does not keep a property in some situation, the passing run
excludes just that situation, by a constant or by what the MC module offers, so
that the rest is still checked. With the situation added TLC finds the
violation. The one that contradicts a comment of the source and stops the meter
has a run and a finding (pipeline_hang); the others are listed here and, with
their lines, under "hazards" in PROJECT.json.

| Constant | Situation | Property that fails |
|---|---|---|
| FlowRecordExport, Expiry = "any" | a rule is removed while one of its records is queued: delData frees it (FlowRecordDB.cc:174) | RecordsOwned |
| RuleLifecycle, "fresh number" | the list of free numbers runs empty after a removal, and numbers are counted on (RuleIdSource.cc:67) | RulesFound |
| RuleLifecycle, Requestable = "any" | a bidirectional rule is removed by request: its backward filters stay (ClassifierSimple.h:91) | TablesAgree |
| FlowTable, "timeout race" | a rule without flows, and a thread for the processor: a packet between ruleTimeout and exportRule | IdleFlowsExported |
| "removal race" | a thread for the processor: a packet between the last export and delRule | EveryPacketOnce |
| "reordered" | packets with time stamps that go back | IdleFlowsExported |
| "two directions" | two bidirectional rules for the same packets: the second sees the mark the first one set | FlowsAreConversations |
| "other modules" | a flow that one module ends has data of others | EveryPacketOnce |
| "plain end" | a module ends the flow of a rule that has none | EveryPacketOnce |
| "separate backward" | rules with separate paths, and a classifier that reports the direction (PacketProcessor.cc:522) | FlowsAreConversations |
| MeterClock, "late start" | a trace file, and no rule that starts at once: the first event is executed all the same | NotEarly |
| "dump while due" | SIGUSR1 read while an event is due: its token stays, the next poll writes another | NotEarly |
| Classifiers, "missing layer" | a packet without a layer that a rule of ClassifierSimple looks at | MatchesItsRules |
| "next after backward" | ClassifierSimple: rule n matches backward only, rule n + 1 forward | MatchesItsRules |
| "late start", "range", "set order", "last value" | RFC: marks of a number line that are not at 0, of a range, of a set with falling neighbours, at the highest value of two bytes | MatchesItsRules |
| "past the line" | RFC: a first batch with a filter on 255 where values are one byte; the mark is written behind the 256 points (ClassifierRFC.cc:307, :434) | none: what is overwritten is not in the source, and the model loses the mark |
| "lost direction", "other places", "new place" | RFC: a backward direction that the last rule of the batch does not have, or that looks elsewhere; a place no earlier rule looked at | MatchesItsRules |
| "class given back", "removal" | RFC: a class is reused while values lead to it; rules are removed other than all at once, or bidirectional ones | MatchesItsRules |
| ProcModules, "older than the flow", "long gap" | a packet with a time before the flow's first; times between packets beyond 32 bits | AssertionsHold |
| "kept after export", "capped reset" | netai_flowstats exported without a reset; _dscp_1s reset after its second was over | MeasuresAddUp |
| "freed rows" | show_ascii used after a reset | MemorySuffices |
| ModuleUse, "last user" | an export module with a timer loses its last rule | TimersHaveModules |
| "other action" | a rule's actions have something else before a processing module with a timer | TimersHaveModules |
| "two names" | one library under two names | ModulesReady |
| ExportModules, "two hosts", "last socket closed", "rows left" | socket modules: rules with different hosts; the rule whose socket is used goes; rows are in the buffer when the last one goes | RowsArrive |
| "empty list" | bin_file and ipfix: a list without rows before another | RowsArrive |
| "key after rows" | ipfix: the first record of a flow has no rows | RowsAreDescribed |
| "no width" | ipfix: columns of type STRING and BINARY; the template has the width that DataTypeSize gives (ipfix.cc:432, MetricData.cc:168), so that nothing of a string arrives, and the length of a binary but none of its bytes | RowsArrive |
| ControlComm, "page after command", "timer with command" | a connection served, or the timer run, in the call that queued a command (CtrlComm.cc:367) | EventsHaveRequests |
| "hang up", "pipelined" | a client closes, or sends again, before it has its answer | EventsHaveRequests |

Excluded by the values the MC modules give, for the same reason. ExportModules:
jitter and port_use (64-bit values written at 4 and read at 8), a list inside a
row (list2), `LongBytes` = 8 with 32-bit values through text_file, ctext_file or
ac_udp (printed as a long), two rules with one file, bin_file with a file per
module, 32-bit keys (turned by ntohs, MetricData.cc:293): RowsArrive;
netai_arff with two modules or the option for flow numbers: RowsAreDescribed.
ControlComm: a first segment shorter than four bytes (request.c:88 looks at
them), a user that is refused before the body is read: AnswersFitRequests;
several rules of which some are installed already (RuleManager.cc:273), a stop
before the start (accepted), a filter value out of the range of its type (the
test in ParserFcts.cc, `(n<min) && (n>max)`, is never true), a bidirectional
rule in the one-line form (no reverse attributes), two GLOBAL settings of one
module: AnswersTellTheRules; an argument that is no option in the one-line form
(MAPIRuleParser.cc:159 never ends): deadlock. A rule whose FlowTimeout is "yes"
has an uninitialized timeout (Rule.cc:138); the model takes any value of
`Leftover`, and no property depends on it.

More is stated in the modules: without the restriction to `~threaded` no record
leaks fails, because storeData and the exporter test and set a record's mark
without a common lock; and DrainedAtShutdown (FlowRecordExport) fails with a
thread for the exporter, which may still hold the last record when
waitUntilDone finds the queue empty. After the meter was told to stop, an event
may be executed early offline (a round reads `S`, polls again, and writes a
second token for the same event), so NotEarly and ExportsKeepPace are stated
until then.

## Proofs

`PacketPathProofs` has three parts. The first proves for any rules and filters
that satisfy `ClassifiersAssumption` (an exact filter has a value, a range two,
as the parsers make them, MAPIRuleParser.cc:52-91; both places of a filter have
values of one width), any size of a number line,
any number of preallocated classes and any places:

* `TablesAreLargeEnough`: `ClassifierSpec => []TablesLargeEnough`;
* `ClassifierInvariant`: `ClassifierSpec => []ClassifierInv`, from which it follows.

genFinalMap writes a row for every class of phase 2 into a map that has as many
rows as phase 1 has classes. That this suffices is said nowhere in the code. The
proof's reason: phase 2 has the one chunk of phase 1 as its parent, and gets a
class for each bitmap it finds there and no other, so that its bitmaps are some
of phase 1's (`Layered`); both number the classes in use from 0 without a gap
and have each bitmap once (`Taken`: classes of these phases are never given
back, only those of phase 0 are, by remapIndex and delRule). `FindECTaken`
is the step of findEC; `FewerClasses` compares the two phases by an injection
from classes to bitmaps. Setting a rule's bit in every class of phase 0, taking
it away, and whatever remapIndex does there, change what the intersections
find, never that they start from phase 1's classes. So the theorem holds with
all of the exposed situations, where the matches themselves are wrong. (After
"removal" rules may be added to tables without a line; which bitmap the
intersection of no classes is, the model leaves open, and the theorem holds for
any.) `Sized` says that the chunks are as large as their parents' classes
combined.
The tables are made by folds in folds: over the rules of a batch, directions,
filters, the values of a set, points, combinations of classes. `FoldExists` and
`FoldStates` turn a fold into a sequence of states, one after each place, by
induction over numbers and sets of places (`SetInduction`), and a lemma for each
of the fifteen folds (`ScanSteps`, `IntersectionSteps`, ...) gives the sequence
that `AlongStates` follows.

The second part proves for every number of
descriptors, size of memory, guard and set of bytes that satisfy
`QueueAssumption`:

* `TypeCorrect`: `QueueSpec => []QueueTypeOK`;
* `LayoutCorrect`: `QueueSpec => []RingLayout`;
* `WriterReaderSeparation`: `QueueSpec => []LentBufferFree`;
* `NoLeak`: `QueueSpec => []EmptyQueueAccepts`;
* `LayoutInvariant`: `QueueSpec => []QueueInv`, from which they follow.

QueueTypeOK alone is not inductive: that `freeMemory` stays in its range depends on
what is given back when a packet is released, and that on where the packet
after it begins. `RingLayout` says it: each queued packet begins where the one
before it ends, or at 0 if that leaves less than the guard, and the last one is
followed by `curData` (`Chained`); packets do not overlap (`Disjoint`); all lie
between the oldest one and `curData`, and the free bytes are the rest
(`FreeMemoryExact`); each packet, and the next buffer, has the guard before the
end of the memory (`WithinMemory`); the two indices are as far apart as packets
are queued (`IndicesAgree`); and a buffer that is lent is the one at `curData`,
with room for a packet (`LoansValid`).
`QueueInv` is QueueTypeOK and RingLayout. It is checked by TLC (packet_queue) and proved
in two lemmas, `CommitKeepsLayout` and `ReleaseKeepsLayout`, which describe the
ring after a call by functions of the ring before it (positions and sizes shifted
by one, or extended by one) and compare them place by place; `SlotFacts` has the
arithmetic of the ring of descriptors. The other actions leave the ring alone.

Then `ImplementsQueue`, `QueueSpec => AbsSpec`: the ring implements AbsPacketQueue, with the bytes between a packet's start and its end
as its contents. A commit appends the bytes of the lent buffer (`CommitAppends`),
a release takes the first packet away (`ReleaseRemovesOldest`), what the writer
stores meanwhile is not in a queued packet (`WriteKeepsContents`, from
LentBufferFree), and a refusal with an empty queue changes nothing, since no
buffer was lent.

The theorems need no assumption but `QueueAssumption`: sizes are natural
numbers, the guard is not zero. Integers are unbounded: the size of the memory,
a product of the configured number of packets (PacketQueue.cc:55), is assumed to
fit an `int`, which the code does not test.

The third part proves for every number of packets and capacity of the queue
(`PipelineAssumption`), and each of the three configurations of threads:

* `PipelineTypeCorrect`: `Spec => []TypeOK`;
* `OnceInOrder`: `Spec => []ProcessedOnceInOrder`;
* `NoLostWakeup`: `Spec => []SleepsOnlyWhenEmpty`;
* `DrainedAtExport`: `Spec => []DrainedBeforeExport`;
* `PipelineInvariant`: `Spec => []IInv`, from which they follow.

Its invariant adds to these what makes them inductive. The packet in the
classifier's buffer is one that was read (`ReadBeforeQueued`); the processor
has taken the oldest packet exactly while it works on it
(`TakenWhileAtWork`), so that a queue that is empty has nothing in work, which
is what waitUntilDone relies on when it looks at the queue only; a processor
without a thread works only in its part of the round (`WorksInTurn`), and then
a round queues at most one packet and ends when it is processed
(`RoundByRound`), so that the meter may export without waiting; and what is
owed was queued (`PaidBeforeExport`). There is a lemma for the steps of each
thread, with one step per action and one leaf per conjunct. The queue is
AbsPacketQueue, which PacketQueue implements (`ImplementsQueue`). That the meter
does come to its end is not proved, and is false with threads (pipeline_hang).

The first part of `FlowRecordProofs` proves for every number of records and all sets of
rules and of export modules, with and without a thread for the exporter, as long
as rules are removed only while none of their records is queued (`Expiry =
"idle"`, the assumption of the passing run; the finding shows that the code does
not see to it):

* `RecordsInOrder`: `RecordsSpec => []ExportedOnceInOrder`;
* `RecordLife`: `RecordsSpec => []RecordsOwned`;
* `RecordsInvariant`: `RecordsSpec => []IInv`, from which they follow.

That no record is freed under the exporter is not inductive: it depends on the
tests of `deleteRec` that were made before. The invariant says that the queue
holds the newest records and the exporter the one before them (`InOrder`), all
older ones having been exported (`ExportedSoFar`); that the table refers to a
record of the right rule, and that a record on its way into the table is not
marked (`TableByKey`); that a marked record is in the table or in the queue,
never in both, and that who found it marked is the last to have it
(`MarkedOnceLetGo`): this holds with a thread too, because a mark is never taken
back. What is lost with a thread, freeing what nobody has, is in
`NothingBetween`: without one nothing happens between a test and what follows
from it. `RulesOfQueued` is what the assumption on the removal of rules keeps.
There is one lemma per action, with one step per conjunct; `QuietLemma` does the
steps that touch no record.

`RuleLifecycleProofs` proves for any number of names and rules and any length of
the list of removed rules, without the situation "fresh number" (`Exposed = {}`,
as in the run):

* `RulesAreFound`: `Spec => []RulesFound`;
* `SchedulerMatchesRules`: `Spec => []EventsMatchRules`;
* `ComponentsAgree`: `Spec => []TablesAgree`, if requests remove rules that are
  not bidirectional only (`Requestable = "oneway"`);
* `LifecycleInvariant`: `Spec => []IInv`, from which they follow.

RulesFound is not inductive: which number the next rule gets depends on the free
list, and whether a removed rule gives up the right one on the list of removed
rules. `Consistent` has both: a number is held by one rule, installed or
remembered as removed, or is free, and is free once (`NumbersHeldOnce`); until a
number was given back `num` is above all of them (`NumCountsRules`: this is what
"fresh number" breaks); the removed rules are remembered once (`DoneOnce`);
numbers, rules and names lead to each other (`Indexed`); events are of installed
rules (`EventsOfInstalled`). It is stated of the record that AddRule and DelRule
map, so that one lemma serves each. `Handling` says which event can be under way
with which components still to do, and `TablesInStep` what each table is then:
the active rules, with or without those of the event, by the number of
components left. TablesAgree is that table read off at each point.

`FlowTableProofs` proves for any number of rules, packets, modules and
conversations, without the exposed situations (`Exposed = {}`):

* `PacketsAreOnce`: `Spec => []EveryPacketOnce`;
* `FlowsAreTold`: `Spec => []FlowsAreConversations`;
* `IdleFlowsAreExported`: `Spec => IdleFlowsExported`, which is an invariant and
  an action property;
* `FlowTableInvariant`: `Spec => []IInv`, from which they follow.

Rules do not look at each other's flows, so the invariant is one of a rule
(`EntryOk`), for all of them. That packets are in one place (`PacketsOnce`)
needs that a key and a path lead to one flow (`FlowsDistinct`) and that a module
which ends a flow has it for itself (`ModulesFit`). That a timeout finds all
idle flows needs that no flow's last packet is later than its rule's, and that a
rule whose time is cleared has nothing measured (`LastPacket`). The directions
need that all flows of a bidirectional rule have the key of the packets that are
told to be forward, which the classifier, if it tells directions at all, says
too (`Conversations`). `MeterInStep` is what the meter's thread may rely on
between two calls: the rule it found idle is still active, and still idle if it
has no flows; the rule it deletes next was exported.

`MeterClockProofs` proves for any set of rules, start times, intervals and
durations, without the exposed situations (`Exposed = {}`):

* `ClockTypes`: `Spec => []TypeOK`;
* `ExportsArePaced`: `Spec => []ExportsKeepPace`;
* `NothingIsEarly`: `Spec => NotEarly`, an action property;
* `ClockInvariant`: `Spec => []IInv`, from which they follow.

A token does not say which event it is for, so that none is early depends on
what may be in the pipe: `TokensFit` lists it. Until the meter is told to stop
there is at most one `A`, only between a poll and the reads of the same round
and only while an event is due; a `D` is there only while none is. The clock
cannot make an event less due, so the token stays good until it is read.
`ExportsPaced` has the exports: an event is at most an interval (aligned: two)
ahead of the clock for every rule that shares it, has the time of the clock or a
later one after it was executed once, and a later one after it was executed
twice; every active rule is in one. It holds because rules that share an event
have its interval, and are active, and because a rule is in one event of a type
only (`EventsFit`). `AlignedIs` has the arithmetic of Event::doAlign,
`RuleEventsAre`, `ExportEventsAre` and `DelRuleEventsAre` what RuleManager and
the scheduler make of sets of rules. `AtLoad` is the state in which the first
event is executed without a token, which then is due.

The second part of `FlowRecordProofs` proves of ProcModules, for any numbers of packets and all constants, without
the exposed situations (`Exposed = {}`):

* `AssertionsAreTrue`: `Spec => []AssertionsHold`;
* `RecordsEndWithConnections`: `Spec => []EndsWithConnection`;
* `StatsInvariant`: `Spec => []StatsInv`, from which they follow;
* `MemoryIsEnough`: `Spec => []MemorySuffices`, by an invariant of its own
  (`MemoryInv`);
* `NothingIsLost`: `Spec => []MeasuresAddUp`, by `AddsInv` beside `StatsInv`.

All but `MemoryIsEnough` assume that `Never`, the time cap of a connection's
record, is not before the time at which the model's connections send
(`Never >= 2`), `NothingIsLost` also that it is not less than the second of
_dscp_1s (`Never >= Second`). The
assertions compare counters with extremes and sums, so the invariant follows
each direction of a flow (`Direction`): a time of 0 means that it had no packet
in this active period, a period begins with a packet, and the silences between
them add up to more than the idle threshold each (`FlowFits`). With times cut to `Word` an assertion fails (the situation "long
gap"), with a packet older than its flow another ("older than the flow").
The end of a connection is told by two machines in the module that each see the
segments of both sides. `Ends` relates them to the two ends of the connection:
an end that has sent a FIN is FIN or already CLOSED in the module, since any ACK
of the other side moves it, not only that of the FIN; `done` implies CLOSED.
So the export may be asked for when both have sent a FIN and must be when both
are acknowledged. `SegmentsAre` has what a connection may send next,
`UpdateStateIs` what updateState's search for a move finds, and `SegmentMeasured`
that a segment is counted within one period.

MemorySuffices needs that a packet with its header fits the first buffer of
`capture` (`PacketsFitBuffer`): the buffer is doubled once and not until the
packet fits (capture.c:147), so a packet is sure to fit only up to its first
size, 65536 bytes, less the header. The configured snap size, which has no
bound, decides that (Meter.cc:275). An entry of rtt_ping's list may be
unused without being counted as free (a request with the id that means unused),
so that the invariant is an inequality (`PingsFit`).

MeasuresAddUp sums over sets of ports, of matched pings and of snapshots. The
sums (`Total`) are a fold, and the lemmas about them (`TotalWithout`, `TotalSplit`,
`TotalBounds` and others) are by induction over finite sets: for a property that
is written as a set of subsets the library's `WFMin` and `NatLessThanWellFounded`
give it (`SetInduction`), without its theorems that take an operator. A mean is
between the extremes because `n * min <= sum <= n * max` is kept by adding values
between them (`MeansAdd`). Of an RTP stream `StreamAdds` says that the highest
number is the module's cycles and max together, for which `SequenceIs` has the
arithmetic of numbers that wrap, and that each number received is new or a
duplicate; MAX_DROPOUT and MAX_MISORDER may not add up to more than RTP_SEQ_MOD.
_dscp_1s measures until a packet more than a second late sets its cap to 0: from
then on no packet is measured (`FlowAdds`).

`ModuleUseProofs` proves for any names, libraries, rules and numbers of
references, without the exposed situations (`Exposed = {}`, as in the run):

* `UsesAreCounted`: `Spec => []ReferencesAreUses`;
* `UsedModulesAreReady`: `Spec => []ModulesReady`;
* `TimersAreOfModules`: `Spec => []TimersHaveModules`;
* `UseInvariant`: `Spec => []UseInv`, from which they follow.

A library is initialised when its first name is loaded and destroyed with the
last reference of any of its names, so ModulesReady needs that what is loaded,
with what a rule is about to load, shares no library (`Apart`; "two names" is
where it does): `RuleUsed` gives the set of modules a handler may touch. The
references less those that nobody gives back are the uses and the preloading
(`Held`); that no release takes more than there is follows from it. An export
module has its timer while it is loaded (`TimersFit`), and a rule's processing
modules have theirs by place (`RulesFit`), which is a place among the modules
only if no module of the other kind stands before it ("other action"). Once an
Error has stopped the meter the last two are not asked for: a rule that failed
leaves its timers.
The handlers are folds over a rule's modules. `FoldExists` and `FoldChain` turn
such a fold into a sequence of states, one after each module, by induction over
sets of places, and `RuleChecked`, `ExportsAdded`, `ActionsAdded` and
`ReleasedIs` are what holds along it: a check leaves everything as it was but
for the references that are not given back; adding takes one reference for each
place in the list so far; releasing gives them back; so what an Error undoes
(`Undone`) is what was added. `UsesAdded` counts the places.

`ExportModulesProofs` proves for any rules, hosts, configurations, numbers of
connections and of a rule's export modules (`ExportModulesAssumption`,
`ExportSocketsAssumption`), with all of the exposed situations:

* `ConnectionsAreCounted`: `Spec => []ConnectionsCounted`;
* `ConnectionsInvariant`: `Spec => []ConnInv`, from which it follows.

ipfix finds a connection by its host and counts it; it makes one for the
configured collector when its first export record initialises it, and closes all
when its last one is destroyed. That this is right depends on what the other
modules leave alone and on who is last: `Counted` relates the references to the
export records that are there, `FilesFit` tells a file's record from none (a
record that was never made would be destroyed as one of ipfix's), and
`Together` says that a rule has all its export records or none, between two
calls. While a rule is added or removed only some of its places are so
(`Partly`). `InitIpfix` and `DestroyIpfix` are the two steps that count: one
record more or less, which is the first, the last, or neither, at a connection
that was in use, was not, or does not exist, which ends the meter (`died`).
`InitOther`, `DestroyOther` and `KeptFits` are the steps of all other modules and
all exports and timers. Adding a rule, removing it and exporting its flow
records are folds over its export modules, and an export is another over the
processing modules. `FoldExists` and `FoldStates` turn each into a sequence of
states, one after each place, by induction over numbers and sets of places
(`SetInduction`, `AlongStates`), and `AddRecsFits`, `RemoveRecsFits` and
`ExportFlowRecordKeeps` follow it.

`ControlCommProofs` proves for any clients, scripts, access list, times and
numbers of connections, without the exposed situations (`Exposed = {}`, as in the
run):

* `EventsAlwaysHaveRequests`: `Spec => []EventsHaveRequests`;
* `ControlInvariant`: `Spec => []ControlInv`, from which it follows.

A queued command points to the request its connection reads, so the proof
follows the parts of requests. A client asks for one thing at a time; of s
requests sent and g answers got, the parts that a connection has read with
those on their way are those of request s if s = g + 1, and none if s = g
(`Coming`, `Begun`, `Whole`). The one exception is the body of a request that was
answered before it was read: it comes without its header and is refused
(`Doomed`). `Fits` says which of these a connection's state stands for, `Settled`
that it is so between two calls, when no connection is finished or about to be
closed. `Asked` has the events: one for a connection whose request is parsed or
executed, made from that request, and none for any other. `Unopened` has the clients
without a connection, and `TimerFirst` what lets the scheduler's first event be
the timer's: nothing is left to be parsed then, and while select waits there is
no command. "page after command", "timer with command", "hang up" and
"pipelined" are what breaks these. httpd_handle_event goes through the
connections, and through the states of each until it has to wait; both loops are
folds (`HandleConns`, `Passes`), which `FoldStates` turns into sequences of
states and `AlongStates` follows. `PassesSteps` and `HandleConnsSteps` say which
states these are; there is one lemma for each pass and one for each action, and
`Half` is what holds of the connections served and of those still to serve.

Every inductive invariant was model-checked on the runs' constants before it was
proved. All theorems rest on the assumptions named in the modules
(`QueueAssumption` and the like) and on the hypotheses they state; a hypothesis
on `Exposed`, `Expiry` or `Requestable` is the exclusion of the situations
tabled above, with which the property is false.

Only model-checked:

* liveness (EveryPacketProcessed, ExportFinishes, RulesStartAndStop,
  EveryPacketExported, EveryRuleStops, EveryRowSent, ConnectionsEnd, Terminates),
  which is out of the prover's reach as is ENABLED;
* MatchesItsRules (Classifiers), RowsArrive and RowsAreDescribed
  (ExportModules), AnswersFitRequests and AnswersTellTheRules (ControlComm). They say what a nest of folds computes: the
  classes of a number line, the bytes of a row walked twice by two modules, a
  text parsed to rules. The library's induction theorems take an operator as a
  parameter, which no installed prover can instantiate; an induction over sets
  has to be set up for each fold, with an invariant that says what it has
  computed so far. ConnectionsCounted, TablesLargeEnough and
  EventsHaveRequests needed only what the folds leave alone or keep.

## Not modelled, and why

* A thread for the classifier with none for the processor: the queue takes its
  lock only if the processor has a thread (PacketProcessor.cc:57), so its
  counters are changed by two threads without one. Likewise a thread for the
  processor and none for the exporter: the record table has no lock then. What
  a build makes of such accesses is not in the source.
* Removing a whole rule set by request (Meter.cc:750-776): the loop's container
  shrinks, and at the end is freed, under its iterator. ControlComm has the
  request and its answer, for a set with one rule.
* Vectors indexed by the number of a rule that was never activated: the entry
  is taken to be there and empty.
* ClassifierNetfilter: written against an interface the base class no longer
  has; it does not compile. `SWAP_HACK` and `NO_REORDERING`: not defined by the
  build.
* Push exports in FlowTable, which reset nothing (ProcModules has them, as
  exports that keep the data); fractions of a second in MeterClock; the wall
  clock that RuleManager::addRules uses also offline (offsets are given, in the
  model).
* Cancelling threads at shutdown: all data was exported by then.
* ClassifierRFC: filters of several bytes, which are several places; masks;
  more than two places, which would only add chunks to phase 1 (`MaxLines`).
* Parsers: characters, libxml2, DNS lookups, masks and their arithmetic. HTTP:
  files, directories and ranges, TLS, the log.
* Processing modules: sums of squares, checksums, the payload. Export modules:
  how numbers are written, unless their width loses them; the IPFIX library,
  and ipfix's mapping file, which is taken to name every column (ipfix.cc:434
  ends the meter if not).
* Configuration, command line, logging, pcap and DAG, getopt (a copy of
  library code), the test programs.

## Plan

Done: AbsPacketQueue, PacketQueue, PacketPipeline and FlowRecordExport with
their proofs, RuleLifecycle, FlowTable, MeterClock; then ClassifierSimple
and ClassifierRFC, the modules and their libraries, metric data and export
modules, parsers and the control interface: first the data path, whose threads
are hardest to test, then rules, flows and time, then what rules share.

Next: removing rule sets in RuleLifecycle; several trace files in turn.

Next theorem: AnswersFitRequests of ControlComm, from ControlInv.
