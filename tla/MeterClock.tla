----------------------------- MODULE MeterClock -----------------------------
(***************************************************************************)
(* When the meter handles events: the EventScheduler keeps them by time,   *)
(* each round of the meter's main loop writes a token into the signal pipe *)
(* if the first one is due, and a token that is read executes the first    *)
(* event.  On an interface (online) the clock is the system's; with a      *)
(* trace file it is the time of the last packet read, which begins at 0.   *)
(* The events are those of rules: RuleLifecycle has what they do to the    *)
(* components, this module has their times.                                *)
(*                                                                         *)
(* Time is in seconds.  A rule's start and stop are offsets from the       *)
(* moment it is added; every rule has an export interval.                  *)
(***************************************************************************)
EXTENDS Integers, Sequences

CONSTANTS Rules,      \* rules of the rule file
          Intervals,  \* export intervals, in seconds
          MaxStart,   \* latest start of a rule
          Duration,   \* of the rules that have a stop time
          MaxTime,    \* the model's clock stops there
          MaxDumps,   \* SIGUSR1 signals that ever come
          Exposed     \* situations, excluded otherwise, that break NotEarly

ASSUME ClockAssumption ==
    /\ Rules # {} /\ Intervals \subseteq Nat \ {0}
    /\ MaxStart \in Nat /\ Duration \in Nat \ {0} /\ MaxTime \in Nat
    /\ MaxDumps \in Nat
    /\ Exposed \subseteq {"late start", "dump while due"}

VARIABLES online,   \* TRUE for a network interface, FALSE for a trace file
          desc,     \* the rules as described in the file
          state,    \* "new", "valid", "active" or "gone"
          events,   \* the scheduler's multimap, as a set of events
          pipe,     \* the signal pipe
          now,      \* the clock
          pc,       \* where the main loop is
          stop,     \* it is to end
          dumps,    \* SIGUSR1 signals so far
          ran       \* history: exports of a rule since the clock last moved

vars == <<online, desc, state, events, pipe, now, pc, stop, dumps, ran>>

Descriptions ==
    [start : 0 .. MaxStart, stops : BOOLEAN, interval : Intervals, align : BOOLEAN]

-----------------------------------------------------------------------------
(* The scheduler.  The order of events with the same time is not used: the *)
(* multimap of C++98 promises none.                                        *)

Event(type, R, time, ival) ==
    [type |-> type, rules |-> R, time |-> time, ival |-> ival]

\* What the multimap may begin with.
First(es) == {e \in es : \A f \in es : e.time <= f.time}

\* Mutant of DelRuleEvents: events stay in the map without rules.
DelRuleEventsKeep(es, R) == {[e EXCEPT !.rules = @ \ R] : e \in es}

\* Rules disappear from their events, events without rules from the map.
DelRuleEvents(es, R) ==
    {[e EXCEPT !.rules = @ \ R] : e \in {f \in es : f.rules \ R # {}}}

\* Event::doAlign: the next multiple of the interval after t.
Aligned(t, ival) == (t \div ival) * ival + ival

\* Mutant of Advanced: the interval is counted twice.
AdvancedTwice(e) == [e EXCEPT !.time = (IF @ < now THEN now ELSE @) + 2 * e.ival]

\* Event::advance, and TIME_GAP_HACK, which is always defined: an event that
\* would still be late by a second or more is due at once.
Advanced(e) == [e EXCEPT !.time = IF now - (@ + e.ival) > 0 THEN now ELSE @ + e.ival]

\* reschedNextEvent
Rescheduled(es, e) == es \cup IF e.ival > 0 THEN {Advanced(e)} ELSE {}

Due(e) == e.time <= now

\* Mutant of Poll: the token is written without a look at the clock.
PollAnyway == pipe' = IF events # {} THEN Append(pipe, "A") ELSE pipe

\* Mutant of Poll: an event has to be late.
PollLate ==
    pipe' = IF \E e \in First(events) : e.time < now THEN Append(pipe, "A") ELSE pipe

\* getNextEventTime
Poll == pipe' = IF \E e \in First(events) : Due(e) THEN Append(pipe, "A") ELSE pipe

-----------------------------------------------------------------------------
(* What events do to rules and to the scheduler. *)

\* RuleManager::addRules: rules with the same start, or stop, share an event.
RuleEvents ==
    LET Starts == {desc[r].start : r \in Rules}
        Stoppable == {r \in Rules : desc[r].stops}
        Stops == {desc[r].start + Duration : r \in Stoppable}
    IN  {Event("activate", {r \in Rules : desc[r].start = s}, now + s, 0) : s \in Starts}
        \cup {Event("remove", {r \in Stoppable : desc[r].start + Duration = s},
                    now + s, 0) : s \in Stops}

\* RuleManager::activateRules: rules with the same interval share an event.
ExportEvents(R) ==
    {LET i == desc[r].interval
         same == {q \in R : desc[q].interval = i /\ desc[q].align = desc[r].align}
     IN  Event("export", same,
               IF desc[r].align THEN Aligned(now + i, i) ELSE now + i, i) : r \in R}

\* handleEvent for event e, when the scheduler has the events es without it.
EventsAfter(e, es) ==
    CASE e.type = "add" -> es \cup RuleEvents
      [] e.type = "activate" -> es \cup ExportEvents(e.rules)
      [] e.type \in {"remove", "request"} -> DelRuleEvents(es, e.rules)
      [] e.type = "export" -> es

StateAfter(e) ==
    LET s == CASE e.type = "add" -> "valid"
               [] e.type = "activate" -> "active"
               [] OTHER -> "gone"
    IN  [r \in Rules |-> IF r \in e.rules /\ e.type # "export" THEN s ELSE state[r]]

\* The event that comes first, e, is taken, executed and put back if it recurs.
Execute(e) ==
    /\ e \in First(events)
    /\ events' = Rescheduled(EventsAfter(e, events \ {e}), e)
    /\ state' = StateAfter(e)
    /\ ran' = [r \in Rules |->
                  ran[r] + IF e.type = "export" /\ r \in e.rules THEN 1 ELSE 0]

-----------------------------------------------------------------------------
Init ==
    /\ online \in BOOLEAN
    /\ desc \in [Rules -> Descriptions]
    \* the event that LoadRules executes is then of rules that start at once
    /\ online \/ (\E r \in Rules : desc[r].start = 0) \/ "late start" \in Exposed
    /\ state = [r \in Rules |-> "new"]
    /\ events = {Event("add", Rules, 0, 0)}
    /\ pipe = <<>> /\ now = 0
    /\ pc = IF online THEN "top" ELSE "load"
    /\ stop = FALSE /\ dumps = 0
    /\ ran = [r \in Rules |-> 0]

\* With a trace file the rules are added before the loop, and the event that
\* comes first is executed at once (and never scheduled again).
LoadRules ==
    /\ pc = "load"
    /\ \E e \in First(RuleEvents) :
          /\ events' = (RuleEvents \ {e}) \cup ExportEvents(e.rules)
          /\ state' = [r \in Rules |-> IF r \in e.rules THEN "active" ELSE "valid"]
    /\ pc' = "top"
    /\ UNCHANGED <<online, desc, pipe, now, stop, dumps, ran>>

\* Online a round begins with the look at the scheduler.
PollOnline ==
    /\ pc = "top" /\ online
    /\ Poll
    /\ pc' = "signals"
    /\ UNCHANGED <<online, desc, state, events, now, stop, dumps, ran>>

\* Offline it begins with the next packet, which sets the clock, or with the
\* end of the last trace file; then comes the look at the scheduler.
ReadTrace ==
    /\ pc = "top" /\ ~online
    /\ \/ \E t \in now .. MaxTime :
             /\ now' = t
             /\ ran' = IF t > now THEN [r \in Rules |-> 0] ELSE ran
             /\ UNCHANGED stop
       \/ stop' = TRUE /\ UNCHANGED <<now, ran>>
    /\ pc' = "again"
    /\ UNCHANGED <<online, desc, state, events, pipe, dumps>>

\* One token online; offline another look at the scheduler, and the next one.
ReadToken ==
    /\ pc = "signals" /\ pipe # <<>>
    /\ pipe' = Tail(pipe)
    /\ pc' = IF online THEN "end" ELSE "again"
    /\ IF Head(pipe) = "A" /\ events # {}
       THEN \E e \in events : Execute(e)
       ELSE UNCHANGED <<events, state, ran>>
    /\ stop' = (stop \/ Head(pipe) = "S")
    /\ UNCHANGED <<online, desc, now, dumps>>

PollAgain ==
    /\ pc = "again"
    /\ Poll
    /\ pc' = "signals"
    /\ UNCHANGED <<online, desc, state, events, now, stop, dumps, ran>>

\* Without a token packets are read online, or requests, which become events
\* of their own; offline the packets are processed.
NoToken ==
    /\ pc = "signals" /\ pipe = <<>>
    /\ pc' = "end"
    /\ \/ UNCHANGED events
       \/ \E r \in Rules :
             /\ online /\ state[r] \in {"valid", "active"}
             /\ \A e \in events : e.type # "request"
             /\ events' = events \cup {Event("request", {r}, now, 0)}
    /\ UNCHANGED <<online, desc, state, pipe, now, stop, dumps, ran>>

EndRound ==
    /\ pc = "end" /\ ~stop
    /\ pc' = "top"
    /\ UNCHANGED <<online, desc, state, events, pipe, now, stop, dumps, ran>>

\* After the loop the push exports that are scheduled are done a last time.
Shutdown ==
    /\ pc = "end" /\ stop
    /\ pc' = "done"
    /\ events' = {}
    /\ UNCHANGED <<online, desc, state, pipe, now, stop, dumps, ran>>

InPipe(c) == \E i \in DOMAIN pipe : pipe[i] = c

Tick ==
    /\ online /\ now < MaxTime /\ pc # "done"
    /\ ~InPipe("D") \/ "dump while due" \in Exposed
    /\ now' = now + 1
    /\ ran' = [r \in Rules |-> 0]
    /\ UNCHANGED <<online, desc, state, events, pipe, pc, stop, dumps>>

\* SIGINT
Interrupt ==
    /\ pc \notin {"load", "done"} /\ ~stop /\ ~InPipe("S")
    /\ pipe' = Append(pipe, "S")
    /\ UNCHANGED <<online, desc, state, events, now, pc, stop, dumps, ran>>

\* SIGUSR1; a round that reads the 'D' leaves the token of a due event there.
Dump ==
    /\ pc \notin {"load", "done"} /\ dumps < MaxDumps
    /\ \/ pipe = <<>> /\ online /\ \A e \in events : ~Due(e)
       \/ "dump while due" \in Exposed
    /\ pipe' = Append(pipe, "D")
    /\ dumps' = dumps + 1
    /\ UNCHANGED <<online, desc, state, events, now, pc, stop, ran>>

Loop == LoadRules \/ PollOnline \/ ReadTrace \/ ReadToken \/ PollAgain
        \/ NoToken \/ EndRound \/ Shutdown

Next == Loop \/ Tick \/ Interrupt \/ Dump

\* The main loop goes on.  Nobody need send signals or requests, and time need
\* not pass.
Spec == Init /\ [][Next]_vars /\ WF_vars(Loop)

-----------------------------------------------------------------------------
\* Every variable has values of its type; every event is of rules, and a rule
\* is in one event of each type at most.
TypeOK ==
    /\ online \in BOOLEAN /\ stop \in BOOLEAN
    /\ state \in [Rules -> {"new", "valid", "active", "gone"}]
    /\ \A e \in events :
          /\ e.type \in {"add", "activate", "remove", "request", "export"}
          /\ e.rules \in (SUBSET Rules) \ {{}} /\ e.time \in Nat
          /\ e.ival \in IF e.type = "export" THEN Intervals ELSE {0}
          /\ \A f \in events : e # f /\ e.type = f.type => e.rules \cap f.rules = {}
    /\ pipe \in Seq({"A", "D", "S"})
    /\ now \in 0 .. MaxTime /\ dumps \in 0 .. MaxDumps
    /\ pc \in {"load", "top", "signals", "again", "end", "done"}

\* Until the meter is told to stop, no event is executed before its time,
\* whatever tokens are in the pipe (Meter.cc: "execute all due events"), and no
\* rule is started before its own, though with a trace file the event that comes
\* first is executed before a packet is read.
NotEarly ==
    [][~stop =>
          /\ \A e \in events : ReadToken /\ Head(pipe) = "A" /\ Execute(e) => Due(e)
          /\ \A r \in Rules : state'[r] = "active" => now >= desc[r].start]_vars

\* A recurrent event that is late, after a gap in the packets of a trace or a
\* long call, does not catch up on the intervals it missed: it is executed
\* now, and at most once more, until the meter is told to stop.
NoBurst == ~stop => \A r \in Rules : ran[r] <= 2

\* The next export of an active rule is at most an interval away, or two if
\* exports are aligned, whatever gaps the trace has and whatever rules share
\* the event, until the meter is told to stop.
NextExportSoon ==
    \A r \in Rules : state[r] = "active" /\ ~stop =>
        \E e \in events :
            /\ e.type = "export" /\ r \in e.rules
            /\ e.time <= now + desc[r].interval * IF desc[r].align THEN 2 ELSE 1

\* Exports keep their pace: no burst and no gap (EventScheduler.cc:151).
ExportsKeepPace == NoBurst /\ NextExportSoon

\* A rule whose stop time has come is removed in the end, though exports recur
\* and all events are executed by the same tokens, online one in a round.
EveryRuleStops ==
    \A r \in Rules :
        (\E e \in events : e.type = "remove" /\ r \in e.rules /\ Due(e))
            ~> (state[r] = "gone" \/ stop \/ InPipe("S"))
=============================================================================
