----------------------------- MODULE FlowTable -----------------------------
(***************************************************************************)
(* What the PacketProcessor measures: every active rule has one            *)
(* measurement, or one for each flow its packets belong to (an "auto"      *)
(* rule), which the FlowCreator keeps by the packet's key.  A packet is    *)
(* accounted to the rules it matched; a flow ends when a module says so or *)
(* when no packet came for a time, and the meter removes whole rules.      *)
(*                                                                         *)
(* A module's data is the set of the packets it has seen.  Time is in      *)
(* seconds.  The events that look for idle flows and remove rules may come *)
(* at any time (RuleLifecycle schedules them).                             *)
(***************************************************************************)
EXTENDS Integers

CONSTANTS Convs,     \* conversations of two hosts
          NRules,    \* the rules are numbered 1 .. NRules
          Modules,   \* processing modules
          Enders,    \* modules whose answer may end a flow
          Kinds,     \* of rules: "plain", "auto", "bidir", "sep"
          NPackets,  \* packets that are ever processed
          Timeout,   \* seconds after which a flow is idle
          MaxTime,   \* the model's clock stops there
          Exposed    \* situations, excluded otherwise, that break a property

ASSUME FlowTableAssumption ==
    /\ NRules \in Nat \ {0} /\ NPackets \in Nat
    /\ Timeout \in Nat \ {0} /\ MaxTime \in Nat
    /\ Enders \subseteq Modules
    /\ Kinds \subseteq {"plain", "auto", "bidir", "sep"}
    /\ Exposed \subseteq {"timeout race", "removal race", "reordered",
                          "two directions", "separate backward", "other modules",
                          "plain end"}

Rules == 1 .. NRules
Packets == 1 .. NPackets
Keys == [conv : Convs, dir : {0, 1}]
NoKey == [conv |-> "none", dir |-> 0]
Reversed(k) == [k EXCEPT !.dir = 1 - @]

VARIABLES threaded,  \* TRUE if the processor has a thread of its own
          backward,  \* keys whose packets the classifier reports as reversed
          rules,     \* the PacketProcessor's table: what it keeps of a rule
          seen,      \* packets processed so far
          now,       \* the clock
          lastTs,    \* the latest time stamp of a packet processed
          busy       \* what the meter's thread is in the middle of

vars == <<threaded, backward, rules, seen, now, lastTs, busy>>

-----------------------------------------------------------------------------
(* Flows and entries.                                                      *)
(* live: modules whose data exists; dirs: history, the pairs of a packet's *)
(* direction and of the direction the modules were told.                   *)

NoPackets == [m \in Modules |-> {}]

NewFlow(k, path) ==
    [key |-> k, path |-> path, lastPkt |-> 0, live |-> Modules,
     data |-> NoPackets, dirs |-> {}]

PerFlow(e) == e.kind # "plain"
Bidir(e) == e.kind \in {"bidir", "sep"}

\* counted and exported: history, the packets accounted to the rule and the
\* packets in final records, for each module.
NewRule(kind, mods) ==
    [kind |-> kind, mods |-> mods, state |-> "known", lastPkt |-> 0, flows |-> {},
     counted |-> {}, exported |-> NoPackets]

\* addRule: a rule that is not split into flows has its only data at once.
Activated(e) ==
    [e EXCEPT !.state = "active",
              !.flows = IF PerFlow(e) THEN {} ELSE {NewFlow(NoKey, 1)}]

HasFlow(e, k, path) == \E f \in e.flows : f.key = k /\ f.path = path

\* getFlow, or addFlow if there is no such flow.
GetFlow(e, k, path) ==
    IF HasFlow(e, k, path)
    THEN CHOOSE f \in e.flows : f.key = k /\ f.path = path
    ELSE NewFlow(k, path)

\* Mutant of Located: the flow of the other direction is not looked for.
LocatedOneWay(e, k, reverse) ==
    [flow |-> IF PerFlow(e) THEN GetFlow(e, k, 1) ELSE GetFlow(e, NoKey, 1),
     reverse |-> reverse]

\* The rule has a flow of the packet's conversation, under the other key: the
\* packet is marked as reversed.
OnlyReverse(e, k) == Bidir(e) /\ ~HasFlow(e, k, 1) /\ HasFlow(e, Reversed(k), 1)

\* The flow of a packet with key k, and the direction its modules are told.
Located(e, k, reverse) ==
    CASE ~PerFlow(e) ->
             [flow |-> GetFlow(e, NoKey, 1), reverse |-> reverse]
      [] PerFlow(e) /\ (HasFlow(e, k, 1) \/ ~Bidir(e)) ->
             [flow |-> GetFlow(e, k, 1), reverse |-> reverse]
      [] OnlyReverse(e, k) ->
             [flow |-> GetFlow(e, Reversed(k), IF e.kind = "sep" THEN 2 ELSE 1),
              reverse |-> TRUE]
      [] OTHER ->
             [flow |-> NewFlow(IF reverse THEN Reversed(k) ELSE k, 1),
              reverse |-> reverse]

\* The modules of the rule see packet p, some say the flow ends.
Updated(e, f, p, k, ts, reverse, ends) ==
    [f EXCEPT !.lastPkt = IF PerFlow(e) THEN ts + 1 ELSE 0,
              !.data = [m \in Modules |->
                            IF m \in e.mods \ ends THEN @[m] \cup {p} ELSE {}],
              !.live = @ \ ends,
              !.dirs = @ \cup {<<k.dir, reverse>>}]

\* Mutant of Ended: the record of a flow that ended is lost.
EndedUnsaved(e, f, p, ends) == e.exported

\* The data of a module that ends the flow is exported at once, as final.
Ended(e, f, p, ends) ==
    [m \in Modules |->
        e.exported[m] \cup (IF m \in ends THEN f.data[m] \cup {p} ELSE {})]

\* Packet p is accounted to one rule.
Account(e, p, k, ts, reverse, ends) ==
    LET found == Located(e, k, reverse)
        f == found.flow
        g == Updated(e, f, p, k, ts, found.reverse, ends)
    IN  [e EXCEPT !.flows = (@ \ {f}) \cup
                            (IF ends # {} /\ PerFlow(e) THEN {} ELSE {g}),
                  !.lastPkt = ts + 1,
                  !.counted = @ \cup {p},
                  !.exported = Ended(e, f, p, ends)]

\* A packet is accounted to the rules it matched, in the classifier's order,
\* which is that of their numbers.  The mark is the packet's own: what one rule
\* sets the next ones see.
Accounted(matched, p, k, ts, reversed, ends) ==
    [r \in Rules |->
        LET marked == \E q \in matched : q < r /\ OnlyReverse(rules[q], k)
        IN  IF r \in matched
            THEN Account(rules[r], p, k, ts, reversed \/ marked, ends[r])
            ELSE rules[r]]

-----------------------------------------------------------------------------
(* Idle flows. *)

Idle(f, t) == f.lastPkt + Timeout <= t

\* ruleTimeout returns 0.
TimedOut(e, t) ==
    /\ e.lastPkt > 0
    /\ IF PerFlow(e) THEN \E f \in e.flows : Idle(f, t) ELSE Idle(e, t)

Collected(e, F) ==
    [m \in Modules |-> e.exported[m] \cup UNION {f.data[m] : f \in F}]

\* Mutant of ExportIdle: with one flow idle, all flows are exported.
ExportIdleAll(e, t) ==
    [e EXCEPT !.exported = Collected(e, e.flows),
              !.flows = IF PerFlow(e) THEN {} ELSE {NewFlow(NoKey, 1)},
              !.lastPkt = IF Idle(e, t) THEN 0 ELSE @]

\* Mutant of ExportIdle: the rule counts as idle although a flow may not be.
ExportIdleForgets(e, t) ==
    LET F == {f \in e.flows : Idle(f, t)}
    IN  [e EXCEPT !.exported = Collected(e, IF PerFlow(e) THEN F ELSE e.flows),
                  !.flows = IF PerFlow(e) THEN @ \ F ELSE {NewFlow(NoKey, 1)},
                  !.lastPkt = 0]

\* exportRule with a time: idle flows are exported and deleted, a rule
\* without flows is exported and its data reset as it is.
ExportIdle(e, t) ==
    LET F == IF PerFlow(e) THEN {f \in e.flows : Idle(f, t)} ELSE e.flows
    IN  [e EXCEPT !.exported = Collected(e, F),
                  !.flows = IF PerFlow(e) THEN @ \ F ELSE {NewFlow(NoKey, 1)},
                  !.lastPkt = IF Idle(e, t) THEN 0 ELSE @]

\* exportRule without a time, for the last record of a rule: nothing is reset.
ExportAll(e) == [e EXCEPT !.exported = Collected(e, e.flows), !.state = "removing"]

\* PacketProcessor::delRule
Deleted(e) == [e EXCEPT !.state = "gone", !.flows = {}, !.lastPkt = 0]

-----------------------------------------------------------------------------
Free == [at |-> "free", rule |-> 0, time |-> 0]

\* A module that may end a flow need not: rules with flows have one.
ModuleSets(kind) ==
    {M \in (SUBSET Modules) \ {{}} :
        IF kind = "plain"
        THEN M \cap Enders = {} \/ "plain end" \in Exposed
        ELSE /\ M \cap Enders # {}
             /\ (\A m, n \in M : m = n) \/ "other modules" \in Exposed}

\* Two bidirectional rules for the same packets may disagree on directions; a
\* first packet the classifier reports as reversed makes a flow of the forward
\* path.
KindsTogether(ks) ==
    \/ "two directions" \in Exposed
    \/ \A q, r \in Rules : {ks[q], ks[r]} \subseteq {"bidir", "sep"} => q = r

Init ==
    /\ threaded \in BOOLEAN
    /\ \E ks \in [Rules -> Kinds] :
          /\ KindsTogether(ks)
          /\ \A r \in Rules : ks[r] = "plain" /\ threaded => "timeout race" \in Exposed
          /\ \E ms \in [Rules -> SUBSET Modules] :
                /\ \A r \in Rules : ms[r] \in ModuleSets(ks[r])
                /\ rules = [r \in Rules |-> NewRule(ks[r], ms[r])]
    /\ backward \in IF \E r \in Rules : Bidir(rules[r])
                     THEN {{}, {k \in Keys : k.dir = 1}} ELSE {{}}
    /\ \A r \in Rules : rules[r].kind = "sep" /\ backward # {} =>
                            "separate backward" \in Exposed
    /\ seen = 0 /\ now = 0 /\ lastTs = 0
    /\ busy = Free

\* Without a thread for the processor the meter is not interrupted.
MeterFree == busy = Free

\* New packets stop early enough for the model's clock to see all flows idle.
TimeStamps ==
    {ts \in 0 .. now : /\ ts >= lastTs \/ "reordered" \in Exposed
                       /\ ts + 1 + Timeout <= MaxTime}

InUse == {r \in Rules : rules[r].state \in {"active", "removing"}}

EndsOf(r) == SUBSET (rules[r].mods \cap Enders)

\* processPacket: the classifier gives the rules that were active.
ProcessPacket(k, ts, ends) ==
    /\ threaded \/ MeterFree
    /\ seen < NPackets
    /\ InUse # {}
    /\ LET reversed == k \in backward /\ \E r \in InUse : Bidir(rules[r])
       IN  rules' = Accounted(InUse, seen + 1, k, ts, reversed, ends)
    /\ seen' = seen + 1
    /\ lastTs' = IF ts > lastTs THEN ts ELSE lastTs
    /\ UNCHANGED <<threaded, backward, now, busy>>

AddRule(r) ==
    /\ MeterFree /\ rules[r].state = "known"
    /\ rules' = [rules EXCEPT ![r] = Activated(@)]
    /\ UNCHANGED <<threaded, backward, seen, now, lastTs, busy>>

\* A FLOW_TIMEOUT event: the meter asks, and exports in a second call.
RuleTimeout(r) ==
    /\ MeterFree /\ rules[r].state = "active"
    /\ TimedOut(rules[r], now)
    /\ busy' = [at |-> "export", rule |-> r, time |-> now]
    /\ UNCHANGED <<threaded, backward, rules, seen, now, lastTs>>

ExportRule ==
    /\ busy.at = "export"
    /\ rules' = [rules EXCEPT ![busy.rule] = ExportIdle(@, busy.time)]
    /\ busy' = Free
    /\ UNCHANGED <<threaded, backward, seen, now, lastTs>>

\* A REMOVE_RULES event: the last record is exported, then the rule deleted.
FinalExport(r) ==
    /\ MeterFree /\ rules[r].state = "active"
    /\ ~threaded \/ "removal race" \in Exposed
    /\ rules' = [rules EXCEPT ![r] = ExportAll(@)]
    /\ busy' = [at |-> "delete", rule |-> r, time |-> 0]
    /\ UNCHANGED <<threaded, backward, seen, now, lastTs>>

DelRule ==
    /\ busy.at = "delete"
    /\ rules' = [rules EXCEPT ![busy.rule] = Deleted(@)]
    /\ busy' = Free
    /\ UNCHANGED <<threaded, backward, seen, now, lastTs>>

\* A second passes.
Tick ==
    /\ now < MaxTime
    /\ now' = now + 1
    /\ UNCHANGED <<threaded, backward, rules, seen, lastTs, busy>>

Next ==
    \/ \E k \in Keys, ts \in TimeStamps, ends \in [Rules -> SUBSET Enders] :
           (\A r \in Rules : ends[r] \in EndsOf(r)) /\ ProcessPacket(k, ts, ends)
    \/ \E r \in Rules : AddRule(r) \/ RuleTimeout(r) \/ FinalExport(r)
    \/ ExportRule
    \/ DelRule
    \/ Tick

\* Time passes, the meter looks for idle flows again and again and ends what
\* it began.  Packets need not come, rules need not be added or removed.
Spec ==
    /\ Init /\ [][Next]_vars
    /\ WF_vars(Tick) /\ WF_vars(\E r \in Rules : RuleTimeout(r))
    /\ WF_vars(ExportRule) /\ WF_vars(DelRule)

-----------------------------------------------------------------------------
\* Every variable has values of its type; a rule that is not split into
\* flows has exactly one measurement while it is active.
TypeOK ==
    /\ threaded \in BOOLEAN /\ backward \subseteq Keys
    /\ DOMAIN rules = Rules
    /\ \A r \in Rules :
          /\ rules[r].state \in {"known", "active", "removing", "gone"}
          /\ rules[r].lastPkt \in 0 .. MaxTime
          /\ rules[r].counted \subseteq Packets
          /\ \A f \in rules[r].flows : /\ f.key \in Keys \cup {NoKey}
                                       /\ f.path \in {1, 2}
                                       /\ f.lastPkt \in 0 .. MaxTime
          /\ r \in InUse /\ ~PerFlow(rules[r]) =>
                 \E f \in rules[r].flows : rules[r].flows = {f} /\ f.key = NoKey
    /\ seen \in 0 .. NPackets /\ now \in 0 .. MaxTime /\ lastTs \in 0 .. now
    /\ busy.at \in {"free", "export", "delete"}

Measured(e, m) == UNION {f.data[m] : f \in e.flows}

\* A packet accounted to a rule is measured or in a final record, for every
\* module of the rule, whatever ended its flow: a module's answer, a timeout,
\* the removal of the rule.
NothingLost ==
    \A r \in Rules : \A m \in rules[r].mods :
        rules[r].counted = Measured(rules[r], m) \cup rules[r].exported[m]

\* And in one place: what was exported as final is not measured any more, and
\* no packet is measured in two flows.
NothingTwice ==
    \A r \in Rules : rules[r].state = "active" =>
        \A m \in rules[r].mods :
            /\ Measured(rules[r], m) \cap rules[r].exported[m] = {}
            /\ \A f, g \in rules[r].flows : f # g => f.data[m] \cap g.data[m] = {}

\* Between two calls the data of every module exists: the next packet, export
\* or removal uses it.
DataExists ==
    \A r \in Rules : \A f \in rules[r].flows : f.live = Modules

\* Every packet of a rule is accounted for, in one place, by every module.
EveryPacketOnce == TypeOK /\ NothingLost /\ NothingTwice /\ DataExists

\* A bidirectional rule measures a conversation in one flow.
OneFlowPerConversation ==
    \A r \in Rules : rules[r].kind = "bidir" =>
        \A f, g \in rules[r].flows : f.key.conv = g.key.conv => f = g

\* Within a flow the modules are told one direction for the packets of one
\* direction, and the other for the others.
DirectionsTold ==
    \A r \in Rules : Bidir(rules[r]) =>
        \A f \in rules[r].flows : \A x, y \in f.dirs : (x[1] = y[1]) <=> (x[2] = y[2])

\* A rule with separate paths never measures the two directions of a
\* conversation in one flow (Rule.cc: "forward and backward path shall be
\* separated").
PathsSeparated ==
    \A r \in Rules : rules[r].kind = "sep" =>
        \A f \in rules[r].flows : \A x, y \in f.dirs : x[1] = y[1]

\* The flows of a rule are the conversations it has to tell apart, with their
\* directions (PacketProcessor.cc:522, PacketProcessor.cc:527).
FlowsAreConversations == OneFlowPerConversation /\ DirectionsTold /\ PathsSeparated

\* A rule that is marked as having had no packets has no flow left that a
\* timeout would have to find.
IdleRuleHasNoFlows ==
    \A r \in Rules : rules[r].lastPkt = 0 =>
        \A m \in rules[r].mods : Measured(rules[r], m) = {}

\* A timeout exports only what had no packet for the time of the timeout,
\* measured when the meter looked (PacketProcessor.cc: "only idle flows are
\* exported and their flow data reset").
OnlyIdleExported ==
    [][ExportRule =>
        LET e == rules[busy.rule]
        IN  \A m \in e.mods : \A p \in rules'[busy.rule].exported[m] \ e.exported[m] :
                IF PerFlow(e) THEN \E f \in e.flows : p \in f.data[m] /\ Idle(f, busy.time)
                              ELSE Idle(e, busy.time)]_vars

\* Timeouts find the flows that are idle, and no others.
IdleFlowsExported == []IdleRuleHasNoFlows /\ OnlyIdleExported

\* Every packet that is accounted to a rule ends up in a final record of every
\* module of that rule.
EveryPacketExported ==
    \A r \in Rules, p \in Packets :
        p \in rules[r].counted ~> \A m \in rules[r].mods : p \in rules[r].exported[m]
=============================================================================
