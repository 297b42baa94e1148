--------------------------- MODULE RuleLifecycle ---------------------------
(***************************************************************************)
(* The life of a metering rule: RuleManager numbers it (RuleIdSource) and  *)
(* keeps it by number and by name, the EventScheduler holds the events     *)
(* that will start, stop and export it, and Exporter, PacketProcessor and  *)
(* Classifier have an entry for it while it is active.                     *)
(*                                                                         *)
(* The meter's thread does all this, one request or event at a time; but   *)
(* the classifier and the processor may run in threads of their own, so    *)
(* each component a handler changes is a step.  Time is left out: rules    *)
(* start, stop and export at any time (Rule.cc accepts a rule that stops   *)
(* before it starts), so an event is any of those scheduled.               *)
(*                                                                         *)
(* A component asked to remove a rule that was never activated indexes its *)
(* vector at the rule's number; the model takes the entry it finds to be   *)
(* an empty one, as it is when the vector is long enough.                  *)
(***************************************************************************)
EXTENDS Integers, Sequences, SequencesExt, FiniteSets

CONSTANTS Names,        \* names of rules, their rule set included
          MaxRules,     \* bound on the rules added in a behaviour
          DoneListSize, \* rules remembered after their removal
          Requestable,  \* the rules a request removes: "oneway" or "any"
          Exposed       \* situations, excluded otherwise, that break a property

ASSUME LifecycleAssumption ==
    /\ MaxRules \in Nat /\ DoneListSize \in Nat \ {0}
    /\ Requestable \in {"oneway", "any"}
    /\ Exposed \subseteq {"fresh number"}

None == 0
NoId == -1
Ids == 0 .. MaxRules - 1
Rules == 1 .. MaxRules
\* A rule with a flow timeout is also bidirectional, with filters that differ
\* in the two directions: one kind of rule less.
Descriptions == [name : Names, stops : BOOLEAN, recurs : {"push", "timeout"}]
IsBidir(d) == d.recurs = "timeout"

VARIABLES rule,      \* the rules added, in order: description, number, state
          num, freeIds,       \* RuleIdSource
          ruleDB,    \* the rule of each number
          index,     \* the number of each name (ruleSetIndex)
          ruleDone,  \* the rules removed last
          events,    \* the events of rules in the EventScheduler
          exports, actions,   \* numbers with an entry in the Exporter and the
                              \* PacketProcessor
          filters,   \* the entries of the Classifier: a rule in one direction,
                     \* at the rule's number
          ev, todo   \* the event being handled, the components still to do

manager == <<rule, num, freeIds, ruleDB, index, ruleDone, events>>
tables == <<exports, actions, filters>>
vars == <<manager, tables, ev, todo>>

NoEvent == [type |-> "none", rules |-> {}]

Init ==
    /\ rule = <<>>
    /\ num = 0 /\ freeIds = <<>>
    /\ ruleDB = [i \in Ids |-> None]
    /\ index = [n \in Names |-> NoId]
    /\ ruleDone = <<>>
    /\ events = {}
    /\ exports = {} /\ actions = {} /\ filters = {}
    /\ ev = NoEvent /\ todo = <<>>

Idle == todo = <<>>

\* The state of the RuleManager as a record, for the handlers that change it
\* rule by rule.
Manager == [rule |-> rule, num |-> num, freeIds |-> freeIds, ruleDB |-> ruleDB,
            index |-> index, ruleDone |-> ruleDone, events |-> events]

ManagerBecomes(m) ==
    /\ rule' = m.rule /\ num' = m.num /\ freeIds' = m.freeIds
    /\ ruleDB' = m.ruleDB /\ index' = m.index
    /\ ruleDone' = m.ruleDone /\ events' = m.events

\* getRule(sname, rname): None if there is no such rule.
GetRule(m, n) == IF m.index[n] = NoId THEN None ELSE m.ruleDB[m.index[n]]

-----------------------------------------------------------------------------
(* Adding rules: RuleManager::addRules. *)

\* newId: the number of the next rule.
NewId(m) == IF m.freeIds = <<>> THEN m.num ELSE Head(m.freeIds)

NeverTaken(m, n) == FALSE  \* mutant of NameTaken
NameTaken(m, n) == GetRule(m, n) # None

\* addRule; a name that is in use is refused, and the rule deleted.
AddRule(m, d) ==
    IF NameTaken(m, d.name) THEN m
    ELSE [m EXCEPT !.rule = Append(@, [desc |-> d, uid |-> NewId(m), state |-> "valid"]),
                   !.num = IF m.freeIds = <<>> THEN @ + 1 ELSE @,
                   !.freeIds = IF @ = <<>> THEN @ ELSE Tail(@),
                   !.ruleDB[NewId(m)] = Len(m.rule) + 1,
                   !.index[d.name] = NewId(m)]

\* One event for all the rules, or one for each: rules of one request share
\* an event when they have the same start, stop or interval.
Grouped(type, R, together) ==
    {[type |-> type, rules |-> g] :
        g \in (IF together THEN {R} ELSE {{r} : r \in R}) \ {{}}}

\* The rule gets a number that num counts to although numbers were released:
\* freeId counts num down, so the number may be in use; num itself is unsigned
\* and wraps below zero.
FreshAfterRelease(m, d) ==
    /\ ~NameTaken(m, d.name) /\ m.freeIds = <<>>
    /\ \E r \in DOMAIN m.rule : m.rule[r].state = "deleted"

Numbered(m, d) == "fresh number" \in Exposed \/ ~FreshAfterRelease(m, d)

\* A request has one rule or two.
AddRules(ds, sameStart, sameStop) ==
    /\ Idle
    /\ Len(rule) + Len(ds) <= MaxRules
    /\ Numbered(Manager, ds[1])
    /\ Len(ds) = 2 => Numbered(AddRule(Manager, ds[1]), ds[2])
    /\ LET first == AddRule(Manager, ds[1])
           m == IF Len(ds) = 1 THEN first ELSE AddRule(first, ds[2])
           new == Len(rule) + 1 .. Len(m.rule)
           stopping == {r \in new : m.rule[r].desc.stops} IN
       ManagerBecomes([m EXCEPT !.events = @ \cup Grouped("activate", new, sameStart)
                                             \cup Grouped("remove", stopping, sameStop)])
    /\ UNCHANGED <<tables, ev, todo>>

-----------------------------------------------------------------------------
(* Removing rules: RuleManager::delRule. *)

\* Mutants of DelRuleEvents: every event that has the rule is deleted, and
\* only the rule's removal is.
DelWholeEvents(m, id) == {e \in m.events : \A r \in e.rules : m.rule[r].uid # id}
DelRemoveEvents(m, id) ==
    {e \in m.events : e.type = "remove" => \A r \in e.rules : m.rule[r].uid # id}

\* EventScheduler::delRuleEvents: the rule is taken out of every event, and
\* events without rules are deleted.
DelRuleEvents(m, id) ==
    {e \in {[f EXCEPT !.rules = {r \in @ : m.rule[r].uid # id}] : f \in m.events} :
        e.rules # {}}

TooLong(done) == Len(done) > DoneListSize

\* storeRuleAsDone: the oldest rule on the list is deleted when the list is
\* too long, and its number can be used again (freeId).
StoreRuleAsDone(m, r) ==
    LET done == Append(m.ruleDone, r)
        n == [m EXCEPT !.rule[r].state = "done", !.ruleDone = done] IN
    IF ~TooLong(done) THEN n
    ELSE [n EXCEPT !.ruleDone = Tail(done),
                   !.rule[Head(done)].state = "deleted",
                   !.freeIds = Append(@, m.rule[Head(done)].uid),
                   !.num = @ - 1]

DelRule(m, r) ==
    [StoreRuleAsDone(m, r) EXCEPT !.ruleDB[m.rule[r].uid] = None,
                                  !.index[m.rule[r].desc.name] = NoId,
                                  !.events = DelRuleEvents(m, m.rule[r].uid)]

-----------------------------------------------------------------------------
(* Meter::handleEvent. *)

ActivateOrder == <<"exporter", "processor", "classifier", "manager">>

\* Mutant of RemoveOrder: the order of activation.
RemoveAsActivated == <<"exporter", "processor", "classifier", "manager">>

RemoveOrder == <<"classifier", "processor", "exporter", "manager">>

\* An event is taken from the scheduler.
GetNextEvent(e) ==
    /\ Idle /\ e \in events
    /\ events' = events \ {e}
    /\ ev' = e
    /\ todo' = CASE e.type = "activate" -> ActivateOrder
                 [] e.type = "remove" -> RemoveOrder
                 [] OTHER -> <<"export">>
    /\ UNCHANGED <<rule, num, freeIds, ruleDB, index, ruleDone, tables>>

\* A request of the control interface to remove one rule.
RemoveRule(n) ==
    /\ Idle /\ GetRule(Manager, n) # None
    /\ Requestable = "any" \/ ~IsBidir(rule[GetRule(Manager, n)].desc)
    /\ ev' = [type |-> "request", rules |-> {GetRule(Manager, n)}]
    /\ todo' = RemoveOrder
    /\ UNCHANGED <<manager, tables>>

EvIds == {rule[r].uid : r \in ev.rules}

\* The table t of a component after it has handled the event.
Handled(t) == IF ev.type = "activate" THEN t \cup EvIds ELSE t \ EvIds

Done(component) == ~Idle /\ Head(todo) = component /\ todo' = Tail(todo)

ExporterStep ==
    /\ Done("exporter")
    /\ exports' = Handled(exports)
    /\ UNCHANGED <<manager, actions, filters, ev>>

ProcessorStep ==
    /\ Done("processor")
    /\ actions' = Handled(actions)
    /\ UNCHANGED <<manager, exports, filters, ev>>

\* The directions in which the classifier has filters for a rule.
Directions(r) == IF IsBidir(rule[r].desc) THEN {"forward", "backward"} ELSE {"forward"}
Filters(R) == {[uid |-> rule[r].uid, dir |-> d, rule |-> r] :
                  r \in R, d \in {"forward", "backward"}}

\* addRules: map::insert leaves an entry that is there already.
Inserted(fs) ==
    fs \cup {f \in Filters(ev.rules) :
                /\ f.dir \in Directions(f.rule)
                /\ \A g \in fs : g.uid # f.uid \/ g.dir # f.dir}

\* delRules removes both directions, delRule, for a request, the forward one.
Erased(fs) ==
    {f \in fs : \A r \in ev.rules :
        \/ f.uid # rule[r].uid
        \/ f.dir \notin Directions(r)
        \/ f.dir = "backward" /\ ev.type = "request"}

ClassifierStep ==
    /\ Done("classifier")
    /\ filters' = IF ev.type = "activate" THEN Inserted(filters) ELSE Erased(filters)
    /\ UNCHANGED <<manager, exports, actions, ev>>

\* activateRules: export events for the rules with an export interval, and
\* for each with a flow timeout an event of its own.
ActivateRules(sameInterval) ==
    /\ ev.type = "activate" /\ Done("manager")
    /\ LET Recurring(type) == {r \in ev.rules : rule[r].desc.recurs = type} IN
       ManagerBecomes(
           [Manager EXCEPT
              !.rule = [r \in DOMAIN @ |-> IF r \in ev.rules
                                           THEN [@[r] EXCEPT !.state = "active"] ELSE @[r]],
              !.events = @ \cup Grouped("push", Recurring("push"), sameInterval)
                           \cup Grouped("timeout", Recurring("timeout"), FALSE)])
    /\ ev' = NoEvent
    /\ UNCHANGED tables

\* delRules, one rule after the other; with the last one the event is deleted.
DelRules(r) ==
    /\ ev.type \in {"remove", "request"}
    /\ ~Idle /\ Head(todo) = "manager"
    /\ r \in ev.rules /\ \A q \in ev.rules : r <= q
    /\ ManagerBecomes(DelRule(Manager, r))
    /\ IF ev.rules = {r}
       THEN ev' = NoEvent /\ todo' = <<>>
       ELSE ev' = [ev EXCEPT !.rules = @ \ {r}] /\ UNCHANGED todo
    /\ UNCHANGED tables

\* An export, or the test for a flow timeout: the event is scheduled again.
Export ==
    /\ Done("export")
    /\ events' = events \cup {ev}
    /\ ev' = NoEvent
    /\ UNCHANGED <<rule, num, freeIds, ruleDB, index, ruleDone, tables>>

Handler ==
    \/ ExporterStep
    \/ ProcessorStep
    \/ ClassifierStep
    \/ \E sameInterval \in BOOLEAN : ActivateRules(sameInterval)
    \/ \E r \in ev.rules : DelRules(r)
    \/ Export

Requests ==
    {<<d>> : d \in Descriptions} \cup {<<c, d>> : c, d \in Descriptions}

Next ==
    \/ \E ds \in Requests, sameStart, sameStop \in BOOLEAN :
           AddRules(ds, sameStart, sameStop)
    \/ \E n \in Names : RemoveRule(n)
    \/ \E e \in events : GetNextEvent(e)
    \/ Handler

\* The events that start and stop rules; there is one of each for a rule.
StartOrStop == \E e \in events : e.type \in {"activate", "remove"} /\ GetNextEvent(e)

\* The meter finishes what it handles.  Events are handled in the order of
\* their times, and an export that is scheduled again gets a later time, so
\* exports cannot keep a rule from its start or its stop forever.
Spec == Init /\ [][Next]_vars /\ WF_vars(Handler) /\ SF_vars(StartOrStop)

-----------------------------------------------------------------------------
\* Every variable has values of its type: events are of known types and for
\* known rules, and the list of removed rules has no more than its size.
TypeOK ==
    /\ rule \in Seq([desc : Descriptions, uid : Ids,
                     state : {"valid", "active", "done", "deleted"}])
    /\ num \in Int /\ freeIds \in Seq(Ids)
    /\ ruleDB \in [Ids -> Rules \cup {None}]
    /\ index \in [Names -> Ids \cup {NoId}]
    /\ ruleDone \in Seq(Rules) /\ Len(ruleDone) <= DoneListSize
    /\ \A e \in events \cup {ev} :
          /\ e.type \in {"none", "activate", "remove", "request", "push", "timeout"}
          /\ e.rules \subseteq Rules
    /\ exports \subseteq Ids /\ actions \subseteq Ids
    /\ filters \subseteq [uid : Ids, dir : {"forward", "backward"}, rule : Rules]
    /\ Len(todo) <= 4

In(state) == {r \in DOMAIN rule : rule[r].state = state}
Installed == In("valid") \cup In("active")
UIds(R) == {rule[r].uid : r \in R}

\* The database by number and the index by name agree, in both directions,
\* and hold the rules that were added and not removed yet.
IndexAgrees ==
    /\ \A i \in Ids : ruleDB[i] # None =>
           index[rule[ruleDB[i]].desc.name] = i /\ rule[ruleDB[i]].uid = i
    /\ \A n \in Names : index[n] # NoId =>
           ruleDB[index[n]] # None /\ rule[ruleDB[index[n]]].desc.name = n
    /\ {ruleDB[i] : i \in Ids} \ {None} = Installed

\* No number is given to a rule while another one has it, be it installed or
\* remembered on the list of removed rules (RuleIdSource.h, newId: a value
\* "will not returned by a call to newId unless it has been released again").
UniqueIds ==
    \A q, r \in Installed \cup ToSet(ruleDone) :
        rule[q].uid = rule[r].uid => q = r

\* A number and a name lead to one rule, the one that was added under them.
RulesFound == TypeOK /\ IndexAgrees /\ UniqueIds

\* The events of a rule in the scheduler, the one being handled included.
EventsOf(r, type) == {e \in events \cup {ev} : e.type = type /\ r \in e.rules}

\* Every event refers to installed rules only: none keeps the number of, or a
\* pointer to, a rule that was removed, by whichever way it was removed.
NoEventOfRemovedRule ==
    \A e \in events \cup {ev} : e.rules \subseteq Installed

\* And every rule has the events it needs: a rule that waits has the one that
\* activates it, an active one those that export it, one with a stop time the
\* one that removes it, whatever happened to the rules they share it with.
EveryRuleHasItsEvents ==
    \A r \in Installed :
        /\ rule[r].state = "valid" => EventsOf(r, "activate") # {}
        /\ rule[r].state = "active" => EventsOf(r, rule[r].desc.recurs) # {}
        /\ rule[r].desc.stops => EventsOf(r, "remove") # {}

\* Scheduler and rule database agree, though rules share events and leave in
\* two ways (EventScheduler.cc:101).
EventsMatchRules == NoEventOfRemovedRule /\ EveryRuleHasItsEvents

\* At every moment, and so for every packet another thread classifies or
\* processes meanwhile, a number the classifier matches has its actions, and
\* one with actions has its export modules.
TablesNested ==
    {f.uid : f \in filters} \subseteq actions /\ actions \subseteq exports

\* Between two events the components have the active rules and no others.
TablesMatchStates ==
    Idle => actions = UIds(In("active")) /\ exports = actions

\* And the classifier has the filters of the active rules, in the directions
\* each has, and no filter of a rule that was removed (Meter.cc: "now get rid
\* of the expired rule").
FiltersMatchStates ==
    Idle => filters = {f \in Filters(In("active")) : f.dir \in Directions(f.rule)}

\* The tables of exporter, processor and classifier are what the rules' states
\* say, and never in an order that loses a packet (Meter.cc:682, Meter.cc:744).
TablesAgree == TablesNested /\ TablesMatchStates /\ FiltersMatchStates

\* A rule that was added is started, unless it is removed before.
EveryRuleStarts ==
    \A r \in Rules : r \in In("valid") ~> r \notin In("valid")

\* A rule with a stop time is removed.
EveryRuleStops ==
    \A r \in Rules : (r \in Installed /\ rule[r].desc.stops) ~> r \notin Installed

\* What is scheduled for a rule happens, whatever is removed meanwhile.
RulesStartAndStop == EveryRuleStarts /\ EveryRuleStops
=============================================================================
