------------------------ MODULE RuleLifecycleProofs ------------------------
(***************************************************************************)
(* Proofs about RuleLifecycle, for any number of names and rules and any   *)
(* length of the list of removed rules: numbers and names lead to the rule *)
(* they were given to, the scheduler has the events of the installed rules *)
(* and no others, and the tables of classifier, processor and exporter     *)
(* hold the rules' states, in every state another thread can see.          *)
(*                                                                         *)
(* What the RuleManager keeps is described for its state as a record, as   *)
(* addRule and delRule are, so that one lemma serves each of the calls     *)
(* that handle several rules.                                              *)
(***************************************************************************)
EXTENDS RuleLifecycle, SequenceTheorems, TLAPS

RuleRecord == [desc : Descriptions, uid : Ids,
               state : {"valid", "active", "done", "deleted"}]
Scheduled == [type : {"activate", "remove", "push", "timeout"},
              rules : SUBSET Rules]
Managers == [rule : Seq(RuleRecord), num : Int, freeIds : Seq(Ids),
             ruleDB : [Ids -> Rules \cup {None}],
             index : [Names -> Ids \cup {NoId}],
             ruleDone : Seq(Rules), events : SUBSET Scheduled]

InstalledIn(m) == {r \in DOMAIN m.rule : m.rule[r].state \in {"valid", "active"}}

\* The rules that keep their number: the installed ones and the removed ones
\* that are remembered.
Holders(m) == {r \in DOMAIN m.rule : m.rule[r].state # "deleted"}

\* A number is held by one rule or is free, and is free once.
NumbersHeldOnce(m) ==
    /\ \A r \in DOMAIN m.rule : m.rule[r].uid < Len(m.rule)
    /\ \A q, r \in Holders(m) : m.rule[q].uid = m.rule[r].uid => q = r
    /\ \A i \in DOMAIN m.freeIds :
          /\ m.freeIds[i] < Len(m.rule)
          /\ \A r \in Holders(m) : m.rule[r].uid # m.freeIds[i]
          /\ \A j \in DOMAIN m.freeIds : m.freeIds[j] = m.freeIds[i] => i = j

\* Until a rule is deleted, num is above all numbers given.
NumCountsRules(m) ==
    \/ \E r \in DOMAIN m.rule : m.rule[r].state = "deleted"
    \/ m.freeIds = <<>> /\ m.num = Len(m.rule)

\* The list has removed rules that were not deleted, each once.
DoneOnce(m) ==
    /\ Len(m.ruleDone) <= DoneListSize
    /\ \A i \in DOMAIN m.ruleDone :
          /\ m.ruleDone[i] \in DOMAIN m.rule
          /\ m.rule[m.ruleDone[i]].state = "done"
          /\ \A j \in DOMAIN m.ruleDone : m.ruleDone[j] = m.ruleDone[i] => i = j

\* Numbers, rules and names lead to each other.
Indexed(m) ==
    /\ \A i \in Ids : m.ruleDB[i] # None =>
          /\ m.ruleDB[i] \in InstalledIn(m)
          /\ m.rule[m.ruleDB[i]].uid = i
          /\ m.index[m.rule[m.ruleDB[i]].desc.name] = i
    /\ \A r \in InstalledIn(m) : m.ruleDB[m.rule[r].uid] = r
    /\ \A n \in Names : m.index[n] # NoId =>
          /\ m.ruleDB[m.index[n]] # None
          /\ m.rule[m.ruleDB[m.index[n]]].desc.name = n

EventsOfInstalled(m) == \A e \in m.events : e.rules \subseteq InstalledIn(m)

\* What addRule and delRule keep.
Consistent(m) ==
    /\ m \in Managers /\ Len(m.rule) <= MaxRules
    /\ NumbersHeldOnce(m)
    /\ NumCountsRules(m)
    /\ DoneOnce(m)
    /\ Indexed(m)
    /\ EventsOfInstalled(m)

-----------------------------------------------------------------------------
\* The event that is handled and the components still to do.
Handling ==
    /\ ev \in [type : {"none", "activate", "remove", "request", "push", "timeout"},
               rules : SUBSET Rules]
    /\ ev.rules \subseteq Installed
    /\ Requestable = "oneway" /\ ev.type = "request" =>
           \A r \in ev.rules : ~IsBidir(rule[r].desc)
    /\ \/ ev = NoEvent /\ todo = <<>>
       \/ /\ ev.type = "activate"
          /\ \/ todo = <<"exporter", "processor", "classifier", "manager">>
             \/ todo = <<"processor", "classifier", "manager">>
             \/ todo = <<"classifier", "manager">>
             \/ todo = <<"manager">>
       \/ /\ ev.type \in {"remove", "request"}
          /\ \/ todo = <<"classifier", "processor", "exporter", "manager">>
             \/ todo = <<"processor", "exporter", "manager">>
             \/ todo = <<"exporter", "manager">>
             \/ todo = <<"manager">>
       \/ ev.type \in {"push", "timeout"} /\ todo = <<"export">>

FiltersOf(R) == {f \in Filters(R) : f.dir \in Directions(f.rule)}

\* The rules a component has: the active ones, and when fewer components than
\* the number given are left to do, it has handled the event.
Shown(whenStarting, whenLeaving) ==
    IF ev.type = "activate" /\ Len(todo) < whenStarting THEN In("active") \cup ev.rules
    ELSE IF ev.type \in {"remove", "request"} /\ Len(todo) < whenLeaving
    THEN In("active") \ ev.rules ELSE In("active")

TablesInStep ==
    /\ exports = UIds(Shown(4, 2))
    /\ actions = UIds(Shown(3, 3))
    /\ filters \subseteq [uid : Ids, dir : {"forward", "backward"}, rule : Rules]
    /\ Requestable = "oneway" => filters = FiltersOf(Shown(2, 4))

IInv ==
    /\ Consistent(Manager)
    /\ Handling
    /\ EveryRuleHasItsEvents
    /\ TablesInStep

-----------------------------------------------------------------------------
\* The types of what the RuleManager keeps.
LEMMA Types ==
  ASSUME NEW m, Consistent(m)
  PROVE  /\ m.rule \in Seq(RuleRecord) /\ Len(m.rule) \in Nat /\ MaxRules \in Nat
         /\ DOMAIN m.rule = 1 .. Len(m.rule) /\ Len(m.rule) <= MaxRules
         /\ m.num \in Int /\ m.freeIds \in Seq(Ids) /\ m.ruleDone \in Seq(Rules)
         /\ m.ruleDB \in [Ids -> Rules \cup {None}]
         /\ m.index \in [Names -> Ids \cup {NoId}]
         /\ m.events \in SUBSET Scheduled
         /\ \A r \in DOMAIN m.rule :
               /\ m.rule[r].uid \in Ids /\ m.rule[r].uid \in Int
               /\ m.rule[r].desc \in Descriptions /\ m.rule[r].desc.name \in Names
<1>1. m \in Managers /\ Len(m.rule) <= MaxRules
  BY DEF Consistent
<1>2. m.rule \in Seq(RuleRecord)
  BY <1>1 DEF Managers
<1>3. /\ Len(m.rule) \in Nat /\ MaxRules \in Nat
      /\ DOMAIN m.rule = 1 .. Len(m.rule)
      /\ \A r \in DOMAIN m.rule : m.rule[r] \in RuleRecord
  <2>1. Len(m.rule) \in Nat /\ DOMAIN m.rule = 1 .. Len(m.rule)
    BY <1>2, LenProperties
  <2>2. \A r \in 1 .. Len(m.rule) : m.rule[r] \in RuleRecord
    BY <1>2, ElementOfSeq
  <2>. QED BY <2>1, <2>2, LifecycleAssumption
<1>4. \A r \in DOMAIN m.rule :
         /\ m.rule[r].uid \in Ids /\ m.rule[r].uid \in Int
         /\ m.rule[r].desc \in Descriptions /\ m.rule[r].desc.name \in Names
  BY <1>3 DEF RuleRecord, Ids, Descriptions
<1>. QED BY <1>1, <1>2, <1>3, <1>4 DEF Managers

(* RuleManager::addRule. *)

\* A number for a new rule is below the count of rules and nobody holds it.
LEMMA NewNumber ==
  ASSUME NEW m, Consistent(m), Len(m.rule) < MaxRules, NEW d \in Descriptions,
         ~NameTaken(m, d.name), ~FreshAfterRelease(m, d)
  PROVE  /\ NewId(m) \in Ids /\ NewId(m) <= Len(m.rule)
         /\ \A r \in Holders(m) : m.rule[r].uid # NewId(m)
         /\ m.freeIds = <<>> => NewId(m) = Len(m.rule) /\ m.num = Len(m.rule)
<1>1. m.freeIds \in Seq(Ids) /\ m.rule \in Seq(RuleRecord) /\ Len(m.rule) \in Nat /\ MaxRules \in Nat
  BY Types
<1>2. CASE m.freeIds = <<>>
  <2>1. NewId(m) = Len(m.rule) /\ m.num = Len(m.rule)
    BY <1>2 DEF NewId, FreshAfterRelease, Consistent, NumCountsRules
  <2>. QED BY <1>1, <2>1 DEF Ids, Consistent, NumbersHeldOnce, Holders
<1>3. CASE m.freeIds # <<>>
  <2>1. 1 \in DOMAIN m.freeIds /\ NewId(m) = m.freeIds[1] /\ m.freeIds[1] \in Ids
    BY <1>1, <1>3 DEF NewId
  <2>. QED BY <1>1, <1>3, <2>1 DEF Consistent, NumbersHeldOnce, Ids
<1>. QED BY <1>2, <1>3

\* At most one rule is added; those that were there and the events do not change.
Extended(m, a) ==
    /\ Len(a.rule) \in {Len(m.rule), Len(m.rule) + 1}
    /\ \A r \in DOMAIN m.rule : a.rule[r] = m.rule[r]
    /\ \A r \in DOMAIN a.rule \ DOMAIN m.rule : a.rule[r].state = "valid"
    /\ a.events = m.events

\* A rule that is added has its number and its name for itself.
LEMMA AddRuleKeeps ==
  ASSUME NEW m, Consistent(m), Len(m.rule) < MaxRules, NEW d \in Descriptions,
         Exposed = {}, Numbered(m, d)
  PROVE  Consistent(AddRule(m, d)) /\ Extended(m, AddRule(m, d))
<1> DEFINE a == AddRule(m, d)
           u == NewId(m)
           n == Len(m.rule) + 1
           new == [desc |-> d, uid |-> u, state |-> "valid"]
<1>1. CASE NameTaken(m, d.name)
  <2>1. a = m
    BY <1>1 DEF AddRule
  <2>. QED BY <2>1, Types DEF Extended
<1>2. CASE ~NameTaken(m, d.name)
  <2>1. m \in Managers
    BY DEF Consistent
  <2>2. /\ m.rule \in Seq(RuleRecord) /\ Len(m.rule) \in Nat /\ MaxRules \in Nat
        /\ m.freeIds \in Seq(Ids) /\ m.ruleDone \in Seq(Rules)
        /\ DOMAIN m.rule = 1 .. Len(m.rule)
        /\ m.num \in Int /\ m.events \in SUBSET Scheduled
        /\ m.ruleDB \in [Ids -> Rules \cup {None}]
        /\ m.index \in [Names -> Ids \cup {NoId}]
        /\ n \in Rules
    BY Types DEF Rules
  <2>21. \A r \in DOMAIN m.rule :
           /\ m.rule[r].uid \in Ids /\ m.rule[r].uid \in Int
           /\ m.rule[r].desc.name \in Names
    BY Types
  <2>3. ~FreshAfterRelease(m, d)
    BY DEF Numbered
  <2>4. /\ u \in Ids /\ u <= Len(m.rule)
        /\ \A r \in Holders(m) : m.rule[r].uid # u
        /\ m.freeIds = <<>> => u = Len(m.rule) /\ m.num = Len(m.rule)
    BY <1>2, <2>3, NewNumber
  <2> HIDE DEF u
  <2>5. new \in RuleRecord /\ new.uid = u /\ new.desc = d /\ new.state = "valid"
    BY <2>4 DEF RuleRecord
  <2> HIDE DEF new
  <2>6. a = [m EXCEPT !.rule = Append(@, new),
                      !.num = IF m.freeIds = <<>> THEN @ + 1 ELSE @,
                      !.freeIds = IF @ = <<>> THEN @ ELSE Tail(@),
                      !.ruleDB[u] = n,
                      !.index[d.name] = u]
    BY <1>2 DEF AddRule, u, new
  <2>7. d.name \in Names
    BY DEF Descriptions
  <2> HIDE DEF a
  <2>8. /\ a.rule = Append(m.rule, new)
        /\ a.num = IF m.freeIds = <<>> THEN m.num + 1 ELSE m.num
        /\ a.freeIds = IF m.freeIds = <<>> THEN m.freeIds ELSE Tail(m.freeIds)
        /\ a.ruleDB = [m.ruleDB EXCEPT ![u] = n]
        /\ a.index = [m.index EXCEPT ![d.name] = u]
        /\ a.ruleDone = m.ruleDone
        /\ a.events = m.events
    BY <2>1, <2>6 DEF Managers
  <2>9. /\ a.rule \in Seq(RuleRecord)
        /\ DOMAIN a.rule = 1 .. n /\ Len(a.rule) = n
        /\ \A r \in DOMAIN m.rule : a.rule[r] = m.rule[r]
        /\ a.rule[n] = new
    BY <2>2, <2>5, <2>8, AppendProperties
  <2>10. /\ a.freeIds \in Seq(Ids)
         /\ \A i \in DOMAIN a.freeIds :
               i + 1 \in DOMAIN m.freeIds /\ a.freeIds[i] = m.freeIds[i + 1]
         /\ m.freeIds # <<>> => 1 \in DOMAIN m.freeIds /\ u = m.freeIds[1]
    <3>1. CASE m.freeIds = <<>>
      BY <2>2, <2>8, <3>1
    <3>2. CASE m.freeIds # <<>>
      BY <2>2, <2>8, <3>2, HeadTailProperties DEF NewId, u
    <3>. QED BY <3>1, <3>2
  <2>11. a \in Managers /\ Len(a.rule) <= MaxRules
    <3>1. a.num \in Int
      BY <2>2, <2>8
    <3>2. a.ruleDB \in [Ids -> Rules \cup {None}] /\ a.index \in [Names -> Ids \cup {NoId}]
      BY <2>2, <2>4, <2>7, <2>8
    <3>4. Len(a.rule) <= MaxRules
      BY <2>2, <2>9 DEF Rules
    <3>3. a = [rule |-> a.rule, num |-> a.num, freeIds |-> a.freeIds, ruleDB |-> a.ruleDB,
               index |-> a.index, ruleDone |-> a.ruleDone, events |-> a.events]
      BY <2>1, <2>6 DEF Managers
    <3>. QED BY <2>2, <2>8, <2>9, <2>10, <3>1, <3>2, <3>3, <3>4 DEF Managers
  <2>12. /\ InstalledIn(a) = InstalledIn(m) \cup {n}
         /\ Holders(a) = Holders(m) \cup {n} /\ n \notin DOMAIN m.rule
    <3>1. n \notin DOMAIN m.rule /\ DOMAIN a.rule = DOMAIN m.rule \cup {n}
      BY <2>2, <2>9
    <3>2. a.rule[n].state = "valid" /\ \A r \in DOMAIN m.rule : a.rule[r] = m.rule[r]
      BY <2>5, <2>9
    <3> HIDE DEF n
    <3>3. InstalledIn(a) = InstalledIn(m) \cup {n}
      BY <3>1, <3>2 DEF InstalledIn
    <3>4. Holders(a) = Holders(m) \cup {n}
      BY <3>1, <3>2 DEF Holders
    <3>. QED BY <3>1, <3>3, <3>4
  <2>13. NumbersHeldOnce(a)
    <3>1. \A r \in DOMAIN a.rule : a.rule[r].uid < Len(a.rule)
      <4>1. \A r \in DOMAIN m.rule : m.rule[r].uid < Len(m.rule)
        BY DEF Consistent, NumbersHeldOnce
      <4>2. u < n
        BY <2>2, <2>4 DEF Ids
      <4>. QED BY <2>2, <2>21, <2>5, <2>9, <4>1, <4>2
    <3>2. \A q, r \in Holders(a) : a.rule[q].uid = a.rule[r].uid => q = r
      <4>1. \A q, r \in Holders(m) : m.rule[q].uid = m.rule[r].uid => q = r
        BY DEF Consistent, NumbersHeldOnce
      <4>2. \A r \in Holders(m) : a.rule[r] = m.rule[r] /\ a.rule[r].uid # u
        BY <2>4, <2>9 DEF Holders
      <4>. QED BY <2>5, <2>9, <2>12, <4>1, <4>2
    <3>3. ASSUME NEW i \in DOMAIN a.freeIds
          PROVE  /\ a.freeIds[i] < Len(a.rule)
                 /\ \A r \in Holders(a) : a.rule[r].uid # a.freeIds[i]
                 /\ \A j \in DOMAIN a.freeIds : a.freeIds[j] = a.freeIds[i] => i = j
      <4>1. /\ i + 1 \in DOMAIN m.freeIds /\ a.freeIds[i] = m.freeIds[i + 1] /\ i \in Nat \ {0}
            /\ m.freeIds # <<>>
        BY <2>2, <2>10
      <4>2. a.freeIds[i] < Len(m.rule) /\ m.freeIds[i + 1] \in Ids
        BY <2>2, <4>1 DEF Consistent, NumbersHeldOnce
      <4>3. a.freeIds[i] # u
        BY <2>10, <4>1 DEF Consistent, NumbersHeldOnce
      <4>4. \A r \in Holders(a) : a.rule[r].uid # a.freeIds[i]
        BY <2>5, <2>9, <2>12, <4>1, <4>3 DEF Consistent, NumbersHeldOnce, Holders
      <4>5. \A j \in DOMAIN a.freeIds : a.freeIds[j] = a.freeIds[i] => i = j
        BY <2>10, <4>1 DEF Consistent, NumbersHeldOnce
      <4>. QED BY <2>2, <2>9, <4>1, <4>2, <4>4, <4>5 DEF Ids
    <3>. QED BY <3>1, <3>2, <3>3 DEF NumbersHeldOnce
  <2>14. NumCountsRules(a)
    <3>1. CASE \E r \in DOMAIN m.rule : m.rule[r].state = "deleted"
      BY <2>2, <2>9, <3>1 DEF NumCountsRules
    <3>2. CASE m.freeIds = <<>> /\ m.num = Len(m.rule)
      BY <2>8, <2>9, <3>2 DEF NumCountsRules
    <3>. QED BY <3>1, <3>2 DEF Consistent, NumCountsRules
  <2>15. DoneOnce(a)
    <3>1. DoneOnce(m) /\ a.ruleDone = m.ruleDone
      BY <2>8 DEF Consistent
    <3>2. \A r \in DOMAIN m.rule : r \in DOMAIN a.rule /\ a.rule[r] = m.rule[r]
      BY <2>2, <2>9
    <3>. QED BY <3>1, <3>2 DEF DoneOnce
  <2>16. Indexed(a)
    <3>1. m.index[d.name] = NoId
      BY <1>2, <2>1, <2>7 DEF NameTaken, GetRule, Consistent, Indexed
    <3>2. ASSUME NEW i \in Ids, a.ruleDB[i] # None
          PROVE  /\ a.ruleDB[i] \in InstalledIn(a)
                 /\ a.rule[a.ruleDB[i]].uid = i
                 /\ a.index[a.rule[a.ruleDB[i]].desc.name] = i
      <4>1. CASE i = u
        BY <2>2, <2>4, <2>5, <2>7, <2>8, <2>9, <2>12, <4>1
      <4>2. CASE i # u
        <5>1. a.ruleDB[i] = m.ruleDB[i]
          BY <2>2, <2>8, <4>2
        <5>2. /\ m.ruleDB[i] \in InstalledIn(m) /\ m.rule[m.ruleDB[i]].uid = i
              /\ m.index[m.rule[m.ruleDB[i]].desc.name] = i
          BY <3>2, <5>1 DEF Consistent, Indexed
        <5>3. m.ruleDB[i] \in DOMAIN m.rule
          BY <5>2 DEF InstalledIn
        <5>4. m.rule[m.ruleDB[i]].desc.name # d.name /\ m.rule[m.ruleDB[i]].desc.name \in Names
          BY <2>21, <3>1, <5>2, <5>3 DEF Ids, NoId
        <5>. QED BY <2>2, <2>8, <2>9, <2>12, <5>1, <5>2, <5>3, <5>4
      <4>. QED BY <4>1, <4>2
    <3>3. ASSUME NEW r \in InstalledIn(a)
          PROVE  a.ruleDB[a.rule[r].uid] = r
      <4>1. CASE r = n
        BY <2>2, <2>4, <2>5, <2>8, <2>9, <4>1
      <4>2. CASE r # n
        <5>1. r \in InstalledIn(m) /\ r \in Holders(m) /\ r \in DOMAIN m.rule
          BY <2>12, <4>2 DEF InstalledIn, Holders
        <5>2. m.rule[r].uid # u /\ m.rule[r].uid \in Ids /\ a.rule[r] = m.rule[r]
          BY <2>21, <2>4, <2>9, <5>1
        <5>3. m.ruleDB[m.rule[r].uid] = r
          BY <5>1 DEF Consistent, Indexed
        <5>4. a.ruleDB[m.rule[r].uid] = m.ruleDB[m.rule[r].uid]
          BY <2>2, <2>8, <5>2
        <5>. QED BY <5>2, <5>3, <5>4
      <4>. QED BY <4>1, <4>2
    <3>4. ASSUME NEW x \in Names, a.index[x] # NoId
          PROVE  /\ a.ruleDB[a.index[x]] # None
                 /\ a.rule[a.ruleDB[a.index[x]]].desc.name = x
      <4>1. CASE x = d.name
        BY <2>2, <2>4, <2>5, <2>7, <2>8, <2>9, <4>1 DEF None, Rules
      <4>2. CASE x # d.name
        <5>1. a.index[x] = m.index[x] /\ m.index[x] \in Ids
          BY <2>2, <2>7, <2>8, <3>4, <4>2
        <5>2. m.ruleDB[m.index[x]] # None /\ m.rule[m.ruleDB[m.index[x]]].desc.name = x
          BY <3>4, <5>1 DEF Consistent, Indexed
        <5>3. /\ m.ruleDB[m.index[x]] \in InstalledIn(m)
              /\ m.rule[m.ruleDB[m.index[x]]].uid = m.index[x]
          BY <5>1, <5>2 DEF Consistent, Indexed
        <5>4. m.index[x] # u /\ m.ruleDB[m.index[x]] \in DOMAIN m.rule
          BY <2>4, <5>3 DEF InstalledIn, Holders
        <5>. QED BY <2>2, <2>8, <2>9, <5>1, <5>2, <5>4
      <4>. QED BY <4>1, <4>2
    <3>. QED BY <3>2, <3>3, <3>4 DEF Indexed
  <2>17. EventsOfInstalled(a)
    BY <2>8, <2>12 DEF Consistent, EventsOfInstalled
  <2>18. Consistent(a)
    BY <2>11, <2>13, <2>14, <2>15, <2>16, <2>17 DEF Consistent
  <2>. QED BY <2>2, <2>5, <2>8, <2>9, <2>18 DEF a, Extended
<1>. QED BY <1>1, <1>2

-----------------------------------------------------------------------------
(* RuleManager::delRule. *)

\* What delRule changes: the removed rule r is put on the list, and the rule h
\* that is pushed out of it is deleted and its number free.
Removed(m, r, d) ==
    LET h == m.ruleDone[1] IN
    /\ d.ruleDB = [m.ruleDB EXCEPT ![m.rule[r].uid] = None]
    /\ d.index = [m.index EXCEPT ![m.rule[r].desc.name] = NoId]
    /\ d.events = DelRuleEvents(m, m.rule[r].uid)
    /\ d = [rule |-> d.rule, num |-> d.num, freeIds |-> d.freeIds,
            ruleDB |-> d.ruleDB, index |-> d.index,
            ruleDone |-> d.ruleDone, events |-> d.events]
    /\ d.num \in Int
    /\ Len(m.ruleDone) # DoneListSize =>
          /\ Len(m.ruleDone) < DoneListSize
          /\ d.rule = [m.rule EXCEPT ![r].state = "done"]
          /\ d.freeIds = m.freeIds
          /\ d.num = m.num
          /\ d.ruleDone = Append(m.ruleDone, r)
    /\ Len(m.ruleDone) = DoneListSize =>
          /\ 1 \in DOMAIN m.ruleDone
          /\ d.rule = [m.rule EXCEPT ![r].state = "done", ![h].state = "deleted"]
          /\ d.freeIds = Append(m.freeIds, m.rule[h].uid)
          /\ d.ruleDone = Tail(Append(m.ruleDone, r))

LEMMA DelRuleFields ==
  ASSUME NEW m, Consistent(m), NEW r \in InstalledIn(m)
  PROVE  Removed(m, r, DelRule(m, r))
<1> DEFINE d == DelRule(m, r)
           h == m.ruleDone[1]
           full == Len(m.ruleDone) = DoneListSize
           s == StoreRuleAsDone(m, r)
           done == Append(m.ruleDone, r)
<1> HIDE DEF h, full
<1>1. m \in Managers /\ m.num \in Int /\ r \in DOMAIN m.rule /\ m.ruleDone \in Seq(Rules)
  BY Types DEF Consistent, InstalledIn
<1>2. r \in Rules
  BY <1>1, Types DEF Rules
<1>3. /\ done \in Seq(Rules) /\ Len(done) = Len(m.ruleDone) + 1
      /\ Len(m.ruleDone) \in Nat /\ DoneListSize \in Nat \ {0}
      /\ Len(m.ruleDone) <= DoneListSize
  <2>1. done \in Seq(Rules) /\ Len(done) = Len(m.ruleDone) + 1
    BY <1>1, <1>2, AppendProperties
  <2>2. Len(m.ruleDone) \in Nat
    BY <1>1, LenProperties
  <2>3. Len(m.ruleDone) <= DoneListSize
    BY DEF Consistent, DoneOnce
  <2>. QED BY <2>1, <2>2, <2>3, LifecycleAssumption
<1>4. TooLong(done) <=> full
  BY <1>3 DEF TooLong, full
<1>5. full => 1 \in DOMAIN m.ruleDone /\ Head(done) = h
  <2>1. ASSUME full PROVE 1 \in 1 .. Len(m.ruleDone) /\ done # <<>>
    BY <1>3, <2>1 DEF full
  <2>2. ASSUME full PROVE done[1] = h
    BY <1>1, <1>2, <2>1, <2>2, AppendProperties DEF h
  <2>. QED BY <1>1, <1>3, <2>1, <2>2, LenProperties
<1> DEFINE n == [m EXCEPT !.rule[r].state = "done", !.ruleDone = done]
<1>6. s = IF ~TooLong(done) THEN n
          ELSE [n EXCEPT !.ruleDone = Tail(done),
                         !.rule[Head(done)].state = "deleted",
                         !.freeIds = Append(@, m.rule[Head(done)].uid),
                         !.num = @ - 1]
  BY DEF StoreRuleAsDone
<1>7. d = [s EXCEPT !.ruleDB[m.rule[r].uid] = None,
                    !.index[m.rule[r].desc.name] = NoId,
                    !.events = DelRuleEvents(m, m.rule[r].uid)]
  BY DEF DelRule
<1> HIDE DEF s, d, done
<1>8. /\ n = [rule |-> [m.rule EXCEPT ![r].state = "done"], num |-> m.num,
              freeIds |-> m.freeIds, ruleDB |-> m.ruleDB, index |-> m.index,
              ruleDone |-> done, events |-> m.events]
  <2>1. n = [m EXCEPT !.rule = [m.rule EXCEPT ![r].state = "done"], !.ruleDone = done]
    OBVIOUS
  <2> HIDE DEF n
  <2>2. DOMAIN m = {"rule", "num", "freeIds", "ruleDB", "index", "ruleDone", "events"}
    BY <1>1 DEF Managers
  <2>. QED BY <2>1, <2>2
<1> HIDE DEF n
<1>9. ASSUME ~full PROVE Removed(m, r, d)
  <2>1. s = [rule |-> [m.rule EXCEPT ![r].state = "done"], num |-> m.num,
             freeIds |-> m.freeIds, ruleDB |-> m.ruleDB, index |-> m.index,
             ruleDone |-> done, events |-> m.events]
    BY <1>4, <1>6, <1>8, <1>9
  <2>2. d = [rule |-> [m.rule EXCEPT ![r].state = "done"], num |-> m.num,
             freeIds |-> m.freeIds,
             ruleDB |-> [m.ruleDB EXCEPT ![m.rule[r].uid] = None],
             index |-> [m.index EXCEPT ![m.rule[r].desc.name] = NoId],
             ruleDone |-> done, events |-> DelRuleEvents(m, m.rule[r].uid)]
    BY <1>7, <2>1
  <2>3. Len(m.ruleDone) < DoneListSize
    BY <1>3, <1>9 DEF full
  <2>. QED BY <1>1, <1>9, <2>2, <2>3 DEF Removed, done, full
<1>10. ASSUME full PROVE Removed(m, r, d)
  <2>1. s = [n EXCEPT !.ruleDone = Tail(done),
                      !.rule[h].state = "deleted",
                      !.freeIds = Append(@, m.rule[h].uid),
                      !.num = @ - 1]
    BY <1>4, <1>5, <1>6, <1>10
  <2>2. s = [rule |-> [m.rule EXCEPT ![r].state = "done", ![h].state = "deleted"],
             num |-> m.num - 1, freeIds |-> Append(m.freeIds, m.rule[h].uid),
             ruleDB |-> m.ruleDB, index |-> m.index, ruleDone |-> Tail(done),
             events |-> m.events]
    BY <1>8, <2>1
  <2>3. d = [rule |-> [m.rule EXCEPT ![r].state = "done", ![h].state = "deleted"],
             num |-> m.num - 1, freeIds |-> Append(m.freeIds, m.rule[h].uid),
             ruleDB |-> [m.ruleDB EXCEPT ![m.rule[r].uid] = None],
             index |-> [m.index EXCEPT ![m.rule[r].desc.name] = NoId],
             ruleDone |-> Tail(done), events |-> DelRuleEvents(m, m.rule[r].uid)]
    BY <1>7, <2>2
  <2>. QED BY <1>1, <1>5, <1>10, <2>3 DEF Removed, done, full, h
<1>. QED BY <1>9, <1>10 DEF d

\* The rule r is no longer installed nor in the events; the others are as before.
Without(m, r, d) ==
    /\ DOMAIN d.rule = DOMAIN m.rule
    /\ \A q \in DOMAIN m.rule : /\ d.rule[q].uid = m.rule[q].uid
                                /\ d.rule[q].desc = m.rule[q].desc
    /\ InstalledIn(d) = InstalledIn(m) \ {r}
    /\ \A q \in InstalledIn(m) \ {r} : d.rule[q] = m.rule[q]
    /\ d.events = DelRuleEvents(m, m.rule[r].uid)

\* delRule takes one rule out of the database, the index and the events, and
\* what is left is consistent.
LEMMA DelRuleKeeps ==
  ASSUME NEW m, Consistent(m), NEW r \in InstalledIn(m)
  PROVE  Consistent(DelRule(m, r)) /\ Without(m, r, DelRule(m, r))
<1> DEFINE d == DelRule(m, r)
           h == m.ruleDone[1]
           full == Len(m.ruleDone) = DoneListSize
           u == m.rule[r].uid
           name == m.rule[r].desc.name
<1>1. /\ m.rule \in Seq(RuleRecord) /\ Len(m.rule) \in Nat /\ Len(m.rule) <= MaxRules
      /\ DOMAIN m.rule = 1 .. Len(m.rule) /\ MaxRules \in Nat
      /\ m.freeIds \in Seq(Ids) /\ m.ruleDone \in Seq(Rules)
      /\ m.ruleDB \in [Ids -> Rules \cup {None}]
      /\ m.index \in [Names -> Ids \cup {NoId}]
      /\ m.events \in SUBSET Scheduled
  BY Types
<1>2. \A q \in DOMAIN m.rule :
         /\ m.rule[q].uid \in Ids /\ m.rule[q].uid \in Int
         /\ m.rule[q].desc \in Descriptions /\ m.rule[q].desc.name \in Names
  BY Types
<1>3. r \in DOMAIN m.rule /\ m.rule[r].state \in {"valid", "active"} /\ r \in Holders(m)
      /\ r \in Rules /\ u \in Ids /\ name \in Names
  BY <1>1, <1>2 DEF InstalledIn, Holders, Rules
<1>0. Removed(m, r, d)
  BY DelRuleFields
<1> HIDE DEF d, h, full
<1>4. /\ d.ruleDB = [m.ruleDB EXCEPT ![u] = None]
      /\ d.index = [m.index EXCEPT ![name] = NoId]
      /\ d.events = DelRuleEvents(m, u)
      /\ d = [rule |-> d.rule, num |-> d.num, freeIds |-> d.freeIds,
              ruleDB |-> d.ruleDB, index |-> d.index,
              ruleDone |-> d.ruleDone, events |-> d.events]
      /\ d.num \in Int
  BY <1>0 DEF Removed
<1>5. ~full => /\ Len(m.ruleDone) < DoneListSize
               /\ d.rule = [m.rule EXCEPT ![r].state = "done"]
               /\ d.freeIds = m.freeIds
               /\ d.num = m.num
               /\ d.ruleDone = Append(m.ruleDone, r)
  BY <1>0 DEF Removed, full, h
<1>6. full => /\ 1 \in DOMAIN m.ruleDone
              /\ d.rule = [m.rule EXCEPT ![r].state = "done", ![h].state = "deleted"]
              /\ d.freeIds = Append(m.freeIds, m.rule[h].uid)
              /\ d.ruleDone = Tail(Append(m.ruleDone, r))
  BY <1>0 DEF Removed, full, h
<1>7. full => /\ h \in DOMAIN m.rule /\ m.rule[h].state = "done" /\ h # r
              /\ m.rule[h].uid \in Ids /\ h \in Holders(m)
  BY <1>2, <1>3, <1>6 DEF Consistent, DoneOnce, Holders, h
<1>8. /\ DOMAIN d.rule = DOMAIN m.rule
      /\ \A q \in DOMAIN m.rule :
            /\ d.rule[q].uid = m.rule[q].uid /\ d.rule[q].desc = m.rule[q].desc
            /\ q # r /\ (full => q # h) => d.rule[q] = m.rule[q]
      /\ d.rule[r].state = "done"
      /\ full => d.rule[h].state = "deleted"
  <2>1. \A q \in DOMAIN m.rule : m.rule[q] \in RuleRecord
    BY <1>1, ElementOfSeq
  <2>2. CASE ~full
    BY <1>3, <1>5, <2>1, <2>2 DEF RuleRecord
  <2>3. CASE full
    BY <1>3, <1>6, <1>7, <2>1, <2>3 DEF RuleRecord
  <2>. QED BY <2>2, <2>3
<1>9. /\ \A q \in DOMAIN m.rule : d.rule[q] \in RuleRecord
      /\ d.rule \in Seq(RuleRecord) /\ Len(d.rule) = Len(m.rule)
  <2>1. \A q \in DOMAIN m.rule : m.rule[q] \in RuleRecord
    BY <1>1, ElementOfSeq
  <2>2. CASE ~full
    <3>1. \A q \in DOMAIN m.rule : d.rule[q] \in RuleRecord
      BY <1>3, <1>5, <2>1, <2>2 DEF RuleRecord
    <3>2. d.rule \in [1 .. Len(m.rule) -> RuleRecord]
      BY <1>1, <1>5, <2>2, <3>1
    <3>3. \A f \in [1 .. Len(m.rule) -> RuleRecord] : f \in Seq(RuleRecord) /\ Len(f) = Len(m.rule)
      BY <1>1
    <3>. QED BY <3>1, <3>2, <3>3
  <2>3. CASE full
    <3>1. \A q \in DOMAIN m.rule : d.rule[q] \in RuleRecord
      BY <1>3, <1>6, <1>7, <2>1, <2>3 DEF RuleRecord
    <3>2. d.rule \in [1 .. Len(m.rule) -> RuleRecord]
      BY <1>1, <1>6, <2>3, <3>1
    <3>3. \A f \in [1 .. Len(m.rule) -> RuleRecord] : f \in Seq(RuleRecord) /\ Len(f) = Len(m.rule)
      BY <1>1
    <3>. QED BY <3>1, <3>2, <3>3
  <2>. QED BY <2>2, <2>3
<1>10. /\ InstalledIn(d) = InstalledIn(m) \ {r}
       /\ Holders(d) = IF full THEN Holders(m) \ {h} ELSE Holders(m)
       /\ \A q \in InstalledIn(d) : d.rule[q] = m.rule[q]
  BY <1>3, <1>7, <1>8 DEF InstalledIn, Holders
<1>11. /\ d.freeIds \in Seq(Ids) /\ Len(m.freeIds) \in Nat
       /\ ~full => d.freeIds = m.freeIds
       /\ full => /\ Len(d.freeIds) = Len(m.freeIds) + 1
                  /\ \A i \in DOMAIN m.freeIds : d.freeIds[i] = m.freeIds[i]
                  /\ d.freeIds[Len(m.freeIds) + 1] = m.rule[h].uid
  <2>1. CASE ~full
    BY <1>1, <1>5, <2>1, LenProperties
  <2>2. CASE full
    <3>1. d.freeIds = Append(m.freeIds, m.rule[h].uid) /\ m.rule[h].uid \in Ids
      BY <1>6, <1>7, <2>2
    <3>. QED BY <1>1, <2>2, <3>1, AppendProperties, LenProperties
  <2>. QED BY <2>1, <2>2
<1>12. NumbersHeldOnce(d)
  <2>1. \A q \in DOMAIN d.rule : d.rule[q].uid < Len(d.rule)
    BY <1>8, <1>9 DEF Consistent, NumbersHeldOnce
  <2>2. \A p, q \in Holders(d) : d.rule[p].uid = d.rule[q].uid => p = q
    BY <1>8, <1>10 DEF Consistent, NumbersHeldOnce, Holders
  <2>3. \A i \in DOMAIN m.freeIds :
           /\ m.freeIds[i] < Len(m.rule)
           /\ \A q \in Holders(m) : m.rule[q].uid # m.freeIds[i]
           /\ \A j \in DOMAIN m.freeIds : m.freeIds[j] = m.freeIds[i] => i = j
    BY DEF Consistent, NumbersHeldOnce
  <2>4. CASE ~full
    BY <1>8, <1>9, <1>10, <1>11, <2>1, <2>2, <2>3, <2>4 DEF NumbersHeldOnce, Holders
  <2>5. CASE full
    <3>1. /\ Len(m.freeIds) \in Nat /\ DOMAIN m.freeIds = 1 .. Len(m.freeIds)
          /\ DOMAIN d.freeIds = 1 .. Len(m.freeIds) + 1
      BY <1>1, <1>11, <2>5, LenProperties
    <3>2. \A q \in Holders(d) : d.rule[q].uid = m.rule[q].uid /\ q \in Holders(m) /\ q # h
      BY <1>8, <1>10, <2>5 DEF Holders
    <3>3. \A i \in DOMAIN d.freeIds : d.freeIds[i] < Len(d.rule)
      <4>1. m.rule[h].uid < Len(m.rule)
        BY <1>7, <2>5 DEF Consistent, NumbersHeldOnce
      <4>. QED BY <1>9, <1>11, <2>3, <2>5, <3>1, <4>1
    <3>4. \A i \in DOMAIN d.freeIds, q \in Holders(d) : d.rule[q].uid # d.freeIds[i]
      <4>1. \A q \in Holders(m) : q # h => m.rule[q].uid # m.rule[h].uid
        BY <1>7, <2>5 DEF Consistent, NumbersHeldOnce
      <4>. QED BY <1>11, <2>3, <2>5, <3>1, <3>2, <4>1
    <3>5. \A i, j \in DOMAIN d.freeIds : d.freeIds[i] = d.freeIds[j] => i = j
      <4>1. \A i \in DOMAIN m.freeIds : m.freeIds[i] # m.rule[h].uid
        BY <1>7, <2>3, <2>5
      <4>2. /\ \A i \in DOMAIN m.freeIds : d.freeIds[i] = m.freeIds[i]
            /\ d.freeIds[Len(m.freeIds) + 1] = m.rule[h].uid
        BY <1>11, <2>5
      <4>3. \A i \in DOMAIN d.freeIds : i \in DOMAIN m.freeIds \/ i = Len(m.freeIds) + 1
        BY <3>1
      <4>. QED BY <2>3, <4>1, <4>2, <4>3
    <3>. QED BY <2>1, <2>2, <3>3, <3>4, <3>5 DEF NumbersHeldOnce
  <2>. QED BY <2>4, <2>5
<1>13. NumCountsRules(d)
  <2>1. CASE full
    BY <1>7, <1>8, <2>1 DEF NumCountsRules
  <2>2. CASE ~full
    <3>1. d.num = m.num /\ d.freeIds = m.freeIds /\ Len(d.rule) = Len(m.rule)
      BY <1>5, <1>9, <2>2
    <3>2. \A q \in DOMAIN m.rule : m.rule[q].state = "deleted" => d.rule[q].state = "deleted"
      BY <1>3, <1>8, <2>2
    <3>. QED BY <1>8, <3>1, <3>2 DEF Consistent, NumCountsRules
  <2>. QED BY <2>1, <2>2
<1>14. DoneOnce(d) /\ d.ruleDone \in Seq(Rules)
  <2> DEFINE done == Append(m.ruleDone, r)
  <2>1. /\ Len(m.ruleDone) \in Nat /\ DOMAIN m.ruleDone = 1 .. Len(m.ruleDone)
        /\ Len(m.ruleDone) <= DoneListSize /\ DoneListSize \in Nat \ {0}
    BY <1>1, LenProperties, LifecycleAssumption DEF Consistent, DoneOnce
  <2>2. \A i \in DOMAIN m.ruleDone :
           /\ m.ruleDone[i] \in DOMAIN m.rule
           /\ m.rule[m.ruleDone[i]].state = "done"
           /\ \A j \in DOMAIN m.ruleDone : m.ruleDone[j] = m.ruleDone[i] => i = j
    BY DEF Consistent, DoneOnce
  <2>3. /\ done \in Seq(Rules) /\ Len(done) = Len(m.ruleDone) + 1 /\ done # <<>>
        /\ DOMAIN done = 1 .. Len(m.ruleDone) + 1
        /\ \A i \in 1 .. Len(m.ruleDone) : done[i] = m.ruleDone[i]
        /\ done[Len(m.ruleDone) + 1] = r
    <3>1. m.ruleDone \in Seq(Rules) /\ r \in Rules
      BY <1>1, <1>3
    <3>2. /\ done \in Seq(Rules) /\ Len(done) = Len(m.ruleDone) + 1 /\ done # <<>>
          /\ \A i \in 1 .. Len(m.ruleDone) : done[i] = m.ruleDone[i]
          /\ done[Len(m.ruleDone) + 1] = r
      BY <3>1, AppendProperties
    <3>3. DOMAIN done = 1 .. Len(done)
      BY <3>2, LenProperties
    <3>. QED BY <3>2, <3>3
  <2> HIDE DEF done
  <2>4. \A i \in DOMAIN done :
           /\ done[i] \in DOMAIN m.rule
           /\ done[i] # r => m.rule[done[i]].state = "done"
           /\ \A j \in DOMAIN done : done[j] = done[i] => i = j
    <3>1. \A i \in 1 .. Len(m.ruleDone) : m.ruleDone[i] # r
      BY <1>3, <2>1, <2>2
    <3>2. \A i \in DOMAIN done :
             \/ i \in 1 .. Len(m.ruleDone) /\ i \in DOMAIN m.ruleDone /\ done[i] = m.ruleDone[i]
             \/ i = Len(m.ruleDone) + 1 /\ done[i] = r
      BY <2>1, <2>3
    <3>3. r \in DOMAIN m.rule
      BY <1>3
    <3>. QED BY <2>2, <3>1, <3>2, <3>3
  <2>5. CASE ~full
    <3>1. d.ruleDone = done /\ Len(done) <= DoneListSize
      BY <1>5, <2>1, <2>3, <2>5 DEF done
    <3>. QED BY <1>8, <2>3, <2>4, <2>5, <3>1 DEF DoneOnce
  <2>6. CASE full
    <3>1. /\ d.ruleDone = Tail(done) /\ Tail(done) \in Seq(Rules)
          /\ Len(Tail(done)) = Len(m.ruleDone)
          /\ DOMAIN Tail(done) = 1 .. Len(m.ruleDone)
          /\ \A i \in 1 .. Len(m.ruleDone) : Tail(done)[i] = done[i + 1]
      <4>1. d.ruleDone = Tail(done)
        BY <1>6, <2>6 DEF done
      <4>2. Tail(done) \in Seq(Rules) /\ Len(Tail(done)) = Len(done) - 1
            /\ \A i \in 1 .. Len(Tail(done)) : Tail(done)[i] = done[i + 1]
        BY <2>3, HeadTailProperties
      <4>3. Len(Tail(done)) = Len(m.ruleDone)
        BY <2>1, <2>3, <4>2
      <4>4. DOMAIN Tail(done) = 1 .. Len(Tail(done))
        BY <4>2, LenProperties
      <4>. QED BY <4>1, <4>2, <4>3, <4>4
    <3>2. \A i \in DOMAIN Tail(done) : i + 1 \in DOMAIN done /\ Tail(done)[i] # h
      BY <1>6, <2>1, <2>3, <2>4, <2>6, <3>1 DEF h
    <3>3. \A i \in DOMAIN Tail(done) :
             /\ d.ruleDone[i] \in DOMAIN d.rule
             /\ d.rule[d.ruleDone[i]].state = "done"
      BY <1>8, <2>4, <2>6, <3>1, <3>2
    <3>4. \A i, j \in DOMAIN Tail(done) : Tail(done)[i] = Tail(done)[j] => i = j
      BY <2>1, <2>4, <3>1, <3>2
    <3>. QED BY <2>1, <3>1, <3>3, <3>4 DEF DoneOnce
  <2>. QED BY <2>5, <2>6
<1>15. Indexed(d)
  <2>1. \A q \in InstalledIn(m) : /\ m.ruleDB[m.rule[q].uid] = q
                                  /\ q # r => m.rule[q].uid # u
    BY <1>3 DEF Consistent, Indexed, NumbersHeldOnce, InstalledIn, Holders
  <2>2. m.index[name] = u
    <3>1. m.ruleDB[u] = r /\ r # None
      BY <1>1, <1>3, <2>1 DEF None
    <3>. QED BY <1>3, <3>1 DEF Consistent, Indexed
  <2>3. ASSUME NEW i \in Ids, d.ruleDB[i] # None
        PROVE  /\ d.ruleDB[i] \in InstalledIn(d)
               /\ d.rule[d.ruleDB[i]].uid = i
               /\ d.index[d.rule[d.ruleDB[i]].desc.name] = i
    <3>1. i # u /\ d.ruleDB[i] = m.ruleDB[i]
      BY <1>1, <1>3, <1>4, <2>3
    <3>2. /\ m.ruleDB[i] \in InstalledIn(m) /\ m.rule[m.ruleDB[i]].uid = i
          /\ m.index[m.rule[m.ruleDB[i]].desc.name] = i
      BY <2>3, <3>1 DEF Consistent, Indexed
    <3>3. m.ruleDB[i] # r /\ m.ruleDB[i] \in InstalledIn(d)
      BY <1>10, <3>1, <3>2
    <3>4. m.rule[m.ruleDB[i]].desc.name # name /\ m.rule[m.ruleDB[i]].desc.name \in Names
      BY <1>2, <2>2, <3>1, <3>2 DEF InstalledIn
    <3>. QED BY <1>1, <1>3, <1>4, <1>10, <3>1, <3>2, <3>3, <3>4
  <2>4. ASSUME NEW q \in InstalledIn(d)
        PROVE  d.ruleDB[d.rule[q].uid] = q
    <3>1. q \in InstalledIn(m) /\ q # r /\ q \in DOMAIN m.rule /\ d.rule[q] = m.rule[q]
      BY <1>10 DEF InstalledIn
    <3>. QED BY <1>1, <1>2, <1>3, <1>4, <2>1, <3>1
  <2>5. ASSUME NEW x \in Names, d.index[x] # NoId
        PROVE  /\ d.ruleDB[d.index[x]] # None
               /\ d.rule[d.ruleDB[d.index[x]]].desc.name = x
    <3>1. x # name /\ d.index[x] = m.index[x] /\ m.index[x] \in Ids
      BY <1>1, <1>3, <1>4, <2>5
    <3>2. m.ruleDB[m.index[x]] # None /\ m.rule[m.ruleDB[m.index[x]]].desc.name = x
      BY <2>5, <3>1 DEF Consistent, Indexed
    <3>3. m.index[x] # u
      BY <1>1, <1>3, <2>1, <3>1, <3>2
    <3>4. d.ruleDB[m.index[x]] = m.ruleDB[m.index[x]]
      BY <1>1, <1>3, <1>4, <3>1, <3>3
    <3>5. m.ruleDB[m.index[x]] \in DOMAIN m.rule
      BY <3>1, <3>2 DEF Consistent, Indexed, InstalledIn
    <3>. QED BY <1>8, <3>1, <3>2, <3>4, <3>5
  <2>. QED BY <2>3, <2>4, <2>5 DEF Indexed
<1>16. d.events \in SUBSET Scheduled /\ EventsOfInstalled(d)
  <2>1. ASSUME NEW e \in d.events
        PROVE  e \in Scheduled /\ e.rules \subseteq InstalledIn(d)
    <3>1. PICK f \in m.events : e = [f EXCEPT !.rules = {q \in @ : m.rule[q].uid # u}]
      BY <1>4 DEF DelRuleEvents
    <3>2. f \in Scheduled /\ f.rules \subseteq InstalledIn(m)
      BY <1>1 DEF Consistent, EventsOfInstalled
    <3>3. e = [type |-> f.type, rules |-> {q \in f.rules : m.rule[q].uid # u}]
      BY <3>1, <3>2 DEF Scheduled
    <3>. QED BY <1>10, <3>2, <3>3 DEF Scheduled
  <2>. QED BY <2>1 DEF EventsOfInstalled
<1>17. d \in Managers /\ Len(d.rule) <= MaxRules
  <2>1. d.ruleDB \in [Ids -> Rules \cup {None}] /\ d.index \in [Names -> Ids \cup {NoId}]
    BY <1>1, <1>3, <1>4
  <2>. QED BY <1>1, <1>4, <1>9, <1>11, <1>14, <1>16, <2>1 DEF Managers
<1>18. Consistent(d)
  BY <1>12, <1>13, <1>14, <1>15, <1>16, <1>17 DEF Consistent
<1>. QED BY <1>4, <1>8, <1>10, <1>18 DEF d, Without

-----------------------------------------------------------------------------
(* The state.  What the lemmas above say of a record holds for the          *)
(* RuleManager's variables.                                                *)

LEMMA ManagerIs ==
  ASSUME NEW m, Consistent(m), ManagerBecomes(m)
  PROVE  Manager' = m
<1>1. m \in Managers
  BY DEF Consistent
<1>2. m = [rule |-> m.rule, num |-> m.num, freeIds |-> m.freeIds, ruleDB |-> m.ruleDB,
           index |-> m.index, ruleDone |-> m.ruleDone, events |-> m.events]
  BY <1>1 DEF Managers
<1>. QED BY <1>2 DEF Manager, ManagerBecomes

\* The types and sets the properties are stated with.
StateKnown ==
    /\ Len(rule) \in Nat /\ DOMAIN rule = 1 .. Len(rule) /\ Len(rule) <= MaxRules
    /\ MaxRules \in Nat /\ DOMAIN rule \subseteq Rules
    /\ events \subseteq Scheduled
    /\ \A e \in events : e.rules \subseteq Installed
    /\ Installed = InstalledIn(Manager) /\ Installed \subseteq DOMAIN rule
    /\ \A r \in DOMAIN rule : rule[r].uid \in Ids /\ rule[r].desc \in Descriptions
    /\ \A q, r \in Installed : rule[q].uid = rule[r].uid => q = r

LEMMA StateFacts == Consistent(Manager) => StateKnown
<1> SUFFICES ASSUME Consistent(Manager) PROVE StateKnown
  OBVIOUS
<1>1. Manager.rule = rule /\ Manager.events = events
  BY DEF Manager
<1>2. /\ Len(rule) \in Nat /\ DOMAIN rule = 1 .. Len(rule) /\ Len(rule) <= MaxRules
      /\ MaxRules \in Nat /\ events \subseteq Scheduled
      /\ \A r \in DOMAIN rule : rule[r].uid \in Ids /\ rule[r].desc \in Descriptions
  BY <1>1, Types
<1>3. Installed = InstalledIn(Manager) /\ Installed \subseteq Holders(Manager)
  BY <1>1 DEF Installed, InstalledIn, In, Holders
<1>4. \A q, r \in Holders(Manager) : rule[q].uid = rule[r].uid => q = r
  BY <1>1 DEF Consistent, NumbersHeldOnce
<1>5. \A e \in events : e.rules \subseteq Installed
  BY <1>1, <1>3 DEF Consistent, EventsOfInstalled
<1>. QED BY <1>2, <1>3, <1>4, <1>5 DEF StateKnown, Rules, Installed, In

LEMMA StateFactsNext == Consistent(Manager)' => StateKnown'
  BY StateFacts, PTL

\* Other events, of installed rules.
LEMMA OtherEvents ==
  ASSUME NEW m, Consistent(m), NEW E \in SUBSET Scheduled,
         \A e \in E : e.rules \subseteq InstalledIn(m)
  PROVE  Consistent([m EXCEPT !.events = E])
<1> DEFINE n == [m EXCEPT !.events = E]
<1>1. m \in Managers
  BY DEF Consistent
<1>2. /\ n.rule = m.rule /\ n.num = m.num /\ n.freeIds = m.freeIds
      /\ n.ruleDB = m.ruleDB /\ n.index = m.index /\ n.ruleDone = m.ruleDone
      /\ n.events = E /\ n \in Managers
  BY <1>1 DEF Managers
<1> HIDE DEF n
<1>3. InstalledIn(n) = InstalledIn(m) /\ Holders(n) = Holders(m)
  BY <1>2 DEF InstalledIn, Holders
<1>4. NumbersHeldOnce(n) /\ NumCountsRules(n)
  BY <1>2, <1>3 DEF Consistent, NumbersHeldOnce, NumCountsRules
<1>5. DoneOnce(n) /\ EventsOfInstalled(n)
  BY <1>2, <1>3 DEF Consistent, DoneOnce, EventsOfInstalled
<1>6. Indexed(n)
  <2>1. Indexed(m)
    BY DEF Consistent
  <2>. QED BY <1>2, <1>3, <2>1 DEF Indexed
<1>7. Consistent(n)
  BY <1>2, <1>4, <1>5, <1>6 DEF Consistent
<1>. QED BY <1>7 DEF n

LEMMA InitInvariant == Init => IInv
<1> SUFFICES ASSUME Init PROVE IInv
  OBVIOUS
<1> USE DEF Init
<1>1. rule = <<>> /\ DOMAIN rule = {} /\ Len(rule) = 0
  OBVIOUS
<1>2. Manager = [rule |-> <<>>, num |-> 0, freeIds |-> <<>>, ruleDB |-> [i \in Ids |-> None],
                 index |-> [n \in Names |-> NoId], ruleDone |-> <<>>, events |-> {}]
  BY DEF Manager
<1>3. Consistent(Manager)
  <2>0. /\ Manager.rule = <<>> /\ Manager.freeIds = <<>> /\ Manager.ruleDone = <<>>
        /\ Manager.num = 0 /\ Manager.events = {}
        /\ DOMAIN Manager.rule = {} /\ DOMAIN Manager.freeIds = {}
        /\ DOMAIN Manager.ruleDone = {}
        /\ Len(Manager.rule) = 0 /\ Len(Manager.ruleDone) = 0
        /\ MaxRules \in Nat /\ DoneListSize \in Nat
    <3>1. /\ Manager.rule = <<>> /\ Manager.freeIds = <<>> /\ Manager.ruleDone = <<>>
          /\ Manager.num = 0 /\ Manager.events = {}
      BY DEF Manager
    <3>2. <<>> = <<>> /\ DOMAIN <<>> = {} /\ Len(<<>>) = 0
      OBVIOUS
    <3>. QED BY <3>1, <3>2, LifecycleAssumption
  <2>1. Manager \in Managers /\ Len(Manager.rule) <= MaxRules
    <3>1. <<>> \in Seq(RuleRecord) /\ <<>> \in Seq(Ids) /\ <<>> \in Seq(Rules)
      OBVIOUS
    <3>2. /\ [i \in Ids |-> None] \in [Ids -> Rules \cup {None}]
          /\ [n \in Names |-> NoId] \in [Names -> Ids \cup {NoId}]
      OBVIOUS
    <3>. QED BY <1>2, <2>0, <3>1, <3>2 DEF Managers
  <2>2. InstalledIn(Manager) = {} /\ Holders(Manager) = {}
    BY <1>2 DEF InstalledIn, Holders
  <2>3. NumbersHeldOnce(Manager) /\ NumCountsRules(Manager)
    BY <2>0, <2>2 DEF NumbersHeldOnce, NumCountsRules
  <2>4. DoneOnce(Manager) /\ EventsOfInstalled(Manager)
    BY <2>0 DEF DoneOnce, EventsOfInstalled
  <2>5. Indexed(Manager)
    BY <1>2, <2>2 DEF Indexed
  <2>. QED BY <2>1, <2>3, <2>4, <2>5 DEF Consistent
<1>4. In("valid") = {} /\ In("active") = {} /\ Installed = {}
  BY <1>1 DEF In, Installed
<1>5. Handling
  BY <1>4 DEF Handling, NoEvent
<1>6. EveryRuleHasItsEvents
  BY <1>4 DEF EveryRuleHasItsEvents
<1>7. TablesInStep
  <2>1. \A a, b \in Nat : Shown(a, b) = {}
    BY <1>4 DEF Shown, NoEvent
  <2>2. UIds({}) = {} /\ FiltersOf({}) = {}
    BY DEF UIds, FiltersOf, Filters
  <2>. QED BY <2>1, <2>2 DEF TablesInStep
<1>. QED BY <1>3, <1>5, <1>6, <1>7 DEF IInv

-----------------------------------------------------------------------------
(* One lemma per action. *)

\* An event for the rules of a group, or one for each.
LEMMA GroupFacts ==
  ASSUME NEW type \in {"activate", "remove", "push", "timeout"},
         NEW R \in SUBSET Rules, NEW together \in BOOLEAN
  PROVE  /\ Grouped(type, R, together) \subseteq Scheduled
         /\ \A e \in Grouped(type, R, together) : e.type = type /\ e.rules \subseteq R
         /\ \A r \in R : \E e \in Grouped(type, R, together) : r \in e.rules
<1>1. CASE together
  <2>1. Grouped(type, R, together) = {[type |-> type, rules |-> g] : g \in {R} \ {{}}}
    BY <1>1 DEF Grouped
  <2>2. ASSUME NEW r \in R
        PROVE  [type |-> type, rules |-> R] \in Grouped(type, R, together)
    BY <2>1
  <2>3. ASSUME NEW e \in Grouped(type, R, together)
        PROVE  e \in Scheduled /\ e.type = type /\ e.rules \subseteq R
    <3>1. e = [type |-> type, rules |-> R]
      BY <2>1
    <3>. QED BY <3>1 DEF Scheduled
  <2>4. \A r \in R : r \in [type |-> type, rules |-> R].rules
    OBVIOUS
  <2>. QED BY <2>2, <2>3, <2>4
<1>2. CASE ~together
  <2>1. Grouped(type, R, together) =
          {[type |-> type, rules |-> g] : g \in {{r} : r \in R} \ {{}}}
    BY <1>2 DEF Grouped
  <2>2. ASSUME NEW r \in R
        PROVE  [type |-> type, rules |-> {r}] \in Grouped(type, R, together)
    BY <2>1
  <2>3. ASSUME NEW e \in Grouped(type, R, together)
        PROVE  e \in Scheduled /\ e.type = type /\ e.rules \subseteq R
    <3>1. PICK r \in R : e = [type |-> type, rules |-> {r}]
      BY <2>1
    <3>. QED BY <3>1 DEF Scheduled
  <2>4. \A r \in R : r \in [type |-> type, rules |-> {r}].rules
    OBVIOUS
  <2>. QED BY <2>2, <2>3, <2>4
<1>. QED BY <1>1, <1>2

LEMMA AddRulesKeeps ==
  ASSUME IInv, Exposed = {}, NEW ds \in Requests,
         NEW sameStart \in BOOLEAN, NEW sameStop \in BOOLEAN,
         AddRules(ds, sameStart, sameStop)
  PROVE  IInv'
<1> DEFINE first == AddRule(Manager, ds[1])
           m == IF Len(ds) = 1 THEN first ELSE AddRule(first, ds[2])
           new == Len(rule) + 1 .. Len(m.rule)
           stopping == {r \in new : m.rule[r].desc.stops}
           E == events \cup Grouped("activate", new, sameStart)
                       \cup Grouped("remove", stopping, sameStop)
           n == [m EXCEPT !.events = E]
<1>1. Consistent(Manager) /\ StateKnown /\ Manager.rule = rule /\ Manager.events = events
  BY StateFacts DEF IInv, Manager
<1>2. ev = NoEvent /\ todo = <<>>
  BY DEF IInv, Handling, AddRules, Idle
<1>3. /\ Len(ds) \in {1, 2} /\ ds[1] \in Descriptions
      /\ Len(ds) = 2 => ds[2] \in Descriptions
  BY DEF Requests
<1>4. /\ Len(rule) + Len(ds) <= MaxRules
      /\ Numbered(Manager, ds[1])
      /\ Len(ds) = 2 => Numbered(first, ds[2])
  BY DEF AddRules
<1>5. Consistent(first) /\ Extended(Manager, first)
  <2>1. Len(Manager.rule) < MaxRules
    BY <1>1, <1>3, <1>4 DEF StateKnown
  <2>. QED BY <1>1, <1>3, <1>4, <2>1, AddRuleKeeps
<1> HIDE DEF first
<1>6. Consistent(m) /\ (m = first \/ Extended(first, m))
  <2>1. CASE Len(ds) = 1
    BY <1>5, <2>1
  <2>2. CASE Len(ds) = 2
    <3>1. Len(first.rule) < MaxRules
      BY <1>1, <1>4, <1>5, <2>2 DEF StateKnown, Extended
    <3>2. Consistent(AddRule(first, ds[2])) /\ Extended(first, AddRule(first, ds[2]))
      BY <1>3, <1>4, <1>5, <2>2, <3>1, AddRuleKeeps
    <3>. QED BY <2>2, <3>2
  <2>. QED BY <1>3, <2>1, <2>2
<1> HIDE DEF m
<1>7. /\ DOMAIN m.rule = 1 .. Len(m.rule) /\ Len(m.rule) \in Nat /\ Len(m.rule) <= MaxRules
      /\ m.events = events
      /\ DOMAIN rule \subseteq DOMAIN m.rule /\ new = DOMAIN m.rule \ DOMAIN rule
      /\ \A r \in DOMAIN rule : m.rule[r] = rule[r]
      /\ \A r \in new : m.rule[r].state = "valid"
  <2>1. /\ DOMAIN first.rule = 1 .. Len(first.rule) /\ Len(first.rule) \in Nat
        /\ DOMAIN m.rule = 1 .. Len(m.rule) /\ Len(m.rule) \in Nat /\ Len(m.rule) <= MaxRules
    BY <1>5, <1>6, Types
  <2>2. /\ Len(first.rule) \in {Len(rule), Len(rule) + 1}
        /\ \A r \in DOMAIN rule : first.rule[r] = rule[r]
        /\ \A r \in DOMAIN first.rule \ DOMAIN rule : first.rule[r].state = "valid"
        /\ first.events = events
    BY <1>1, <1>5 DEF Extended
  <2>3. /\ Len(m.rule) \in {Len(first.rule), Len(first.rule) + 1}
        /\ \A r \in DOMAIN first.rule : m.rule[r] = first.rule[r]
        /\ \A r \in DOMAIN m.rule \ DOMAIN first.rule : m.rule[r].state = "valid"
        /\ m.events = first.events
    BY <1>6, <2>1 DEF Extended
  <2>4. DOMAIN rule \subseteq DOMAIN first.rule /\ DOMAIN first.rule \subseteq DOMAIN m.rule
    BY <1>1, <2>1, <2>2, <2>3 DEF StateKnown
  <2>5. new = DOMAIN m.rule \ DOMAIN rule
    BY <1>1, <2>1 DEF StateKnown
  <2>. QED BY <2>1, <2>2, <2>3, <2>4, <2>5
<1> HIDE DEF new
<1>8. /\ new \subseteq Rules /\ new \subseteq InstalledIn(m) /\ stopping \subseteq new
      /\ Installed \subseteq InstalledIn(m) /\ InstalledIn(m) \subseteq Installed \cup new
  BY <1>1, <1>7 DEF StateKnown, InstalledIn, Rules
<1> HIDE DEF stopping
<1>9. E \subseteq Scheduled /\ \A e \in E : e.rules \subseteq InstalledIn(m)
  <2>1. events \subseteq Scheduled /\ \A e \in events : e.rules \subseteq InstalledIn(m)
    BY <1>1, <1>8 DEF StateKnown
  <2>2. /\ Grouped("activate", new, sameStart) \subseteq Scheduled
        /\ \A e \in Grouped("activate", new, sameStart) : e.rules \subseteq new
    BY <1>8, GroupFacts
  <2>3. /\ Grouped("remove", stopping, sameStop) \subseteq Scheduled
        /\ \A e \in Grouped("remove", stopping, sameStop) : e.rules \subseteq stopping
    BY <1>8, GroupFacts
  <2>. QED BY <1>8, <2>1, <2>2, <2>3
<1> HIDE DEF E
<1>10. Consistent(n)
  BY <1>6, <1>9, OtherEvents
<1>11. Manager' = n
  <2>1. ManagerBecomes(n)
    BY <1>7 DEF AddRules, m, first, new, stopping, E
  <2>. QED BY <1>10, <2>1, ManagerIs
<1>12. rule' = m.rule /\ events' = E
  <2>1. Manager'.rule = rule' /\ Manager'.events = events'
    BY DEF Manager
  <2>2. n.rule = m.rule /\ n.events = E
    BY <1>6 DEF Consistent, Managers
  <2>. QED BY <1>11, <2>1, <2>2
<1>13. UNCHANGED <<ev, todo, exports, actions, filters>>
  BY DEF AddRules, tables
<1>14. Installed' = InstalledIn(m) /\ In("active")' = In("active")
  BY <1>1, <1>7, <1>12 DEF StateKnown, Installed, In, InstalledIn
<1>15. Handling'
  BY <1>2, <1>13 DEF IInv, Handling, NoEvent
<1>16. EveryRuleHasItsEvents'
  <2> SUFFICES ASSUME NEW r \in Installed'
               PROVE  /\ rule'[r].state = "valid" => EventsOf(r, "activate")' # {}
                      /\ rule'[r].state = "active" => EventsOf(r, rule[r].desc.recurs)' # {}
                      /\ rule'[r].desc.stops => EventsOf(r, "remove")' # {}
    BY DEF EveryRuleHasItsEvents
  <2>1. CASE r \in Installed
    <3>1. rule'[r] = rule[r]
      BY <1>1, <1>7, <1>12, <2>1 DEF StateKnown
    <3>2. \A type : EventsOf(r, type) \subseteq EventsOf(r, type)'
      BY <1>12, <1>13 DEF EventsOf, E
    <3>. QED BY <2>1, <3>1, <3>2 DEF IInv, EveryRuleHasItsEvents
  <2>2. CASE r \in new
    <3>1. rule'[r].state = "valid" /\ rule'[r] = m.rule[r]
      BY <1>7, <1>12, <2>2
    <3>2. EventsOf(r, "activate")' # {}
      <4>1. PICK e \in Grouped("activate", new, sameStart) : e.type = "activate" /\ r \in e.rules
        BY <1>8, <2>2, GroupFacts
      <4>. QED BY <1>12, <4>1 DEF EventsOf, E
    <3>3. ASSUME rule'[r].desc.stops PROVE EventsOf(r, "remove")' # {}
      <4>1. r \in stopping
        BY <2>2, <3>1, <3>3 DEF stopping
      <4>2. PICK e \in Grouped("remove", stopping, sameStop) : e.type = "remove" /\ r \in e.rules
        BY <1>8, <4>1, GroupFacts
      <4>. QED BY <1>12, <4>2 DEF EventsOf, E
    <3>. QED BY <3>1, <3>2, <3>3
  <2>. QED BY <1>8, <1>14, <2>1, <2>2
<1>17. TablesInStep'
  <2>1. \A a, b \in Nat : Shown(a, b) = In("active") /\ Shown(a, b)' = In("active")
    BY <1>2, <1>13, <1>14 DEF Shown, NoEvent
  <2>2. \A r \in In("active") : rule'[r] = rule[r]
    BY <1>7, <1>12 DEF In
  <2>3. UIds(In("active"))' = UIds(In("active"))
    BY <1>14, <2>2 DEF UIds
  <2>4. FiltersOf(In("active"))' = FiltersOf(In("active"))
    BY <1>14, <2>2 DEF FiltersOf, Filters, Directions
  <2>. QED BY <1>13, <1>14, <2>1, <2>3, <2>4 DEF IInv, TablesInStep
<1>. QED BY <1>10, <1>11, <1>15, <1>16, <1>17 DEF IInv

\* Only the events change.
LEMMA EventsChange ==
  ASSUME Consistent(Manager), NEW E \in SUBSET Scheduled,
         \A e \in E : e.rules \subseteq Installed, events' = E,
         UNCHANGED <<rule, num, freeIds, ruleDB, index, ruleDone>>
  PROVE  Consistent(Manager)'
<1>1. Installed = InstalledIn(Manager)
  BY StateFacts DEF StateKnown
<1>2. Consistent([Manager EXCEPT !.events = E])
  BY <1>1, OtherEvents
<1>3. Manager' = [Manager EXCEPT !.events = E]
  BY DEF Manager
<1>. QED BY <1>2, <1>3

LEMMA RemoveRuleKeeps ==
  ASSUME IInv, NEW n \in Names, RemoveRule(n)
  PROVE  IInv'
<1> DEFINE r == GetRule(Manager, n)
<1>1. Consistent(Manager) /\ StateKnown
  BY StateFacts DEF IInv
<1>2. ev = NoEvent /\ todo = <<>>
  BY DEF IInv, Handling, RemoveRule, Idle
<1>3. /\ r \in Installed /\ r \in Rules
      /\ Requestable = "oneway" => ~IsBidir(rule[r].desc)
  <2>1. r # None /\ (Requestable = "oneway" => ~IsBidir(rule[r].desc))
    BY DEF RemoveRule
  <2>2. r = Manager.ruleDB[Manager.index[n]] /\ Manager.index[n] \in Ids
    BY <1>1, <2>1, Types DEF GetRule
  <2>3. r \in InstalledIn(Manager)
    BY <1>1, <2>1, <2>2 DEF Consistent, Indexed
  <2>. QED BY <1>1, <2>1, <2>3 DEF StateKnown
<1> HIDE DEF r
<1>4. /\ UNCHANGED <<rule, num, freeIds, ruleDB, index, ruleDone, events>>
      /\ UNCHANGED <<exports, actions, filters>>
      /\ ev' = [type |-> "request", rules |-> {r}]
      /\ todo' = <<"classifier", "processor", "exporter", "manager">>
  BY DEF RemoveRule, manager, tables, RemoveOrder, r
<1>5. Consistent(Manager)'
  BY <1>1, <1>4 DEF Manager
<1>6. Installed' = Installed /\ In("active")' = In("active")
  BY <1>4 DEF Installed, In
<1>7. ev'.type = "request" /\ ev'.rules = {r} /\ Len(todo') = 4
  BY <1>4
<1>8. Handling'
  <2>1. ev' \in [type : {"none", "activate", "remove", "request", "push", "timeout"},
                 rules : SUBSET Rules]
    BY <1>3, <1>4
  <2>. QED BY <1>3, <1>4, <1>6, <1>7, <2>1 DEF Handling
<1>9. EveryRuleHasItsEvents'
  <2>1. \A q, type : EventsOf(q, type) \subseteq EventsOf(q, type)'
    BY <1>2, <1>4 DEF EventsOf, NoEvent
  <2>. QED BY <1>4, <1>6, <2>1 DEF IInv, EveryRuleHasItsEvents
<1>10. TablesInStep'
  <2>1. \A a, b \in 0 .. 4 : Shown(a, b) = In("active") /\ Shown(a, b)' = In("active")
    BY <1>2, <1>6, <1>7 DEF Shown, NoEvent
  <2>2. UIds(In("active"))' = UIds(In("active")) /\ FiltersOf(In("active"))' = FiltersOf(In("active"))
    BY <1>4, <1>6 DEF UIds, FiltersOf, Filters, Directions
  <2>. QED BY <1>4, <1>6, <2>1, <2>2 DEF IInv, TablesInStep
<1>. QED BY <1>5, <1>8, <1>9, <1>10 DEF IInv

LEMMA GetNextEventKeeps ==
  ASSUME IInv, NEW e \in events, GetNextEvent(e)
  PROVE  IInv'
<1>1. Consistent(Manager) /\ StateKnown
  BY StateFacts DEF IInv
<1>2. ev = NoEvent /\ todo = <<>>
  BY DEF IInv, Handling, GetNextEvent, Idle
<1>3. e \in Scheduled /\ e.rules \subseteq Installed
  BY <1>1 DEF StateKnown
<1>4. /\ UNCHANGED <<rule, num, freeIds, ruleDB, index, ruleDone>>
      /\ UNCHANGED <<exports, actions, filters>>
      /\ events' = events \ {e} /\ ev' = e
  BY DEF GetNextEvent, tables
<1>5. Consistent(Manager)'
  <2>1. /\ events \ {e} \in SUBSET Scheduled
        /\ \A f \in events \ {e} : f.rules \subseteq Installed
    BY <1>1 DEF StateKnown
  <2>. QED BY <1>1, <1>4, <2>1, EventsChange
<1>6. Installed' = Installed /\ In("active")' = In("active")
  BY <1>4 DEF Installed, In
<1>7. \/ e.type = "activate" /\ todo' = <<"exporter", "processor", "classifier", "manager">>
      \/ e.type = "remove" /\ todo' = <<"classifier", "processor", "exporter", "manager">>
      \/ e.type \in {"push", "timeout"} /\ todo' = <<"export">>
  BY <1>3 DEF GetNextEvent, ActivateOrder, RemoveOrder, Scheduled
<1>8. Handling'
  <2>1. e \in [type : {"none", "activate", "remove", "request", "push", "timeout"},
               rules : SUBSET Rules]
    BY <1>3 DEF Scheduled
  <2>. QED BY <1>3, <1>4, <1>6, <1>7, <2>1 DEF Handling
<1>9. EveryRuleHasItsEvents'
  <2>1. \A q, type : EventsOf(q, type) \subseteq EventsOf(q, type)'
    BY <1>2, <1>4 DEF EventsOf, NoEvent
  <2>. QED BY <1>4, <1>6, <2>1 DEF IInv, EveryRuleHasItsEvents
<1>10. TablesInStep'
  <2>1. Len(todo') = 4 \/ e.type \in {"push", "timeout"}
    BY <1>7
  <2>2. ASSUME NEW a \in 0 .. 4, NEW b \in 0 .. 4
        PROVE  Shown(a, b) = In("active") /\ Shown(a, b)' = In("active")
    <3>1. ev.type = "none" /\ ev'.type = e.type
      BY <1>2, <1>4 DEF NoEvent
    <3>2. CASE Len(todo') = 4
      BY <1>6, <3>1, <3>2 DEF Shown
    <3>3. CASE e.type \in {"push", "timeout"}
      BY <1>6, <3>1, <3>3 DEF Shown
    <3>. QED BY <2>1, <3>2, <3>3
  <2>3. UIds(In("active"))' = UIds(In("active")) /\ FiltersOf(In("active"))' = FiltersOf(In("active"))
    BY <1>4, <1>6 DEF UIds, FiltersOf, Filters, Directions
  <2>. QED BY <1>4, <1>6, <2>2, <2>3 DEF IInv, TablesInStep
<1>. QED BY <1>5, <1>8, <1>9, <1>10 DEF IInv

\* What the three components have in common when they handle an event.
LEMMA ComponentStep ==
  ASSUME IInv, UNCHANGED <<manager, ev>>, ~Idle, todo' = Tail(todo),
         Head(todo) \in {"exporter", "processor", "classifier"}
  PROVE  /\ Consistent(Manager)' /\ Handling' /\ EveryRuleHasItsEvents'
         /\ In("active")' = In("active")
         /\ \A R : UIds(R)' = UIds(R) /\ FiltersOf(R)' = FiltersOf(R)
<1>1. UNCHANGED <<rule, num, freeIds, ruleDB, index, ruleDone, events, ev>>
  BY DEF manager
<1>2. Installed' = Installed /\ In("active")' = In("active")
  BY <1>1 DEF Installed, In
<1>3. Consistent(Manager)'
  BY <1>1 DEF IInv, Manager
<1>4. EveryRuleHasItsEvents'
  BY <1>1, <1>2 DEF IInv, EveryRuleHasItsEvents, EventsOf
<1>5. Handling'
  <2>1. /\ Tail(<<"exporter", "processor", "classifier", "manager">>)
             = <<"processor", "classifier", "manager">>
        /\ Tail(<<"processor", "classifier", "manager">>) = <<"classifier", "manager">>
        /\ Tail(<<"classifier", "manager">>) = <<"manager">>
        /\ Tail(<<"classifier", "processor", "exporter", "manager">>)
             = <<"processor", "exporter", "manager">>
        /\ Tail(<<"processor", "exporter", "manager">>) = <<"exporter", "manager">>
        /\ Tail(<<"exporter", "manager">>) = <<"manager">>
    OBVIOUS
  <2>2. Head(<<"manager">>) = "manager" /\ Head(<<"export">>) = "export"
    OBVIOUS
  <2>3. /\ ev' \in [type : {"none", "activate", "remove", "request", "push", "timeout"},
                    rules : SUBSET Rules]
        /\ ev'.rules \subseteq Installed'
        /\ Requestable = "oneway" /\ ev'.type = "request" =>
              \A r \in ev'.rules : ~IsBidir(rule'[r].desc)
    BY <1>1, <1>2 DEF IInv, Handling
  <2>4. CASE ev.type = "activate"
    <3>1. \/ todo = <<"exporter", "processor", "classifier", "manager">>
          \/ todo = <<"processor", "classifier", "manager">>
          \/ todo = <<"classifier", "manager">>
      BY <2>2, <2>4 DEF IInv, Handling, Idle
    <3>2. \/ todo' = <<"processor", "classifier", "manager">>
          \/ todo' = <<"classifier", "manager">>
          \/ todo' = <<"manager">>
      BY <2>1, <3>1
    <3>. QED BY <1>1, <2>3, <2>4, <3>2 DEF Handling
  <2>5. CASE ev.type \in {"remove", "request"}
    <3>1. \/ todo = <<"classifier", "processor", "exporter", "manager">>
          \/ todo = <<"processor", "exporter", "manager">>
          \/ todo = <<"exporter", "manager">>
      BY <2>2, <2>5 DEF IInv, Handling, Idle
    <3>2. \/ todo' = <<"processor", "exporter", "manager">>
          \/ todo' = <<"exporter", "manager">>
          \/ todo' = <<"manager">>
      BY <2>1, <3>1
    <3>. QED BY <1>1, <2>3, <2>5, <3>2 DEF Handling
  <2>6. ev.type = "activate" \/ ev.type \in {"remove", "request"}
    BY <2>2 DEF IInv, Handling, Idle, NoEvent
  <2>. QED BY <2>4, <2>5, <2>6
<1>. QED BY <1>1, <1>2, <1>3, <1>4, <1>5 DEF UIds, FiltersOf, Filters, Directions

\* The numbers of installed rules are as different as the rules.
LEMMA UIdsOf ==
  ASSUME StateKnown, NEW R \in SUBSET Installed, NEW S \in SUBSET Installed
  PROVE  /\ UIds(R \cup S) = UIds(R) \cup UIds(S)
         /\ UIds(R \ S) = UIds(R) \ UIds(S)
BY DEF StateKnown, UIds

\* What Shown is while the rules of an event start, and while they leave.
LEMMA ShownStarting ==
  ASSUME ev.type = "activate", NEW a \in Nat, NEW b \in Nat
  PROVE  Shown(a, b) = IF Len(todo) < a THEN In("active") \cup ev.rules ELSE In("active")
BY DEF Shown

LEMMA ShownLeaving ==
  ASSUME ev.type \in {"remove", "request"}, NEW a \in Nat, NEW b \in Nat
  PROVE  Shown(a, b) = IF Len(todo) < b THEN In("active") \ ev.rules ELSE In("active")
BY DEF Shown

LEMMA ShownStartingNext ==
  ASSUME ev'.type = "activate", NEW a \in Nat, NEW b \in Nat
  PROVE  Shown(a, b)' = IF Len(todo') < a THEN In("active")' \cup ev'.rules ELSE In("active")'
BY DEF Shown

LEMMA ShownLeavingNext ==
  ASSUME ev'.type \in {"remove", "request"}, NEW a \in Nat, NEW b \in Nat
  PROVE  Shown(a, b)' = IF Len(todo') < b THEN In("active")' \ ev'.rules ELSE In("active")'
BY DEF Shown

LEMMA ExporterStepKeeps ==
  ASSUME IInv, ExporterStep
  PROVE  IInv'
<1>1. /\ UNCHANGED <<manager, ev>> /\ ev' = ev /\ UNCHANGED <<actions, filters>>
      /\ ~Idle /\ todo' = Tail(todo) /\ Head(todo) = "exporter"
      /\ exports' = Handled(exports)
  BY DEF ExporterStep, Done
<1>2. /\ Consistent(Manager)' /\ Handling' /\ EveryRuleHasItsEvents'
      /\ In("active")' = In("active")
      /\ \A R : UIds(R)' = UIds(R) /\ FiltersOf(R)' = FiltersOf(R)
  BY <1>1, ComponentStep
<1>0. ev' = ev /\ In("active")' = In("active")
  BY <1>1, <1>2
<1>3. StateKnown /\ ev.rules \subseteq Installed /\ In("active") \subseteq Installed
  BY StateFacts DEF IInv, Handling, Installed
<1>4. EvIds = UIds(ev.rules)
  BY DEF EvIds, UIds
<1>5. \/ ev.type = "activate" /\ Len(todo) = 4 /\ Len(todo') = 3
      \/ ev.type \in {"remove", "request"} /\ Len(todo) = 2 /\ Len(todo') = 1
  BY <1>1 DEF IInv, Handling, Idle
<1>6. CASE ev.type = "activate" /\ Len(todo) = 4 /\ Len(todo') = 3
  <2>1. /\ Shown(4, 2) = In("active") /\ Shown(4, 2)' = In("active") \cup ev.rules
        /\ Shown(3, 3)' = Shown(3, 3) /\ Shown(2, 4)' = Shown(2, 4)
    BY <1>0, <1>6, ShownStarting, ShownStartingNext
  <2>2. exports' = UIds(In("active") \cup ev.rules)
    <3>1. exports = UIds(In("active")) /\ exports' = exports \cup UIds(ev.rules)
      BY <1>1, <1>4, <1>6, <2>1 DEF Handled, IInv, TablesInStep
    <3>. QED BY <1>3, <3>1, UIdsOf
  <2>3. TablesInStep'
    BY <1>1, <1>2, <2>1, <2>2 DEF IInv, TablesInStep
  <2>. QED BY <1>2, <2>3 DEF IInv
<1>7. CASE ev.type \in {"remove", "request"} /\ Len(todo) = 2 /\ Len(todo') = 1
  <2>1. /\ Shown(4, 2) = In("active") /\ Shown(4, 2)' = In("active") \ ev.rules
        /\ Shown(3, 3)' = Shown(3, 3) /\ Shown(2, 4)' = Shown(2, 4)
    <3>1. /\ Shown(4, 2) = In("active") /\ Shown(3, 3) = In("active") \ ev.rules
          /\ Shown(2, 4) = In("active") \ ev.rules
      BY <1>7, ShownLeaving
    <3>2. \A a, b \in Nat : Len(todo') < b => Shown(a, b)' = In("active") \ ev.rules
      BY <1>0, <1>7, ShownLeavingNext
    <3>3. Len(todo') < 2 /\ Len(todo') < 3 /\ Len(todo') < 4
      BY <1>7
    <3>. QED BY <3>1, <3>2, <3>3
  <2>2. exports' = UIds(In("active") \ ev.rules)
    <3>1. exports = UIds(In("active")) /\ exports' = exports \ UIds(ev.rules)
      BY <1>1, <1>4, <1>7, <2>1 DEF Handled, IInv, TablesInStep
    <3>. QED BY <1>3, <3>1, UIdsOf
  <2>3. TablesInStep'
    BY <1>1, <1>2, <2>1, <2>2 DEF IInv, TablesInStep
  <2>. QED BY <1>2, <2>3 DEF IInv
<1>. QED BY <1>5, <1>6, <1>7

LEMMA ProcessorStepKeeps ==
  ASSUME IInv, ProcessorStep
  PROVE  IInv'
<1>1. /\ UNCHANGED <<manager, ev>> /\ ev' = ev /\ UNCHANGED <<exports, filters>>
      /\ ~Idle /\ todo' = Tail(todo) /\ Head(todo) = "processor"
      /\ actions' = Handled(actions)
  BY DEF ProcessorStep, Done
<1>2. /\ Consistent(Manager)' /\ Handling' /\ EveryRuleHasItsEvents'
      /\ In("active")' = In("active")
      /\ \A R : UIds(R)' = UIds(R) /\ FiltersOf(R)' = FiltersOf(R)
  BY <1>1, ComponentStep
<1>0. ev' = ev /\ In("active")' = In("active")
  BY <1>1, <1>2
<1>3. StateKnown /\ ev.rules \subseteq Installed /\ In("active") \subseteq Installed
  BY StateFacts DEF IInv, Handling, Installed
<1>4. EvIds = UIds(ev.rules)
  BY DEF EvIds, UIds
<1>5. ev.type \in {"activate", "remove", "request"} /\ Len(todo) = 3 /\ Len(todo') = 2
  BY <1>1 DEF IInv, Handling, Idle
<1>6. /\ Shown(3, 3) = In("active")
      /\ Shown(4, 2)' = Shown(4, 2) /\ Shown(2, 4)' = Shown(2, 4)
  <2>1. CASE ev.type = "activate"
    BY <1>0, <1>5, <2>1, ShownStarting, ShownStartingNext
  <2>2. CASE ev.type \in {"remove", "request"}
    BY <1>0, <1>5, <2>2, ShownLeaving, ShownLeavingNext
  <2>. QED BY <1>5, <2>1, <2>2
<1>7. CASE ev.type = "activate"
  <2>1. Shown(3, 3)' = In("active") \cup ev.rules
    BY <1>0, <1>5, <1>7, ShownStartingNext
  <2>2. actions' = UIds(In("active") \cup ev.rules)
    <3>1. actions = UIds(In("active")) /\ actions' = actions \cup UIds(ev.rules)
      BY <1>1, <1>4, <1>6, <1>7 DEF Handled, IInv, TablesInStep
    <3>. QED BY <1>3, <3>1, UIdsOf
  <2>3. TablesInStep'
    BY <1>1, <1>2, <1>6, <2>1, <2>2 DEF IInv, TablesInStep
  <2>. QED BY <1>2, <2>3 DEF IInv
<1>8. CASE ev.type \in {"remove", "request"}
  <2>1. Shown(3, 3)' = In("active") \ ev.rules
    BY <1>0, <1>5, <1>8, ShownLeavingNext
  <2>2. actions' = UIds(In("active") \ ev.rules)
    <3>1. actions = UIds(In("active")) /\ actions' = actions \ UIds(ev.rules)
      BY <1>1, <1>4, <1>6, <1>8 DEF Handled, IInv, TablesInStep
    <3>. QED BY <1>3, <3>1, UIdsOf
  <2>3. TablesInStep'
    BY <1>1, <1>2, <1>6, <2>1, <2>2 DEF IInv, TablesInStep
  <2>. QED BY <1>2, <2>3 DEF IInv
<1>. QED BY <1>5, <1>7, <1>8

\* A rule's filter, and which rule has it.
LEMMA FilterFacts ==
  ASSUME NEW R, NEW f
  PROVE  f \in FiltersOf(R) <=>
           /\ f.rule \in R /\ f.dir \in Directions(f.rule)
           /\ f = [uid |-> rule[f.rule].uid, dir |-> f.dir, rule |-> f.rule]
<1>1. \A r \in R : Directions(r) \subseteq {"forward", "backward"}
  BY DEF Directions
<1>. QED BY <1>1 DEF FiltersOf, Filters

\* addRules of the classifier adds the filters of the rules.
LEMMA InsertedFilters ==
  ASSUME StateKnown, ev.rules \subseteq Installed, NEW R \in SUBSET Installed
  PROVE  Inserted(FiltersOf(R)) = FiltersOf(R \cup ev.rules)
<1>1. ASSUME NEW f \in FiltersOf(ev.rules), f \notin FiltersOf(R), NEW g \in FiltersOf(R)
      PROVE  g.uid # f.uid \/ g.dir # f.dir
  <2> SUFFICES ASSUME g.uid = f.uid, g.dir = f.dir PROVE FALSE
    OBVIOUS
  <2>1. /\ f.rule \in ev.rules /\ g.rule \in R
        /\ f = [uid |-> rule[f.rule].uid, dir |-> f.dir, rule |-> f.rule]
        /\ g = [uid |-> rule[g.rule].uid, dir |-> g.dir, rule |-> g.rule]
    BY <1>1, FilterFacts
  <2>2. f.uid = rule[f.rule].uid /\ g.uid = rule[g.rule].uid
    BY <2>1
  <2>3. f.rule = g.rule
    BY <2>1, <2>2 DEF StateKnown
  <2>. QED BY <1>1, <2>1, <2>3
<1>2. Inserted(FiltersOf(R)) =
        FiltersOf(R) \cup {f \in FiltersOf(ev.rules) :
                              \A g \in FiltersOf(R) : g.uid # f.uid \/ g.dir # f.dir}
  BY DEF Inserted, FiltersOf
<1>3. FiltersOf(R \cup ev.rules) = FiltersOf(R) \cup FiltersOf(ev.rules)
  BY DEF FiltersOf, Filters
<1>. QED BY <1>1, <1>2, <1>3

\* delRules removes those of the rules, delRule those of a rule that is not
\* bidirectional.
LEMMA ErasedFilters ==
  ASSUME StateKnown, ev.rules \subseteq Installed, NEW R \in SUBSET Installed,
         ev.type = "request" => \A r \in ev.rules : ~IsBidir(rule[r].desc)
  PROVE  Erased(FiltersOf(R)) = FiltersOf(R \ ev.rules)
<1>1. ASSUME NEW f \in FiltersOf(R)
      PROVE  f \in Erased(FiltersOf(R)) <=> f.rule \notin ev.rules
  <2>1. /\ f.rule \in R /\ f.dir \in Directions(f.rule)
        /\ f = [uid |-> rule[f.rule].uid, dir |-> f.dir, rule |-> f.rule]
    BY <1>1, FilterFacts
  <2>2. f.uid = rule[f.rule].uid
    BY <2>1
  <2>3. \A r \in ev.rules : f.uid = rule[r].uid => r = f.rule
    BY <2>1, <2>2 DEF StateKnown
  <2>4. f.rule \in ev.rules => ~(f.dir = "backward" /\ ev.type = "request")
    BY <2>1 DEF Directions
  <2>. QED BY <2>1, <2>2, <2>3, <2>4 DEF Erased
<1>2. FiltersOf(R \ ev.rules) = {f \in FiltersOf(R) : f.rule \notin ev.rules}
  BY FilterFacts
<1>3. Erased(FiltersOf(R)) \subseteq FiltersOf(R)
  BY DEF Erased
<1>. QED BY <1>1, <1>2, <1>3

LEMMA ClassifierStepKeeps ==
  ASSUME IInv, ClassifierStep
  PROVE  IInv'
<1>1. /\ UNCHANGED <<manager, ev>> /\ ev' = ev /\ UNCHANGED <<exports, actions>>
      /\ ~Idle /\ todo' = Tail(todo) /\ Head(todo) = "classifier"
      /\ ev.type = "activate" => filters' = Inserted(filters)
      /\ ev.type # "activate" => filters' = Erased(filters)
  BY DEF ClassifierStep, Done
<1>2. /\ Consistent(Manager)' /\ Handling' /\ EveryRuleHasItsEvents'
      /\ In("active")' = In("active")
      /\ \A R : UIds(R)' = UIds(R) /\ FiltersOf(R)' = FiltersOf(R)
  BY <1>1, ComponentStep
<1>0. ev' = ev /\ In("active")' = In("active")
  BY <1>1, <1>2
<1>3. /\ StateKnown /\ ev.rules \subseteq Installed /\ In("active") \subseteq Installed
      /\ Requestable = "oneway" /\ ev.type = "request" =>
            \A r \in ev.rules : ~IsBidir(rule[r].desc)
  BY StateFacts DEF IInv, Handling, Installed
<1>4. \/ ev.type = "activate" /\ Len(todo) = 2 /\ Len(todo') = 1
      \/ ev.type \in {"remove", "request"} /\ Len(todo) = 4 /\ Len(todo') = 3
  BY <1>1 DEF IInv, Handling, Idle
<1>7. filters' \subseteq [uid : Ids, dir : {"forward", "backward"}, rule : Rules]
  <2>1. filters \subseteq [uid : Ids, dir : {"forward", "backward"}, rule : Rules]
    BY DEF IInv, TablesInStep
  <2>2. Filters(ev.rules) \subseteq [uid : Ids, dir : {"forward", "backward"}, rule : Rules]
    BY <1>3 DEF Filters, StateKnown
  <2>. QED BY <1>1, <2>1, <2>2 DEF Inserted, Erased
<1>5. CASE ev.type = "activate" /\ Len(todo) = 2 /\ Len(todo') = 1
  <2>1. /\ Shown(2, 4) = In("active") /\ Shown(2, 4)' = In("active") \cup ev.rules
        /\ Shown(3, 3)' = Shown(3, 3) /\ Shown(4, 2)' = Shown(4, 2)
    <3>1. /\ Shown(2, 4) = In("active") /\ Shown(3, 3) = In("active") \cup ev.rules
          /\ Shown(4, 2) = In("active") \cup ev.rules
      BY <1>5, ShownStarting
    <3>2. \A a, b \in Nat : Len(todo') < a => Shown(a, b)' = In("active") \cup ev.rules
      BY <1>0, <1>5, ShownStartingNext
    <3>3. Len(todo') < 2 /\ Len(todo') < 3 /\ Len(todo') < 4
      BY <1>5
    <3>. QED BY <3>1, <3>2, <3>3
  <2>2. Requestable = "oneway" => filters' = FiltersOf(In("active") \cup ev.rules)
    BY <1>1, <1>3, <1>5, <2>1, InsertedFilters DEF IInv, TablesInStep
  <2>3. TablesInStep'
    BY <1>1, <1>2, <1>7, <2>1, <2>2 DEF IInv, TablesInStep
  <2>. QED BY <1>2, <2>3 DEF IInv
<1>6. CASE ev.type \in {"remove", "request"} /\ Len(todo) = 4 /\ Len(todo') = 3
  <2>1. /\ Shown(2, 4) = In("active") /\ Shown(2, 4)' = In("active") \ ev.rules
        /\ Shown(3, 3)' = Shown(3, 3) /\ Shown(4, 2)' = Shown(4, 2)
    BY <1>0, <1>6, ShownLeaving, ShownLeavingNext
  <2>2. Requestable = "oneway" => filters' = FiltersOf(In("active") \ ev.rules)
    BY <1>1, <1>3, <1>6, <2>1, ErasedFilters DEF IInv, TablesInStep
  <2>3. TablesInStep'
    BY <1>1, <1>2, <1>7, <2>1, <2>2 DEF IInv, TablesInStep
  <2>. QED BY <1>2, <2>3 DEF IInv
<1>. QED BY <1>4, <1>5, <1>6

\* The RuleManager's step at the end of an event leaves the tables alone, and
\* its rules are the ones the tables have.
LEMMA SameTables ==
  ASSUME TablesInStep, UNCHANGED <<exports, actions, filters>>,
         \A m, n \in 2 .. 4 : Shown(m, n)' = Shown(m, n),
         \A m, n \in 2 .. 4 : \A r \in Shown(m, n) :
            rule'[r].uid = rule[r].uid /\ rule'[r].desc = rule[r].desc
  PROVE  TablesInStep'
<1>1. UIds(Shown(4, 2))' = UIds(Shown(4, 2)) /\ UIds(Shown(3, 3))' = UIds(Shown(3, 3))
  BY DEF UIds
<1>2. FiltersOf(Shown(2, 4))' = FiltersOf(Shown(2, 4))
  <2> DEFINE S == Shown(2, 4)
  <2>1. S' = S /\ \A r \in S : rule'[r].uid = rule[r].uid /\ rule'[r].desc = rule[r].desc
    OBVIOUS
  <2>2. \A r \in S : Directions(r)' = Directions(r)
    BY <2>1 DEF Directions
  <2>3. Filters(S)' = Filters(S)
    BY <2>1 DEF Filters
  <2>4. \A f \in Filters(S) : f.rule \in S
    BY DEF Filters
  <2>. QED BY <2>2, <2>3, <2>4 DEF FiltersOf
<1>. QED BY <1>1, <1>2 DEF TablesInStep

LEMMA ActivateRulesKeeps ==
  ASSUME IInv, NEW sameInterval \in BOOLEAN, ActivateRules(sameInterval)
  PROVE  IInv'
<1> DEFINE R == ev.rules
           Pushed == {r \in R : rule[r].desc.recurs = "push"}
           Timed == {r \in R : rule[r].desc.recurs = "timeout"}
           activated == [r \in DOMAIN rule |-> IF r \in R THEN [rule[r] EXCEPT !.state = "active"]
                                               ELSE rule[r]]
           E == events \cup Grouped("push", Pushed, sameInterval)
                       \cup Grouped("timeout", Timed, FALSE)
           n == [Manager EXCEPT !.rule = activated]
           m == [n EXCEPT !.events = E]
<1>1. Consistent(Manager) /\ StateKnown /\ Manager.rule = rule /\ Manager.events = events
  BY StateFacts DEF IInv, Manager
<1>2. ev.type = "activate" /\ todo = <<"manager">> /\ todo' = <<>> /\ ev' = NoEvent
  <2>1. ev.type = "activate" /\ Head(todo) = "manager" /\ todo' = Tail(todo) /\ ev' = NoEvent
    BY DEF ActivateRules, Done
  <2>2. todo = <<"manager">>
    BY <2>1 DEF IInv, Handling, NoEvent
  <2>. QED BY <2>1, <2>2
<1>3. R \subseteq Installed /\ R \subseteq DOMAIN rule /\ R \subseteq Rules
  BY <1>1 DEF IInv, Handling, StateKnown
<1>4. UNCHANGED <<exports, actions, filters>>
  BY DEF ActivateRules, tables
<1>5. /\ rule \in Seq(RuleRecord) /\ DOMAIN rule = 1 .. Len(rule) /\ Len(rule) \in Nat
      /\ \A r \in DOMAIN rule : rule[r] \in RuleRecord
  <2>1. rule \in Seq(RuleRecord) /\ DOMAIN rule = 1 .. Len(rule) /\ Len(rule) \in Nat
    BY <1>1, Types
  <2>. QED BY <2>1, ElementOfSeq
<1>6. /\ activated \in Seq(RuleRecord) /\ DOMAIN activated = DOMAIN rule
      /\ Len(activated) = Len(rule)
      /\ \A r \in R : activated[r] = [rule[r] EXCEPT !.state = "active"]
      /\ \A r \in DOMAIN rule \ R : activated[r] = rule[r]
  <2>1. DOMAIN activated = 1 .. Len(rule)
    BY <1>5
  <2>2. \A r \in 1 .. Len(rule) : activated[r] \in RuleRecord
    BY <1>5 DEF RuleRecord
  <2>3. activated \in Seq(RuleRecord) /\ Len(activated) = Len(rule)
    BY <1>5, <2>1, <2>2
  <2>. QED BY <1>3, <1>5, <2>1, <2>3
<1> HIDE DEF activated
<1>7. \A r \in DOMAIN rule : /\ activated[r].uid = rule[r].uid
                             /\ activated[r].desc = rule[r].desc
                             /\ r \in R => activated[r].state = "active"
                             /\ r \notin R => activated[r].state = rule[r].state
  <2>1. ASSUME NEW r \in R
        PROVE  /\ activated[r].uid = rule[r].uid /\ activated[r].desc = rule[r].desc
               /\ activated[r].state = "active"
    BY <1>3, <1>5, <1>6 DEF RuleRecord
  <2>. QED BY <1>6, <2>1
<1>8. /\ n.rule = activated /\ n.num = Manager.num /\ n.freeIds = Manager.freeIds
      /\ n.ruleDB = Manager.ruleDB /\ n.index = Manager.index
      /\ n.ruleDone = Manager.ruleDone /\ n.events = events
      /\ n \in Managers
  <2>1. /\ n.rule = activated /\ n.num = Manager.num /\ n.freeIds = Manager.freeIds
        /\ n.ruleDB = Manager.ruleDB /\ n.index = Manager.index
        /\ n.ruleDone = Manager.ruleDone /\ n.events = events
        /\ n = [rule |-> n.rule, num |-> n.num, freeIds |-> n.freeIds, ruleDB |-> n.ruleDB,
                index |-> n.index, ruleDone |-> n.ruleDone, events |-> n.events]
    BY DEF Manager
  <2>2. Manager \in Managers
    BY <1>1 DEF Consistent
  <2>. QED BY <1>1, <1>6, <2>1, Types DEF Managers
<1> HIDE DEF n
<1>9. InstalledIn(n) = Installed /\ Holders(n) = Holders(Manager)
  <2>1. \A r \in R : rule[r].state \in {"valid", "active"}
    BY <1>3 DEF Installed, In
  <2>2. InstalledIn(n) = InstalledIn(Manager)
    BY <1>1, <1>6, <1>7, <1>8, <2>1 DEF InstalledIn
  <2>3. Holders(n) = Holders(Manager)
    BY <1>1, <1>6, <1>7, <1>8, <2>1 DEF Holders
  <2>. QED BY <1>1, <2>2, <2>3 DEF StateKnown
<1>10. Consistent(n)
  <2>1. NumbersHeldOnce(n)
    BY <1>1, <1>6, <1>7, <1>8, <1>9 DEF Consistent, NumbersHeldOnce, Holders
  <2>2. NumCountsRules(n)
    <3>1. CASE \E r \in DOMAIN rule : rule[r].state = "deleted"
      <4>1. PICK r \in DOMAIN rule : rule[r].state = "deleted"
        BY <3>1
      <4>2. r \notin R
        BY <1>3, <4>1 DEF Installed, In
      <4>. QED BY <1>6, <1>7, <1>8, <4>1, <4>2 DEF NumCountsRules
    <3>2. CASE Manager.freeIds = <<>> /\ Manager.num = Len(rule)
      BY <1>6, <1>8, <3>2 DEF NumCountsRules
    <3>. QED BY <1>1, <3>1, <3>2 DEF Consistent, NumCountsRules
  <2>3. DoneOnce(n)
    <3>1. \A r \in DOMAIN rule : rule[r].state = "done" => r \notin R
      BY <1>3 DEF Installed, In
    <3>. QED BY <1>1, <1>6, <1>7, <1>8, <3>1 DEF Consistent, DoneOnce
  <2>4. Indexed(n)
    <3>1. InstalledIn(Manager) = Installed /\ Installed \subseteq DOMAIN rule
      BY <1>1 DEF StateKnown
    <3>2. Indexed(Manager)
      BY <1>1 DEF Consistent
    <3>3. ASSUME NEW i \in Ids, n.ruleDB[i] # None
          PROVE  /\ n.ruleDB[i] \in InstalledIn(n)
                 /\ n.rule[n.ruleDB[i]].uid = i
                 /\ n.index[n.rule[n.ruleDB[i]].desc.name] = i
      BY <1>1, <1>7, <1>8, <1>9, <3>1, <3>2, <3>3 DEF Indexed
    <3>4. \A r \in InstalledIn(n) : n.ruleDB[n.rule[r].uid] = r
      BY <1>1, <1>7, <1>8, <1>9, <3>1, <3>2 DEF Indexed
    <3>5. ASSUME NEW x \in Names, n.index[x] # NoId
          PROVE  /\ n.ruleDB[n.index[x]] # None
                 /\ n.rule[n.ruleDB[n.index[x]]].desc.name = x
      <4>1. Manager.index[x] \in Ids
        BY <1>1, <1>8, <3>5, Types
      <4>2. Manager.ruleDB[Manager.index[x]] \in DOMAIN rule
        BY <1>8, <3>1, <3>2, <3>5, <4>1 DEF Indexed
      <4>. QED BY <1>1, <1>7, <1>8, <3>2, <3>5, <4>2 DEF Indexed
    <3>. QED BY <3>3, <3>4, <3>5 DEF Indexed
  <2>5. EventsOfInstalled(n)
    BY <1>1, <1>8, <1>9 DEF EventsOfInstalled, StateKnown
  <2>. QED BY <1>1, <1>6, <1>8, <2>1, <2>2, <2>3, <2>4, <2>5 DEF Consistent, StateKnown
<1>11. Pushed \in SUBSET R /\ Timed \in SUBSET R
       /\ Pushed \in SUBSET Rules /\ Timed \in SUBSET Rules
  BY <1>3
<1> HIDE DEF Pushed, Timed
<1>12. /\ E \subseteq Scheduled /\ \A e \in E : e.rules \subseteq InstalledIn(n)
  <2>1. /\ Grouped("push", Pushed, sameInterval) \subseteq Scheduled
        /\ \A e \in Grouped("push", Pushed, sameInterval) :
              e.rules \subseteq Pushed
    BY <1>11, GroupFacts
  <2>2. /\ Grouped("timeout", Timed, FALSE) \subseteq Scheduled
        /\ \A e \in Grouped("timeout", Timed, FALSE) :
              e.rules \subseteq Timed
    BY <1>11, GroupFacts
  <2>3. events \subseteq Scheduled /\ \A e \in events : e.rules \subseteq Installed
    BY <1>1 DEF StateKnown
  <2>. QED BY <1>3, <1>9, <1>11, <2>1, <2>2, <2>3
<1> HIDE DEF E
<1>13. Consistent(m)
  BY <1>10, <1>12, OtherEvents
<1>14. Manager' = m
  <2>1. m = [Manager EXCEPT !.rule = activated, !.events = E]
    BY DEF n, Manager
  <2>2. ManagerBecomes(m)
    BY <1>1, <2>1 DEF ActivateRules, activated, E, Pushed, Timed
  <2>. QED BY <1>13, <2>2, ManagerIs
<1>15. rule' = activated /\ events' = E
  <2>1. Manager'.rule = rule' /\ Manager'.events = events'
    BY DEF Manager
  <2>2. m.rule = activated /\ m.events = E
    BY <1>8 DEF Managers
  <2>. QED BY <1>14, <2>1, <2>2
<1>16. Installed' = Installed /\ In("active")' = In("active") \cup R
  <2>1. \A r \in R : rule[r].state \in {"valid", "active"}
    BY <1>3 DEF Installed, In
  <2>. QED BY <1>3, <1>6, <1>7, <1>15, <2>1 DEF Installed, In
<1>17. Handling'
  BY <1>2 DEF Handling, NoEvent
<1>18. EveryRuleHasItsEvents'
  <2> SUFFICES ASSUME NEW r \in Installed
               PROVE  /\ rule'[r].state = "valid" => EventsOf(r, "activate")' # {}
                      /\ rule'[r].state = "active" => EventsOf(r, rule[r].desc.recurs)' # {}
                      /\ rule'[r].desc.stops => EventsOf(r, "remove")' # {}
    BY <1>16 DEF EveryRuleHasItsEvents
  <2>1. /\ rule[r].state = "valid" => EventsOf(r, "activate") # {}
        /\ rule[r].state = "active" => EventsOf(r, rule[r].desc.recurs) # {}
        /\ rule[r].desc.stops => EventsOf(r, "remove") # {}
    BY DEF IInv, EveryRuleHasItsEvents
  <2>2. r \in DOMAIN rule /\ rule[r].desc.recurs \in {"push", "timeout"}
    BY <1>1 DEF StateKnown, Descriptions
  <2>3. /\ rule'[r].desc = rule[r].desc
        /\ r \in R => rule'[r].state = "active"
        /\ r \notin R => rule'[r].state = rule[r].state
    BY <1>7, <1>15, <2>2
  <2>4. \A type : EventsOf(r, type) \ {ev} \subseteq EventsOf(r, type)'
    BY <1>15 DEF EventsOf, E
  <2>5. ev \in EventsOf(r, "activate") => r \in R
    BY DEF EventsOf
  <2>6. \A type \in {"remove", "push", "timeout"} : ev \notin EventsOf(r, type)
    BY <1>2 DEF EventsOf
  <2>7. CASE r \in R
    <3>1. EventsOf(r, rule[r].desc.recurs)' # {}
      <4>1. CASE rule[r].desc.recurs = "push"
        <5>1. PICK e \in Grouped("push", Pushed, sameInterval) :
                      e.type = "push" /\ r \in e.rules
          <6>1. r \in Pushed
            BY <2>7, <4>1 DEF Pushed
          <6>. QED BY <1>11, <6>1, GroupFacts
        <5>. QED BY <1>15, <2>3, <4>1, <5>1 DEF EventsOf, E
      <4>2. CASE rule[r].desc.recurs = "timeout"
        <5>1. PICK e \in Grouped("timeout", Timed, FALSE) :
                      e.type = "timeout" /\ r \in e.rules
          <6>1. r \in Timed
            BY <2>7, <4>2 DEF Timed
          <6>2. \A q \in Timed : \E e \in Grouped("timeout", Timed, FALSE) : q \in e.rules
            BY <1>11, GroupFacts
          <6>3. \A e \in Grouped("timeout", Timed, FALSE) : e.type = "timeout"
            BY <1>11, GroupFacts
          <6>. QED BY <6>1, <6>2, <6>3
        <5>. QED BY <1>15, <2>3, <4>2, <5>1 DEF EventsOf, E
      <4>. QED BY <2>2, <4>1, <4>2
    <3>. QED BY <2>1, <2>3, <2>4, <2>6, <2>7, <3>1
  <2>8. CASE r \notin R
    <3>1. \A type : ev \notin EventsOf(r, type)
      BY <2>8 DEF EventsOf
    <3>. QED BY <2>1, <2>2, <2>3, <2>4, <2>8, <3>1
  <2>. QED BY <2>7, <2>8
<1>19. TablesInStep'
  <2>1. Len(todo) = 1 /\ ev'.type = "none"
    BY <1>2 DEF NoEvent
  <2>2. \A a, b \in 2 .. 4 : Shown(a, b) = In("active") \cup R
    BY <1>2, <2>1, ShownStarting
  <2>3. \A a, b \in 2 .. 4 : Shown(a, b)' = In("active") \cup R
    BY <1>16, <2>1 DEF Shown
  <2>4. \A r \in In("active") \cup R :
           rule'[r].uid = rule[r].uid /\ rule'[r].desc = rule[r].desc
    BY <1>3, <1>7, <1>15 DEF In
  <2>. QED BY <1>4, <2>2, <2>3, <2>4, SameTables DEF IInv
<1>. QED BY <1>13, <1>14, <1>17, <1>18, <1>19 DEF IInv

LEMMA DelRulesKeeps ==
  ASSUME IInv, NEW r \in ev.rules, DelRules(r)
  PROVE  IInv'
<1> DEFINE d == DelRule(Manager, r)
<1>1. Consistent(Manager) /\ StateKnown /\ Manager.rule = rule /\ Manager.events = events
  BY StateFacts DEF IInv, Manager
<1>2. /\ ev.type \in {"remove", "request"} /\ todo # <<>> /\ Head(todo) = "manager"
      /\ ManagerBecomes(d)
      /\ \/ ev.rules = {r} /\ ev' = NoEvent /\ todo' = <<>>
         \/ ev.rules # {r} /\ ev' = [ev EXCEPT !.rules = @ \ {r}] /\ todo' = todo
      /\ UNCHANGED <<exports, actions, filters>>
  BY DEF DelRules, Idle, tables
<1>3. todo = <<"manager">>
  BY <1>2 DEF IInv, Handling, NoEvent
<1>0. ev.type \in {"remove", "request"} /\ Len(todo) = 1
  BY <1>2, <1>3
<1>4. /\ ev \in [type : {"none", "activate", "remove", "request", "push", "timeout"},
                 rules : SUBSET Rules]
      /\ ev.rules \subseteq Installed
      /\ Requestable = "oneway" /\ ev.type = "request" =>
            \A q \in ev.rules : ~IsBidir(rule[q].desc)
  BY DEF IInv, Handling
<1>5. r \in InstalledIn(Manager)
  BY <1>1, <1>4 DEF StateKnown
<1>6. Consistent(d) /\ Without(Manager, r, d)
  BY <1>1, <1>5, DelRuleKeeps
<1> HIDE DEF d
<1>7. Manager' = d
  BY <1>2, <1>6, ManagerIs
<1>8. rule' = d.rule /\ events' = d.events
  BY <1>7 DEF Manager
<1>9. /\ DOMAIN rule' = DOMAIN rule
      /\ \A q \in DOMAIN rule : rule'[q].uid = rule[q].uid /\ rule'[q].desc = rule[q].desc
      /\ InstalledIn(d) = Installed \ {r}
      /\ \A q \in Installed \ {r} : rule'[q] = rule[q]
      /\ events' = DelRuleEvents(Manager, rule[r].uid)
  BY <1>1, <1>6, <1>8 DEF Without, StateKnown
<1>10. Installed' = Installed \ {r} /\ In("active")' = In("active") \ {r}
  <2>1. Installed' = Installed \ {r}
    BY <1>1, <1>8, <1>9 DEF Installed, In, InstalledIn
  <2>2. In("active")' \subseteq Installed' /\ In("active") \subseteq Installed
    BY DEF Installed
  <2>3. \A q \in Installed' : q \in In("active")' <=> q \in In("active")
    BY <1>1, <1>9, <2>1 DEF In, StateKnown
  <2>. QED BY <2>1, <2>2, <2>3
<1>11. \/ ev.rules = {r} /\ ev'.type = "none" /\ ev'.rules = {}
       \/ /\ ev'.type = ev.type /\ ev'.rules = ev.rules \ {r}
          /\ ev' = [type |-> ev.type, rules |-> ev.rules \ {r}]
          /\ todo' = todo
  BY <1>2, <1>4 DEF NoEvent
<1>12. Handling'
  <2>1. CASE ev.rules = {r}
    BY <1>2, <2>1 DEF Handling, NoEvent
  <2>2. CASE ev.rules # {r}
    <3>1. /\ ev'.type = ev.type /\ ev'.rules = ev.rules \ {r}
          /\ ev' \in [type : {"none", "activate", "remove", "request", "push", "timeout"},
                      rules : SUBSET Rules]
      BY <1>4, <1>11, <2>2
    <3>2. ev'.rules \subseteq Installed'
      BY <1>4, <1>10, <3>1
    <3>3. Requestable = "oneway" /\ ev'.type = "request" =>
             \A q \in ev'.rules : ~IsBidir(rule'[q].desc)
      BY <1>1, <1>4, <1>9, <3>1 DEF StateKnown
    <3>. QED BY <1>2, <1>3, <2>2, <3>1, <3>2, <3>3 DEF Handling
  <2>. QED BY <2>1, <2>2
<1>13. EveryRuleHasItsEvents'
  <2> SUFFICES ASSUME NEW q \in Installed \ {r}
               PROVE  /\ rule'[q].state = "valid" => EventsOf(q, "activate")' # {}
                      /\ rule'[q].state = "active" => EventsOf(q, rule[q].desc.recurs)' # {}
                      /\ rule'[q].desc.stops => EventsOf(q, "remove")' # {}
    BY <1>10 DEF EveryRuleHasItsEvents
  <2>1. /\ rule[q].state = "valid" => EventsOf(q, "activate") # {}
        /\ rule[q].state = "active" => EventsOf(q, rule[q].desc.recurs) # {}
        /\ rule[q].desc.stops => EventsOf(q, "remove") # {}
    BY DEF IInv, EveryRuleHasItsEvents
  <2>2. rule'[q] = rule[q] /\ rule[q].uid # rule[r].uid
    BY <1>1, <1>4, <1>9 DEF StateKnown
  <2>3. ASSUME NEW type, EventsOf(q, type) # {}
        PROVE  EventsOf(q, type)' # {}
    <3>1. PICK e \in events \cup {ev} : e.type = type /\ q \in e.rules
      BY <2>3 DEF EventsOf
    <3>2. CASE e \in events
      <4> DEFINE f == [e EXCEPT !.rules = {s \in @ : rule[s].uid # rule[r].uid}]
      <4>1. e \in Scheduled
        BY <1>1, <3>2 DEF StateKnown
      <4>2. f.type = type /\ q \in f.rules
        BY <2>2, <3>1, <4>1 DEF Scheduled
      <4>3. f \in events'
        <5>1. events' = {g \in {[h EXCEPT !.rules = {s \in @ : rule[s].uid # rule[r].uid}] :
                                h \in events} : g.rules # {}}
          BY <1>9 DEF DelRuleEvents, Manager
        <5>2. f.rules # {}
          BY <4>2
        <5>3. f \in {[h EXCEPT !.rules = {s \in @ : rule[s].uid # rule[r].uid}] : h \in events}
          BY <3>2
        <5> HIDE DEF f
        <5>. QED BY <5>1, <5>2, <5>3
      <4>. QED BY <4>2, <4>3 DEF EventsOf
    <3>3. CASE e = ev
      <4>1. ev'.type = type /\ q \in ev'.rules
        BY <1>11, <3>1, <3>3
      <4>. QED BY <4>1 DEF EventsOf
    <3>. QED BY <3>1, <3>2, <3>3
  <2>. QED BY <2>1, <2>2, <2>3
<1>14. TablesInStep'
  <2>2. \A a, b \in 2 .. 4 : Shown(a, b) = In("active") \ ev.rules
    BY <1>0, ShownLeaving
  <2>3. \A a, b \in 2 .. 4 : Shown(a, b)' = In("active") \ ev.rules
    <3>1. CASE ev.rules = {r} /\ ev'.type = "none"
      BY <1>10, <3>1 DEF Shown
    <3>2. CASE ev'.type = ev.type /\ ev'.rules = ev.rules \ {r} /\ todo' = todo
      <4>1. ev'.type \in {"remove", "request"} /\ Len(todo') = 1
        BY <1>0, <3>2
      <4>2. \A a, b \in 2 .. 4 : Shown(a, b)' = In("active")' \ ev'.rules
        BY <4>1, ShownLeavingNext
      <4>. QED BY <1>10, <3>2, <4>2
    <3>. QED BY <1>11, <3>1, <3>2
  <2>4. \A q \in In("active") : rule'[q].uid = rule[q].uid /\ rule'[q].desc = rule[q].desc
    BY <1>9 DEF In
  <2>. QED BY <1>2, <2>2, <2>3, <2>4, SameTables DEF IInv
<1>. QED BY <1>6, <1>7, <1>12, <1>13, <1>14 DEF IInv

LEMMA ExportKeeps ==
  ASSUME IInv, Export
  PROVE  IInv'
<1>1. Consistent(Manager) /\ StateKnown
  BY StateFacts DEF IInv
<1>2. /\ UNCHANGED <<rule, num, freeIds, ruleDB, index, ruleDone>>
      /\ UNCHANGED <<exports, actions, filters>>
      /\ events' = events \cup {ev} /\ ev' = NoEvent
      /\ todo # <<>> /\ Head(todo) = "export" /\ todo' = Tail(todo)
  BY DEF Export, Done, Idle, tables
<1>3. ev.type \in {"push", "timeout"} /\ todo = <<"export">>
  BY <1>2 DEF IInv, Handling
<1>4. /\ ev \in [type : {"none", "activate", "remove", "request", "push", "timeout"},
                 rules : SUBSET Rules]
      /\ ev.rules \subseteq Installed
  BY DEF IInv, Handling
<1>5. todo' = <<>>
  BY <1>2, <1>3
<1>6. Consistent(Manager)'
  <2>1. ev \in Scheduled
    BY <1>3, <1>4 DEF Scheduled
  <2>2. /\ events \cup {ev} \in SUBSET Scheduled
        /\ \A f \in events \cup {ev} : f.rules \subseteq Installed
    BY <1>1, <1>4, <2>1 DEF StateKnown
  <2>. QED BY <1>1, <1>2, <2>2, EventsChange
<1>7. Installed' = Installed /\ In("active")' = In("active")
  BY <1>2 DEF Installed, In
<1>8. Handling'
  BY <1>2, <1>5 DEF Handling, NoEvent
<1>9. EveryRuleHasItsEvents'
  <2>1. \A q, type : EventsOf(q, type) \subseteq EventsOf(q, type)'
    BY <1>2 DEF EventsOf
  <2>. QED BY <1>2, <1>7, <2>1 DEF IInv, EveryRuleHasItsEvents
<1>10. TablesInStep'
  <2>1. \A a, b \in 2 .. 4 : Shown(a, b) = In("active") /\ Shown(a, b)' = In("active")
    BY <1>2, <1>3, <1>7 DEF Shown, NoEvent
  <2>. QED BY <1>2, <2>1, SameTables DEF IInv
<1>. QED BY <1>6, <1>8, <1>9, <1>10 DEF IInv

-----------------------------------------------------------------------------
LEMMA NextKeeps ==
  ASSUME IInv, Exposed = {}, [Next]_vars
  PROVE  IInv'
<1>1. CASE \E ds \in Requests, sameStart, sameStop \in BOOLEAN :
              AddRules(ds, sameStart, sameStop)
  BY <1>1, AddRulesKeeps
<1>2. CASE \E n \in Names : RemoveRule(n)
  BY <1>2, RemoveRuleKeeps
<1>3. CASE \E e \in events : GetNextEvent(e)
  BY <1>3, GetNextEventKeeps
<1>4. CASE Handler
  <2>1. CASE ExporterStep
    BY <2>1, ExporterStepKeeps
  <2>2. CASE ProcessorStep
    BY <2>2, ProcessorStepKeeps
  <2>3. CASE ClassifierStep
    BY <2>3, ClassifierStepKeeps
  <2>4. CASE \E sameInterval \in BOOLEAN : ActivateRules(sameInterval)
    BY <2>4, ActivateRulesKeeps
  <2>5. CASE \E r \in ev.rules : DelRules(r)
    BY <2>5, DelRulesKeeps
  <2>6. CASE Export
    BY <2>6, ExportKeeps
  <2>. QED BY <1>4, <2>1, <2>2, <2>3, <2>4, <2>5, <2>6 DEF Handler
<1>5. CASE UNCHANGED vars
  <2>1. UNCHANGED <<rule, num, freeIds, ruleDB, index, ruleDone, events>>
    BY <1>5 DEF vars, manager
  <2>2. UNCHANGED <<exports, actions, filters>>
    BY <1>5 DEF vars, tables
  <2>3. UNCHANGED <<ev, todo>>
    BY <1>5 DEF vars
  <2>4. Consistent(Manager)'
    BY <2>1 DEF IInv, Manager
  <2>5. Handling'
    BY <2>1, <2>3 DEF IInv, Handling, Installed, In
  <2>6. EveryRuleHasItsEvents'
    BY <2>1, <2>3 DEF IInv, EveryRuleHasItsEvents, EventsOf, Installed, In
  <2>7. TablesInStep'
    BY <2>1, <2>2, <2>3, SameTables DEF IInv, Shown, In
  <2>. QED BY <2>4, <2>5, <2>6, <2>7 DEF IInv
<1>. QED BY <1>1, <1>2, <1>3, <1>4, <1>5 DEF Next

\* A behaviour keeps the invariant if no rule gets a number that num counts to
\* after a number was released.
THEOREM LifecycleInvariant == Exposed = {} /\ Spec => []IInv
<1>1. Init => IInv
  BY InitInvariant
<1>2. Exposed = {} /\ IInv /\ [Next]_vars => IInv'
  BY NextKeeps
<1>3. Exposed = {} => [](Exposed = {})
  OBVIOUS
<1>. QED BY <1>1, <1>2, <1>3, PTL DEF Spec

\* A number and a name lead to the rule they were given to, whichever rules
\* were removed, remembered and forgotten meanwhile, and no number has two
\* rules.
THEOREM RulesAreFound == Exposed = {} /\ Spec => []RulesFound
<1>1. ASSUME IInv PROVE RulesFound
  <2>1. Consistent(Manager) /\ StateKnown
    BY <1>1, StateFacts DEF IInv
  <2>2. /\ Manager.rule = rule /\ Manager.num = num /\ Manager.freeIds = freeIds
        /\ Manager.ruleDB = ruleDB /\ Manager.index = index
        /\ Manager.ruleDone = ruleDone /\ Manager.events = events
    BY DEF Manager
  <2>3. Installed = InstalledIn(Manager) /\ Installed \subseteq Rules /\ DOMAIN rule \subseteq Rules
    BY <2>1 DEF StateKnown
  <2>4. TypeOK
    <3>1. /\ rule \in Seq([desc : Descriptions, uid : Ids,
                           state : {"valid", "active", "done", "deleted"}])
          /\ num \in Int /\ freeIds \in Seq(Ids)
          /\ ruleDB \in [Ids -> Rules \cup {None}]
          /\ index \in [Names -> Ids \cup {NoId}]
          /\ ruleDone \in Seq(Rules)
      BY <2>1, <2>2, Types DEF RuleRecord
    <3>2. Len(ruleDone) <= DoneListSize
      BY <2>1, <2>2 DEF Consistent, DoneOnce
    <3>3. \A e \in events \cup {ev} :
             /\ e.type \in {"none", "activate", "remove", "request", "push", "timeout"}
             /\ e.rules \subseteq Rules
      BY <1>1, <2>1 DEF IInv, Handling, StateKnown, Scheduled
    <3>4. \A a, b \in Nat : Shown(a, b) \subseteq Installed
      BY <1>1 DEF Shown, Installed, IInv, Handling
    <3>5. exports \subseteq Ids /\ actions \subseteq Ids
      BY <1>1, <2>1, <3>4 DEF IInv, TablesInStep, UIds, StateKnown
    <3>6. filters \subseteq [uid : Ids, dir : {"forward", "backward"}, rule : Rules]
      BY <1>1 DEF IInv, TablesInStep
    <3>7. Len(todo) <= 4
      <4>1. \A n \in 0 .. 4 : n <= 4
        OBVIOUS
      <4>2. Len(todo) \in 0 .. 4
        BY <1>1 DEF IInv, Handling
      <4>. QED BY <4>1, <4>2
    <3>. QED BY <3>1, <3>2, <3>3, <3>5, <3>6, <3>7 DEF TypeOK
  <2>5. IndexAgrees
    <3>1. Indexed(Manager)
      BY <2>1 DEF Consistent
    <3>2. \A i \in Ids : ruleDB[i] # None =>
             /\ ruleDB[i] \in Installed /\ rule[ruleDB[i]].uid = i
             /\ index[rule[ruleDB[i]].desc.name] = i
      BY <2>2, <2>3, <3>1 DEF Indexed
    <3>3. \A r \in Installed : rule[r].uid \in Ids /\ ruleDB[rule[r].uid] = r /\ r # None
      BY <2>1, <2>2, <2>3, <3>1 DEF Indexed, StateKnown, Rules, None
    <3>4. \A n \in Names : index[n] # NoId =>
             ruleDB[index[n]] # None /\ rule[ruleDB[index[n]]].desc.name = n
      BY <2>2, <3>1 DEF Indexed
    <3>. QED BY <3>2, <3>3, <3>4 DEF IndexAgrees
  <2>6. UniqueIds
    <3>1. Installed \cup ToSet(ruleDone) \subseteq Holders(Manager)
      <4>1. \A i \in DOMAIN ruleDone :
               ruleDone[i] \in DOMAIN rule /\ rule[ruleDone[i]].state = "done"
        BY <2>1, <2>2 DEF Consistent, DoneOnce
      <4>. QED BY <2>2, <2>3, <4>1 DEF ToSet, InstalledIn, Holders
    <3>. QED BY <2>1, <2>2, <3>1 DEF UniqueIds, Consistent, NumbersHeldOnce
  <2>. QED BY <2>4, <2>5, <2>6 DEF RulesFound
<1>. QED BY <1>1, LifecycleInvariant, PTL

\* The scheduler refers to installed rules only, and has for each the events
\* that start, export and stop it, though rules share events and leave by
\* requests as well as by their stop time.
THEOREM SchedulerMatchesRules == Exposed = {} /\ Spec => []EventsMatchRules
<1>1. ASSUME IInv PROVE EventsMatchRules
  BY <1>1, StateFacts
     DEF IInv, Handling, StateKnown, EventsMatchRules, NoEventOfRemovedRule
<1>. QED BY <1>1, LifecycleInvariant, PTL

\* If requests remove rules that are not bidirectional only, the tables of
\* classifier, processor and exporter are nested at every step of a handler,
\* and hold the active rules between two events.
THEOREM ComponentsAgree ==
  Exposed = {} /\ Requestable = "oneway" /\ Spec => []TablesAgree
<1>1. ASSUME IInv, Requestable = "oneway" PROVE TablesAgree
  <2>1. /\ exports = UIds(Shown(4, 2)) /\ actions = UIds(Shown(3, 3))
        /\ filters = FiltersOf(Shown(2, 4))
    BY <1>1 DEF IInv, TablesInStep
  <2>2. Len(todo) \in 0 .. 4
    BY <1>1 DEF IInv, Handling
  <2>3. TablesNested
    <3>1. Shown(2, 4) \subseteq Shown(3, 3) /\ Shown(3, 3) \subseteq Shown(4, 2)
      BY <2>2 DEF Shown
    <3>2. {f.uid : f \in FiltersOf(Shown(2, 4))} \subseteq UIds(Shown(2, 4))
      <4>1. ASSUME NEW f \in FiltersOf(Shown(2, 4))
            PROVE  f.uid \in UIds(Shown(2, 4))
        BY FilterFacts DEF UIds
      <4>. QED BY <4>1
    <3>3. \A R, S : R \subseteq S => UIds(R) \subseteq UIds(S)
      BY DEF UIds
    <3>. QED BY <2>1, <3>1, <3>2, <3>3 DEF TablesNested
  <2>4. ASSUME Idle PROVE \A a, b \in Nat : Shown(a, b) = In("active")
    BY <1>1, <2>4 DEF Idle, IInv, Handling, Shown, NoEvent
  <2>5. TablesMatchStates
    BY <2>1, <2>4 DEF TablesMatchStates
  <2>6. FiltersMatchStates
    BY <2>1, <2>4 DEF FiltersMatchStates, FiltersOf
  <2>. QED BY <2>3, <2>5, <2>6 DEF TablesAgree
<1>2. Requestable = "oneway" => [](Requestable = "oneway")
  OBVIOUS
<1>. QED BY <1>1, <1>2, LifecycleInvariant, PTL
=============================================================================
