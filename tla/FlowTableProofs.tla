-------------------------- MODULE FlowTableProofs --------------------------
(***************************************************************************)
(* Proofs about FlowTable, for any number of rules, packets, modules and   *)
(* conversations: every packet of a rule is with each of its modules once, *)
(* measured or exported; the flows of a bidirectional rule are             *)
(* conversations with their directions; and a timeout exports idle flows,  *)
(* all of them and no others.                                              *)
(*                                                                         *)
(* The rules do not look at each other's flows, so the invariant is that   *)
(* of one rule, for every rule.                                            *)
(***************************************************************************)
EXTENDS FlowTable, TLAPS

Times == 0 .. MaxTime

\* The classifier reports no packet as reversed, or those of one direction.
BackwardSets == {{}, {k \in Keys : k.dir = 1}}

Flows == [key : Keys \cup {NoKey}, path : {1, 2}, lastPkt : Times, live : {Modules},
          data : [Modules -> SUBSET Packets], dirs : SUBSET ({0, 1} \X BOOLEAN)]
Entries == [kind : Kinds, mods : SUBSET Modules,
            state : {"known", "active", "removing", "gone"}, lastPkt : Times,
            flows : SUBSET Flows, counted : SUBSET Packets,
            exported : [Modules -> SUBSET Packets]]

\* The flows of a rule in each of its states: a key and a path lead to one.
FlowsDistinct(e) ==
    /\ e.state = "known" => e.counted = {} /\ e.exported = NoPackets
    /\ e.state \in {"known", "gone"} => e.flows = {} /\ e.lastPkt = 0
    /\ e.state \in {"active", "removing"} /\ ~PerFlow(e) =>
           \E f \in e.flows : e.flows = {f} /\ f.key = NoKey /\ f.path = 1
    /\ PerFlow(e) =>
           \A f \in e.flows :
              /\ f.key \in Keys
              /\ \A g \in e.flows : g.key = f.key /\ g.path = f.path => f = g

\* The modules that can be with a rule: one alone may end a flow.
ModulesFit(e) ==
    /\ ~PerFlow(e) => e.mods \cap Enders = {}
    /\ PerFlow(e) => \A m, n \in e.mods : m = n

\* Each module has the packets of the rule, in one place.
PacketsOnce(e) ==
    \A m \in e.mods :
        /\ e.counted = Measured(e, m) \cup e.exported[m]
        /\ e.state = "removing" => Measured(e, m) \subseteq e.exported[m]
        /\ e.state = "active" =>
              /\ Measured(e, m) \cap e.exported[m] = {}
              /\ \A f, g \in e.flows : f # g => f.data[m] \cap g.data[m] = {}

\* A rule's last packet is not older than its flows' last packets, nor newer
\* than the last packet of all.
LastPacket(e, last) ==
    /\ e.lastPkt <= last + 1
    /\ PerFlow(e) => \A f \in e.flows : f.lastPkt <= e.lastPkt
    /\ e.lastPkt = 0 => \A m \in e.mods : Measured(e, m) = {}

\* The flow of a conversation has the key of the packets that are told to be
\* forward, which the classifier, if it knows, says too; the second path has
\* the others.
Conversations(e, back) ==
    Bidir(e) =>
        /\ e.kind = "bidir" =>
              \A f \in e.flows : /\ f.path = 1
                                 /\ \A g \in e.flows : g.key.conv = f.key.conv => f = g
        /\ e.kind = "sep" => back = {}
        /\ \A f \in e.flows :
              /\ back # {} => f.key.dir = 0
              /\ f.dirs \subseteq {<<f.key.dir, FALSE>>, <<1 - f.key.dir, TRUE>>}
              /\ e.kind = "sep" =>
                    f.dirs \subseteq {IF f.path = 1 THEN <<f.key.dir, FALSE>>
                                                    ELSE <<1 - f.key.dir, TRUE>>}

\* What is true of a rule when n packets were seen, the last one at time last.
EntryOk(e, n, last, back) ==
    /\ e \in Entries
    /\ e.counted \subseteq 1 .. n
    /\ FlowsDistinct(e) /\ ModulesFit(e)
    /\ PacketsOnce(e) /\ LastPacket(e, last) /\ Conversations(e, back)

\* What the meter is in the middle of.
MeterInStep ==
    /\ \A r \in Rules : rules[r].state = "removing" => busy.at = "delete" /\ busy.rule = r
    /\ \/ busy = Free
       \/ /\ busy.at = "export" /\ busy.rule \in Rules /\ busy.time \in Times
          /\ rules[busy.rule].state = "active"
          /\ ~PerFlow(rules[busy.rule]) => Idle(rules[busy.rule], busy.time)
       \/ /\ busy.at = "delete" /\ busy.rule \in Rules
          /\ rules[busy.rule].state = "removing" /\ ~threaded

IInv ==
    /\ threaded \in BOOLEAN
    /\ backward \in BackwardSets
    /\ DOMAIN rules = Rules
    /\ seen \in 0 .. NPackets /\ now \in Times /\ lastTs \in 0 .. now
    /\ \A r \in Rules : EntryOk(rules[r], seen, lastTs, backward)
    /\ \A r \in Rules : ~PerFlow(rules[r]) => ~threaded
    /\ \A q, r \in Rules : Bidir(rules[q]) /\ Bidir(rules[r]) => q = r
    /\ MeterInStep

-----------------------------------------------------------------------------
LEMMA Bounds == MaxTime \in Nat /\ Timeout \in Nat \ {0} /\ NPackets \in Nat /\ NRules \in Nat \ {0}
BY FlowTableAssumption

LEMMA MeasuredIs ==
  ASSUME NEW e, NEW m, NEW x
  PROVE  x \in Measured(e, m) <=> \E f \in e.flows : x \in f.data[m]
BY DEF Measured

\* The types of a rule and its flows.
LEMMA EntryTypes ==
  ASSUME NEW e \in Entries
  PROVE  /\ e.kind \in Kinds /\ e.mods \subseteq Modules
         /\ e.state \in {"known", "active", "removing", "gone"}
         /\ e.lastPkt \in Times /\ e.flows \subseteq Flows
         /\ e.counted \subseteq Packets /\ e.exported \in [Modules -> SUBSET Packets]
         /\ e = [kind |-> e.kind, mods |-> e.mods, state |-> e.state,
                 lastPkt |-> e.lastPkt, flows |-> e.flows, counted |-> e.counted,
                 exported |-> e.exported]
BY DEF Entries

LEMMA FlowTypes ==
  ASSUME NEW f \in Flows
  PROVE  /\ f.key \in Keys \cup {NoKey} /\ f.path \in {1, 2} /\ f.lastPkt \in Times
         /\ f.live = Modules /\ f.data \in [Modules -> SUBSET Packets]
         /\ f.dirs \subseteq ({0, 1} \X BOOLEAN)
BY DEF Flows

LEMMA KeyTypes ==
  ASSUME NEW k \in Keys
  PROVE  /\ k.conv \in Convs /\ k.dir \in {0, 1} /\ Reversed(k) \in Keys
         /\ Reversed(k).conv = k.conv /\ Reversed(k).dir = 1 - k.dir
         /\ k = [conv |-> k.conv, dir |-> k.dir]
BY DEF Keys, Reversed

\* The keys of a conversation.
LEMMA TwoKeys ==
  ASSUME NEW k \in Keys, NEW l \in Keys, l.conv = k.conv
  PROVE  l = k \/ l = Reversed(k)
<1>1. l = [conv |-> l.conv, dir |-> l.dir] /\ l.dir \in {0, 1}
  BY KeyTypes
<1>2. k = [conv |-> k.conv, dir |-> k.dir] /\ k.dir \in {0, 1}
  BY KeyTypes
<1>3. /\ Reversed(k).conv = k.conv /\ Reversed(k).dir = 1 - k.dir
      /\ Reversed(k) = [conv |-> Reversed(k).conv, dir |-> Reversed(k).dir]
  BY KeyTypes
<1>4. l.dir = k.dir \/ l.dir = 1 - k.dir
  BY <1>1, <1>2
<1>. QED BY <1>1, <1>2, <1>3, <1>4

LEMMA NewFlowIs ==
  ASSUME NEW k \in Keys \cup {NoKey}, NEW path \in {1, 2}
  PROVE  /\ NewFlow(k, path) \in Flows
         /\ NewFlow(k, path).key = k /\ NewFlow(k, path).path = path
         /\ NewFlow(k, path).data = NoPackets /\ NewFlow(k, path).dirs = {}
         /\ NewFlow(k, path).lastPkt = 0 /\ NewFlow(k, path).live = Modules
<1>1. 0 \in Times
  BY Bounds DEF Times
<1>. QED BY <1>1 DEF NewFlow, Flows, NoPackets

\* Either the flow is in the table or it is new and its key and path are not.
InTableOrNew(e, f) ==
    \/ f \in e.flows
    \/ /\ f \in Flows /\ f.data = NoPackets /\ f.dirs = {}
       /\ \A g \in e.flows : g.key # f.key \/ g.path # f.path

LEMMA GetFlowIs ==
  ASSUME NEW e \in Entries, NEW k \in Keys \cup {NoKey}, NEW path \in {1, 2}
  PROVE  /\ GetFlow(e, k, path) \in Flows /\ InTableOrNew(e, GetFlow(e, k, path))
         /\ GetFlow(e, k, path).key = k /\ GetFlow(e, k, path).path = path
         /\ HasFlow(e, k, path) => GetFlow(e, k, path) \in e.flows
<1>1. CASE HasFlow(e, k, path)
  <2>1. /\ GetFlow(e, k, path) \in e.flows
        /\ GetFlow(e, k, path).key = k /\ GetFlow(e, k, path).path = path
    BY <1>1 DEF GetFlow, HasFlow
  <2>. QED BY <2>1, EntryTypes DEF InTableOrNew
<1>2. CASE ~HasFlow(e, k, path)
  <2>1. GetFlow(e, k, path) = NewFlow(k, path)
    BY <1>2 DEF GetFlow
  <2>. QED BY <1>2, <2>1, NewFlowIs DEF HasFlow, InTableOrNew
<1>. QED BY <1>1, <1>2

\* What Located gives for a rule that is in use: a flow and the direction told,
\* in accordance with Conversations.
LocatedFits(e, k, reverse, back, f, told) ==
    /\ f \in Flows /\ InTableOrNew(e, f) /\ told \in BOOLEAN
    /\ ~PerFlow(e) => f \in e.flows
    /\ PerFlow(e) => f.key \in Keys
    /\ e.kind = "bidir" =>
          f.path = 1 /\ \A g \in e.flows : g.key.conv = f.key.conv => g = f
    /\ Bidir(e) =>
          /\ back # {} => f.key.dir = 0
          /\ <<k.dir, told>> \in {<<f.key.dir, FALSE>>, <<1 - f.key.dir, TRUE>>}
          /\ e.kind = "sep" =>
                <<k.dir, told>> = IF f.path = 1 THEN <<f.key.dir, FALSE>>
                                                ELSE <<1 - f.key.dir, TRUE>>

LEMMA LocatedIs ==
  ASSUME NEW e \in Entries, NEW k \in Keys, NEW reverse \in BOOLEAN,
         NEW back \in BackwardSets,
         e.state \in {"active", "removing"}, FlowsDistinct(e), Conversations(e, back),
         Bidir(e) => (reverse <=> k \in back)
  PROVE  LocatedFits(e, k, reverse, back, Located(e, k, reverse).flow,
                     Located(e, k, reverse).reverse)
<1>1. k.dir \in {0, 1} /\ Reversed(k) \in Keys /\ Reversed(k).dir = 1 - k.dir
      /\ Reversed(k).conv = k.conv
  BY KeyTypes
<1>2. Bidir(e) => PerFlow(e)
  BY DEF Bidir, PerFlow
<1>3. PerFlow(e) => \A f \in e.flows : f.key \in Keys
  BY DEF FlowsDistinct
<1>4. CASE ~PerFlow(e)
  <2>1. PICK f \in e.flows : e.flows = {f} /\ f.key = NoKey /\ f.path = 1
    BY <1>4 DEF FlowsDistinct
  <2>2. HasFlow(e, NoKey, 1)
    BY <2>1 DEF HasFlow
  <2>3. /\ Located(e, k, reverse).flow = GetFlow(e, NoKey, 1)
        /\ Located(e, k, reverse).reverse = reverse
    BY <1>2, <1>4 DEF Located, OnlyReverse
  <2>4. e.kind = "plain" /\ ~Bidir(e)
    BY <1>2, <1>4 DEF PerFlow
  <2>5. GetFlow(e, NoKey, 1) \in Flows /\ GetFlow(e, NoKey, 1) \in e.flows
    BY <2>2, GetFlowIs
  <2>. QED BY <1>4, <2>3, <2>4, <2>5 DEF LocatedFits, InTableOrNew
<1>5. CASE PerFlow(e) /\ (HasFlow(e, k, 1) \/ ~Bidir(e))
  <2> DEFINE f == GetFlow(e, k, 1)
  <2>1. Located(e, k, reverse).flow = f /\ Located(e, k, reverse).reverse = reverse
    BY <1>5 DEF Located, OnlyReverse
  <2>2. /\ f \in Flows /\ InTableOrNew(e, f) /\ f.key = k /\ f.path = 1
        /\ Bidir(e) => f \in e.flows
    BY <1>5, GetFlowIs
  <2> HIDE DEF f
  <2>3. e.kind = "bidir" => \A g \in e.flows : g.key.conv = f.key.conv => g = f
    BY <2>2 DEF Conversations, Bidir
  <2>4. Bidir(e) => (back # {} => k.dir = 0)
    BY <2>2 DEF Conversations
  <2>5. Bidir(e) => reverse = FALSE
    BY <1>1, <2>4 DEF BackwardSets
  <2>6. Bidir(e) => <<k.dir, reverse>> = <<f.key.dir, FALSE>>
    BY <2>2, <2>5
  <2>. QED BY <1>1, <1>5, <2>1, <2>2, <2>3, <2>4, <2>6 DEF LocatedFits
<1>6. CASE OnlyReverse(e, k) /\ e.kind = "bidir"
  <2> DEFINE f == GetFlow(e, Reversed(k), 1)
  <2>0. Bidir(e) /\ PerFlow(e) /\ ~HasFlow(e, k, 1) /\ HasFlow(e, Reversed(k), 1)
    BY <1>2, <1>6 DEF OnlyReverse
  <2>1. Located(e, k, reverse).flow = f /\ Located(e, k, reverse).reverse = TRUE
    BY <1>6, <2>0 DEF Located
  <2>2. f \in Flows /\ f \in e.flows /\ f.key = Reversed(k) /\ f.path = 1
    BY <1>1, <2>0, GetFlowIs
  <2> HIDE DEF f
  <2>3. \A g \in e.flows : g.key.conv = f.key.conv => g = f
    BY <1>6, <2>0, <2>2 DEF Conversations
  <2>4. back # {} => f.key.dir = 0
    BY <2>0, <2>2 DEF Conversations
  <2>5. <<k.dir, TRUE>> = <<1 - f.key.dir, TRUE>>
    BY <1>1, <2>2
  <2>. QED BY <1>1, <1>6, <2>0, <2>1, <2>2, <2>3, <2>4, <2>5 DEF LocatedFits, InTableOrNew
<1>7. CASE OnlyReverse(e, k) /\ e.kind = "sep"
  <2> DEFINE f == GetFlow(e, Reversed(k), 2)
  <2>0. Bidir(e) /\ PerFlow(e) /\ ~HasFlow(e, k, 1) /\ HasFlow(e, Reversed(k), 1)
    BY <1>2, <1>7 DEF OnlyReverse
  <2>1. Located(e, k, reverse).flow = f /\ Located(e, k, reverse).reverse = TRUE
    BY <1>7, <2>0 DEF Located
  <2>2. f \in Flows /\ InTableOrNew(e, f) /\ f.key = Reversed(k) /\ f.path = 2
    BY <1>1, <2>0, GetFlowIs
  <2> HIDE DEF f
  <2>3. back = {}
    BY <1>7, <2>0 DEF Conversations
  <2>4. <<k.dir, TRUE>> = <<1 - f.key.dir, TRUE>>
    BY <1>1, <2>2
  <2>5. /\ f.key \in Keys /\ e.kind # "bidir"
        /\ <<k.dir, TRUE>> = IF f.path = 1 THEN <<f.key.dir, FALSE>>
                                          ELSE <<1 - f.key.dir, TRUE>>
    BY <1>1, <1>7, <2>2, <2>4
  <2>6. LocatedFits(e, k, reverse, back, f, TRUE)
    BY <2>0, <2>2, <2>3, <2>4, <2>5 DEF LocatedFits
  <2>. QED BY <2>1, <2>6
<1>8. CASE PerFlow(e) /\ Bidir(e) /\ ~HasFlow(e, k, 1) /\ ~OnlyReverse(e, k)
  <2> DEFINE l == IF reverse THEN Reversed(k) ELSE k
             f == NewFlow(l, 1)
  <2>0. ~HasFlow(e, Reversed(k), 1) /\ l \in Keys
    BY <1>1, <1>8 DEF OnlyReverse
  <2>1. Located(e, k, reverse).flow = f /\ Located(e, k, reverse).reverse = reverse
    BY <1>8 DEF Located
  <2> HIDE DEF l
  <2>2. f \in Flows /\ f.key = l /\ f.path = 1 /\ f.data = NoPackets /\ f.dirs = {}
    BY <2>0, NewFlowIs
  <2> HIDE DEF f
  <2>3. l \in {k, Reversed(k)} /\ l.conv = k.conv
    BY <1>1 DEF l
  <2>4. InTableOrNew(e, f)
    BY <1>8, <2>0, <2>2, <2>3 DEF InTableOrNew, HasFlow
  <2>5. ASSUME e.kind = "bidir", NEW g \in e.flows, g.key.conv = f.key.conv
        PROVE  FALSE
    <3>1. g.path = 1 /\ g.key \in Keys
      BY <1>3, <1>8, <2>5 DEF Conversations
    <3>2. g.key = k \/ g.key = Reversed(k)
      BY <2>2, <2>3, <2>5, <3>1, TwoKeys
    <3>. QED BY <1>8, <2>0, <3>1, <3>2 DEF HasFlow
  <2>6. reverse <=> k \in back
    BY <1>8
  <2>7. CASE reverse
    <3>1. l = Reversed(k) /\ k.dir = 1 /\ back # {} /\ reverse = TRUE
      BY <2>6, <2>7 DEF l, BackwardSets
    <3>2. e.kind # "sep"
      BY <1>8, <3>1 DEF Conversations
    <3>3. <<k.dir, reverse>> = <<1 - f.key.dir, TRUE>>
      BY <1>1, <2>2, <3>1
    <3>4. f.key.dir = 0
      BY <1>1, <2>2, <3>1
    <3>. QED BY <1>8, <2>0, <2>1, <2>2, <2>4, <2>5, <3>2, <3>3, <3>4 DEF LocatedFits
  <2>8. CASE ~reverse
    <3>1. l = k /\ reverse = FALSE /\ (back # {} => k.dir = 0)
      BY <1>1, <2>6, <2>8 DEF l, BackwardSets
    <3>2. <<k.dir, reverse>> = <<f.key.dir, FALSE>>
      BY <2>2, <3>1
    <3>. QED BY <1>8, <2>0, <2>1, <2>2, <2>4, <2>5, <3>1, <3>2 DEF LocatedFits
  <2>. QED BY <2>7, <2>8
<1>. QED BY <1>2, <1>4, <1>5, <1>6, <1>7, <1>8 DEF OnlyReverse, Bidir

-----------------------------------------------------------------------------
(* A packet is accounted to a rule. *)

\* What a module that does not end the flow makes of it.
LEMMA UpdatedIs ==
  ASSUME NEW e \in Entries, NEW f \in Flows, NEW p \in Packets, NEW k \in Keys,
         NEW ts \in Times, ts + 1 \in Times, NEW told \in BOOLEAN
  PROVE  LET g == Updated(e, f, p, k, ts, told, {})
         IN  /\ g \in Flows /\ g.key = f.key /\ g.path = f.path
             /\ g.lastPkt = IF PerFlow(e) THEN ts + 1 ELSE 0
             /\ \A m \in e.mods : g.data[m] = f.data[m] \cup {p}
             /\ g.dirs = f.dirs \cup {<<k.dir, told>>}
<1> DEFINE d == [m \in Modules |-> IF m \in e.mods \ {} THEN f.data[m] \cup {p} ELSE {}]
           l == IF PerFlow(e) THEN ts + 1 ELSE 0
           g == Updated(e, f, p, k, ts, told, {})
<1>1. f = [key |-> f.key, path |-> f.path, lastPkt |-> f.lastPkt, live |-> f.live,
           data |-> f.data, dirs |-> f.dirs]
  BY DEF Flows
<1>2. g = [key |-> f.key, path |-> f.path, lastPkt |-> l, live |-> f.live \ {},
           data |-> d, dirs |-> f.dirs \cup {<<k.dir, told>>}]
  <2>1. g = [f EXCEPT !.lastPkt = l, !.data = d, !.live = f.live \ {},
                      !.dirs = f.dirs \cup {<<k.dir, told>>}]
    BY DEF Updated
  <2> HIDE DEF l, d, g
  <2>2. DOMAIN f = {"key", "path", "lastPkt", "live", "data", "dirs"}
    BY <1>1
  <2>. QED BY <1>1, <2>1, <2>2
<1>3. d \in [Modules -> SUBSET Packets] /\ \A m \in e.mods : d[m] = f.data[m] \cup {p}
  BY EntryTypes, FlowTypes
<1>4. l \in Times
  BY Bounds DEF Times
<1>5. <<k.dir, told>> \in {0, 1} \X BOOLEAN
  BY KeyTypes
<1> HIDE DEF d, l, g
<1>6. g \in Flows
  BY <1>2, <1>3, <1>4, <1>5, FlowTypes DEF Flows
<1>7. /\ g.key = f.key /\ g.path = f.path /\ g.lastPkt = l /\ g.data = d
      /\ g.dirs = f.dirs \cup {<<k.dir, told>>}
  BY <1>2
<1>8. l = IF PerFlow(e) THEN ts + 1 ELSE 0
  BY DEF l
<1>. QED BY <1>3, <1>6, <1>7, <1>8 DEF g

\* The fields of the rule the packet is accounted to.
AccountedIs(e, a, f, g, p, ts, ends) ==
    /\ a.kind = e.kind /\ a.mods = e.mods /\ a.state = e.state
    /\ a.lastPkt = ts + 1
    /\ a.counted = e.counted \cup {p}
    /\ a.flows = (e.flows \ {f}) \cup (IF ends = {} THEN {g} ELSE {})
    /\ \A m \in Modules : a.exported[m] =
          IF m \in ends THEN e.exported[m] \cup f.data[m] \cup {p} ELSE e.exported[m]
    /\ a \in Entries

LEMMA AccountFields ==
  ASSUME NEW e \in Entries, NEW p \in Packets, NEW k \in Keys, NEW ts \in Times,
         ts + 1 \in Times, NEW reverse \in BOOLEAN, NEW ends \in SUBSET e.mods,
         ends # {} => PerFlow(e),
         NEW f \in Flows, NEW told \in BOOLEAN,
         f = Located(e, k, reverse).flow, told = Located(e, k, reverse).reverse
  PROVE  AccountedIs(e, Account(e, p, k, ts, reverse, ends), f,
                     Updated(e, f, p, k, ts, told, {}), p, ts, ends)
<1> DEFINE a == Account(e, p, k, ts, reverse, ends)
           F == (e.flows \ {f}) \cup (IF ends # {} /\ PerFlow(e) THEN {}
                                      ELSE {Updated(e, f, p, k, ts, told, ends)})
           x == Ended(e, f, p, ends)
<1>1. a = [kind |-> e.kind, mods |-> e.mods, state |-> e.state, lastPkt |-> ts + 1,
           flows |-> F, counted |-> e.counted \cup {p}, exported |-> x]
  <2>1. a = [e EXCEPT !.flows = F, !.lastPkt = ts + 1, !.counted = e.counted \cup {p},
                      !.exported = x]
    BY DEF Account
  <2> HIDE DEF F, a, x
  <2>2. e = [kind |-> e.kind, mods |-> e.mods, state |-> e.state, lastPkt |-> e.lastPkt,
             flows |-> e.flows, counted |-> e.counted, exported |-> e.exported]
    BY EntryTypes
  <2>. QED BY <2>1, <2>2
<1>2. F = (e.flows \ {f}) \cup (IF ends = {} THEN {Updated(e, f, p, k, ts, told, {})} ELSE {})
  BY DEF F
<1>3. Updated(e, f, p, k, ts, told, {}) \in Flows
  BY UpdatedIs
<1>4. /\ x \in [Modules -> SUBSET Packets]
      /\ \A m \in Modules : x[m] = IF m \in ends THEN e.exported[m] \cup f.data[m] \cup {p}
                                   ELSE e.exported[m]
  BY EntryTypes, FlowTypes DEF Ended
<1>5. F \subseteq Flows
  BY <1>2, <1>3, EntryTypes
<1> HIDE DEF a, F, x
<1>6. a \in Entries
  BY <1>1, <1>4, <1>5, EntryTypes DEF Entries
<1>7. /\ a.kind = e.kind /\ a.mods = e.mods /\ a.state = e.state
      /\ a.lastPkt = ts + 1 /\ a.counted = e.counted \cup {p} /\ a.flows = F
      /\ a.exported = x
  BY <1>1
<1>. QED BY <1>2, <1>4, <1>6, <1>7 DEF AccountedIs, a

LEMMA AccountKeeps ==
  ASSUME NEW e, NEW n \in Nat, n + 1 \in Packets, NEW last \in Times,
         NEW back \in BackwardSets,
         EntryOk(e, n, last, back), e.state = "active",
         NEW k \in Keys, NEW ts \in Times, last <= ts, ts + 1 \in Times,
         NEW reverse \in BOOLEAN, Bidir(e) => (reverse <=> k \in back),
         NEW ends \in SUBSET (e.mods \cap Enders)
  PROVE  EntryOk(Account(e, n + 1, k, ts, reverse, ends), n + 1, ts, back)
<1> DEFINE p == n + 1
           f == Located(e, k, reverse).flow
           told == Located(e, k, reverse).reverse
           g == Updated(e, f, p, k, ts, told, {})
           a == Account(e, p, k, ts, reverse, ends)
<1>1. /\ e \in Entries /\ e.counted \subseteq 1 .. n /\ FlowsDistinct(e) /\ ModulesFit(e)
      /\ PacketsOnce(e) /\ LastPacket(e, last) /\ Conversations(e, back)
  BY DEF EntryOk
<1>2. LocatedFits(e, k, reverse, back, f, told)
  BY <1>1, LocatedIs
<1>3. ends # {} => PerFlow(e) /\ ends = e.mods
  BY <1>1 DEF ModulesFit
<1>4. f \in Flows /\ told \in BOOLEAN
  BY <1>2 DEF LocatedFits
<1>5. AccountedIs(e, a, f, g, p, ts, ends)
  BY <1>1, <1>3, <1>4, AccountFields
<1>6. /\ g \in Flows /\ g.key = f.key /\ g.path = f.path
      /\ g.lastPkt = IF PerFlow(e) THEN ts + 1 ELSE 0
      /\ \A m \in e.mods : g.data[m] = f.data[m] \cup {p}
      /\ g.dirs = f.dirs \cup {<<k.dir, told>>}
  BY <1>1, <1>4, UpdatedIs
<1> HIDE DEF f, told, g, a
<1>7. /\ a.kind = e.kind /\ a.mods = e.mods /\ a.state = "active"
      /\ a.lastPkt = ts + 1
      /\ a.counted = e.counted \cup {p}
      /\ ends = {} => a.flows = (e.flows \ {f}) \cup {g}
      /\ ends # {} => a.flows = e.flows \ {f}
      /\ \A m \in e.mods : a.exported[m] =
            IF m \in ends THEN e.exported[m] \cup f.data[m] \cup {p} ELSE e.exported[m]
      /\ a \in Entries /\ (PerFlow(a) <=> PerFlow(e)) /\ (Bidir(a) <=> Bidir(e))
  BY <1>1, <1>5, EntryTypes DEF AccountedIs, PerFlow, Bidir
<1>8. /\ InTableOrNew(e, f)
      /\ ~PerFlow(e) => f \in e.flows
      /\ PerFlow(e) => f.key \in Keys
  BY <1>2 DEF LocatedFits
<1>9. ModulesFit(a)
  BY <1>1, <1>7 DEF ModulesFit
<1>10. FlowsDistinct(a)
  <2>1. ASSUME ~PerFlow(e) PROVE \E h \in a.flows : a.flows = {h} /\ h.key = NoKey /\ h.path = 1
    <3>1. e.flows = {f} /\ f.key = NoKey /\ f.path = 1
      BY <1>1, <1>8, <2>1 DEF FlowsDistinct
    <3>. QED BY <1>3, <1>6, <1>7, <2>1, <3>1
  <2>2. ASSUME PerFlow(e), NEW h \in a.flows
        PROVE  /\ h.key \in Keys
               /\ \A i \in a.flows : i.key = h.key /\ i.path = h.path => h = i
    <3>1. /\ h.key \in Keys
          /\ \A i \in e.flows : i # f => i.key # f.key \/ i.path # f.path
          /\ \A i, j \in e.flows : i.key = j.key /\ i.path = j.path => i = j
      BY <1>1, <1>6, <1>7, <1>8, <2>2 DEF FlowsDistinct, InTableOrNew
    <3>2. \A i \in a.flows : i = g \/ i \in e.flows \ {f}
      BY <1>7
    <3>. QED BY <1>6, <2>2, <3>1, <3>2
  <2>. QED BY <1>7, <2>1, <2>2 DEF FlowsDistinct
<1>11. ASSUME NEW m \in e.mods
       PROVE  /\ a.counted = Measured(a, m) \cup a.exported[m]
              /\ Measured(a, m) \cap a.exported[m] = {}
              /\ \A h, i \in a.flows : h # i => h.data[m] \cap i.data[m] = {}
  <2>1. /\ e.counted = Measured(e, m) \cup e.exported[m]
        /\ Measured(e, m) \cap e.exported[m] = {}
        /\ \A h, i \in e.flows : h # i => h.data[m] \cap i.data[m] = {}
    BY <1>1 DEF PacketsOnce
  <2>2. p \notin e.counted
    BY <1>1
  <2>3. m \in Modules
    BY <1>1, EntryTypes
  <2>4. f \in e.flows \/ f.data[m] = {}
    BY <1>8, <2>3 DEF InTableOrNew, NoPackets
  <2>5. \A h \in e.flows : h # f => h.data[m] \cap f.data[m] = {}
    BY <2>1, <2>4
  <2>6. \A h \in e.flows : h.data[m] \subseteq e.counted
    BY <2>1, MeasuredIs
  <2>7. f.data[m] \subseteq e.counted /\ f.data[m] \cap e.exported[m] = {}
    BY <2>1, <2>4, MeasuredIs
  <2>8. CASE ends = {}
    <3>1. a.flows = (e.flows \ {f}) \cup {g} /\ a.exported[m] = e.exported[m]
          /\ g.data[m] = f.data[m] \cup {p} /\ a.counted = e.counted \cup {p}
      BY <1>6, <1>7, <2>8
    <3>2. Measured(a, m) = Measured(e, m) \cup {p}
      <4>1. ASSUME NEW x PROVE x \in Measured(a, m) <=> x \in Measured(e, m) \/ x = p
        BY <2>4, <3>1, MeasuredIs
      <4>. QED BY <4>1
    <3>3. \A h, i \in a.flows : h # i => h.data[m] \cap i.data[m] = {}
      BY <2>1, <2>2, <2>5, <2>6, <3>1
    <3>. QED BY <2>1, <2>2, <3>1, <3>2, <3>3
  <2>9. CASE ends # {}
    <3>1. a.flows = e.flows \ {f} /\ a.exported[m] = e.exported[m] \cup f.data[m] \cup {p}
          /\ a.counted = e.counted \cup {p}
      BY <1>3, <1>7, <2>9
    <3>2. \A x : x \in Measured(a, m) <=> x \in Measured(e, m) /\ x \notin f.data[m]
      <4>1. ASSUME NEW x PROVE x \in Measured(a, m) <=> x \in Measured(e, m) /\ x \notin f.data[m]
        BY <2>4, <2>5, <3>1, MeasuredIs
      <4>. QED BY <4>1
    <3>3. f.data[m] \subseteq Measured(e, m)
      BY <2>4, MeasuredIs
    <3>. QED BY <2>1, <2>2, <3>1, <3>2, <3>3
  <2>. QED BY <2>8, <2>9
<1>12. PacketsOnce(a)
  BY <1>7, <1>11 DEF PacketsOnce
<1>13. LastPacket(a, ts)
  <2>1. last \in Nat /\ ts \in Nat
    BY Bounds DEF Times
  <2>2. ASSUME PerFlow(e), NEW h \in e.flows PROVE h.lastPkt <= ts + 1
    <3>1. h.lastPkt <= e.lastPkt /\ e.lastPkt <= last + 1
      BY <1>1, <2>2 DEF LastPacket
    <3>2. h.lastPkt \in Nat /\ e.lastPkt \in Nat
      BY <1>1, <2>2, EntryTypes, FlowTypes, Bounds DEF Times
    <3>. QED BY <2>1, <3>1, <3>2
  <2>3. PerFlow(e) => g.lastPkt <= ts + 1
    BY <1>6, <2>1
  <2>4. \A h \in a.flows : h = g \/ h \in e.flows
    BY <1>7
  <2>5. ts + 1 <= ts + 1 /\ ts + 1 # 0
    BY <2>1
  <2>. QED BY <1>7, <2>2, <2>3, <2>4, <2>5 DEF LastPacket
<1>14. Conversations(a, back)
  <2> SUFFICES ASSUME Bidir(e) PROVE Conversations(a, back)
    BY <1>7 DEF Conversations
  <2>1. \A h \in a.flows : h = g \/ h \in e.flows \ {f}
    BY <1>7
  <2>2. /\ e.kind = "bidir" =>
              f.path = 1 /\ \A h \in e.flows : h.key.conv = f.key.conv => h = f
        /\ back # {} => f.key.dir = 0
        /\ <<k.dir, told>> \in {<<f.key.dir, FALSE>>, <<1 - f.key.dir, TRUE>>}
        /\ e.kind = "sep" =>
              <<k.dir, told>> = IF f.path = 1 THEN <<f.key.dir, FALSE>>
                                              ELSE <<1 - f.key.dir, TRUE>>
    BY <1>2 DEF LocatedFits
  <2>3. /\ e.kind = "bidir" =>
              \A h \in e.flows : /\ h.path = 1
                                 /\ \A i \in e.flows : i.key.conv = h.key.conv => h = i
        /\ e.kind = "sep" => back = {}
        /\ \A h \in e.flows :
              /\ back # {} => h.key.dir = 0
              /\ h.dirs \subseteq {<<h.key.dir, FALSE>>, <<1 - h.key.dir, TRUE>>}
              /\ e.kind = "sep" =>
                    h.dirs \subseteq {IF h.path = 1 THEN <<h.key.dir, FALSE>>
                                                    ELSE <<1 - h.key.dir, TRUE>>}
    BY <1>1 DEF Conversations
  <2>4. e.kind = "bidir" =>
          \A h \in a.flows : /\ h.path = 1
                             /\ \A i \in a.flows : i.key.conv = h.key.conv => h = i
    BY <1>6, <2>1, <2>2, <2>3
  <2>5. f.dirs = {} \/ f \in e.flows
    BY <1>8 DEF InTableOrNew
  <2>6. /\ f.dirs \subseteq {<<f.key.dir, FALSE>>, <<1 - f.key.dir, TRUE>>}
        /\ e.kind = "sep" =>
              f.dirs \subseteq {IF f.path = 1 THEN <<f.key.dir, FALSE>>
                                              ELSE <<1 - f.key.dir, TRUE>>}
    BY <2>3, <2>5
  <2>7. /\ back # {} => g.key.dir = 0
        /\ g.dirs \subseteq {<<g.key.dir, FALSE>>, <<1 - g.key.dir, TRUE>>}
        /\ e.kind = "sep" =>
              g.dirs \subseteq {IF g.path = 1 THEN <<g.key.dir, FALSE>>
                                              ELSE <<1 - g.key.dir, TRUE>>}
    BY <1>6, <2>2, <2>6
  <2>8. \A h \in a.flows :
           /\ back # {} => h.key.dir = 0
           /\ h.dirs \subseteq {<<h.key.dir, FALSE>>, <<1 - h.key.dir, TRUE>>}
           /\ e.kind = "sep" =>
                 h.dirs \subseteq {IF h.path = 1 THEN <<h.key.dir, FALSE>>
                                                 ELSE <<1 - h.key.dir, TRUE>>}
    BY <2>1, <2>3, <2>7
  <2>. QED BY <1>7, <2>3, <2>4, <2>8 DEF Conversations
<1>15. a.counted \subseteq 1 .. n + 1
  BY <1>1, <1>7
<1>16. EntryOk(a, n + 1, ts, back)
  BY <1>7, <1>9, <1>10, <1>12, <1>13, <1>14, <1>15 DEF EntryOk
<1>. QED BY <1>16 DEF a

-----------------------------------------------------------------------------
(* The other calls, for one rule. *)

\* A later packet of other rules.
LEMMA LaterKeeps ==
  ASSUME NEW e, NEW n \in Nat, NEW last \in Times, NEW back,
         EntryOk(e, n, last, back), NEW ts \in Times, last <= ts
  PROVE  EntryOk(e, n + 1, ts, back)
<1>1. e.lastPkt \in Nat /\ last \in Nat /\ ts \in Nat
  BY EntryTypes, Bounds DEF EntryOk, Times
<1>2. LastPacket(e, ts)
  BY <1>1 DEF EntryOk, LastPacket
<1>. QED BY <1>2 DEF EntryOk

LEMMA NewRuleOk ==
  ASSUME NEW kind \in Kinds, NEW mods \in SUBSET Modules, NEW back,
         kind = "plain" => mods \cap Enders = {},
         kind # "plain" => \A m, n \in mods : m = n,
         kind = "sep" => back = {}
  PROVE  EntryOk(NewRule(kind, mods), 0, 0, back)
<1> DEFINE e == NewRule(kind, mods)
<1>1. /\ e.kind = kind /\ e.mods = mods /\ e.state = "known" /\ e.lastPkt = 0
      /\ e.flows = {} /\ e.counted = {} /\ e.exported = NoPackets
      /\ e \in Entries
  <2>1. 0 \in Times /\ NoPackets \in [Modules -> SUBSET Packets]
    BY Bounds DEF Times, NoPackets
  <2>. QED BY <2>1 DEF NewRule, Entries
<1> HIDE DEF e
<1>2. \A m \in mods : Measured(e, m) = {} /\ e.exported[m] = {}
  BY <1>1, MeasuredIs DEF NoPackets
<1>3. FlowsDistinct(e) /\ ModulesFit(e)
  BY <1>1 DEF FlowsDistinct, ModulesFit, PerFlow
<1>4. PacketsOnce(e) /\ LastPacket(e, 0)
  BY <1>1, <1>2 DEF PacketsOnce, LastPacket
<1>5. Conversations(e, back)
  BY <1>1 DEF Conversations
<1>6. EntryOk(e, 0, 0, back)
  BY <1>1, <1>3, <1>4, <1>5 DEF EntryOk
<1>. QED BY <1>6 DEF e

LEMMA ActivatedKeeps ==
  ASSUME NEW e, NEW n \in Nat, NEW last \in Times, NEW back,
         EntryOk(e, n, last, back), e.state = "known"
  PROVE  EntryOk(Activated(e), n, last, back) /\ Activated(e).state = "active"
         /\ Activated(e).kind = e.kind
<1> DEFINE a == Activated(e)
           F == IF PerFlow(e) THEN {} ELSE {NewFlow(NoKey, 1)}
<1>1. /\ e \in Entries /\ e.counted \subseteq 1 .. n /\ FlowsDistinct(e) /\ ModulesFit(e)
      /\ PacketsOnce(e) /\ LastPacket(e, last)
  BY DEF EntryOk
<1>2. /\ NewFlow(NoKey, 1) \in Flows /\ NewFlow(NoKey, 1).key = NoKey
      /\ NewFlow(NoKey, 1).path = 1 /\ NewFlow(NoKey, 1).data = NoPackets
  BY NewFlowIs
<1>3. F \subseteq Flows
  BY <1>2
<1>4. /\ a.kind = e.kind /\ a.mods = e.mods /\ a.state = "active" /\ a.lastPkt = e.lastPkt
      /\ a.flows = F /\ a.counted = e.counted /\ a.exported = e.exported
      /\ a \in Entries
  <2>1. a = [e EXCEPT !.state = "active", !.flows = F]
    BY DEF Activated
  <2> HIDE DEF a, F
  <2>. QED BY <1>1, <1>3, <2>1 DEF Entries
<1> HIDE DEF a
<1>5. e.counted = {} /\ e.exported = NoPackets /\ e.lastPkt = 0
  BY <1>1 DEF FlowsDistinct
<1>6. \A m \in e.mods : Measured(a, m) = {} /\ a.exported[m] = {}
  <2>1. e.mods \subseteq Modules
    BY <1>1, EntryTypes
  <2>2. \A f \in F : f.data = NoPackets
    BY <1>2
  <2>. QED BY <1>4, <1>5, <2>1, <2>2, MeasuredIs DEF NoPackets
<1>7. (PerFlow(a) <=> PerFlow(e)) /\ (Bidir(a) <=> Bidir(e)) /\ (Bidir(e) => PerFlow(e))
  BY <1>4 DEF PerFlow, Bidir
<1>8. FlowsDistinct(a) /\ ModulesFit(a)
  BY <1>1, <1>2, <1>4, <1>7 DEF FlowsDistinct, ModulesFit
<1>9. PacketsOnce(a)
  <2>1. \A f, g \in F : f = g
    OBVIOUS
  <2>. QED BY <1>4, <1>5, <1>6, <2>1 DEF PacketsOnce
<1>10. LastPacket(a, last)
  BY <1>1, <1>4, <1>6, <1>7 DEF LastPacket
<1>11. Conversations(a, back)
  BY <1>4, <1>7 DEF Conversations, EntryOk
<1>12. EntryOk(a, n, last, back)
  BY <1>1, <1>4, <1>8, <1>9, <1>10, <1>11 DEF EntryOk
<1>. QED BY <1>4, <1>12 DEF a

LEMMA DeletedKeeps ==
  ASSUME NEW e, NEW n \in Nat, NEW last \in Times, NEW back,
         EntryOk(e, n, last, back), e.state = "removing"
  PROVE  EntryOk(Deleted(e), n, last, back) /\ Deleted(e).state = "gone"
         /\ Deleted(e).kind = e.kind
<1> DEFINE a == Deleted(e)
<1>1. /\ e \in Entries /\ e.counted \subseteq 1 .. n /\ FlowsDistinct(e) /\ ModulesFit(e)
      /\ PacketsOnce(e)
  BY DEF EntryOk
<1>2. /\ a.kind = e.kind /\ a.mods = e.mods /\ a.state = "gone" /\ a.lastPkt = 0
      /\ a.flows = {} /\ a.counted = e.counted /\ a.exported = e.exported
      /\ a \in Entries
  <2>1. 0 \in Times
    BY Bounds DEF Times
  <2>. QED BY <1>1, <2>1 DEF Deleted, Entries
<1> HIDE DEF a
<1>3. \A m \in e.mods : Measured(a, m) = {} /\ e.counted = e.exported[m]
  <2>1. \A m \in e.mods : Measured(a, m) = {}
    BY <1>2, MeasuredIs
  <2>2. \A m \in e.mods : e.counted = e.exported[m]
    BY <1>1 DEF PacketsOnce
  <2>. QED BY <2>1, <2>2
<1>4. FlowsDistinct(a) /\ ModulesFit(a)
  BY <1>1, <1>2 DEF FlowsDistinct, ModulesFit, PerFlow
<1>5. PacketsOnce(a)
  BY <1>2, <1>3 DEF PacketsOnce
<1>6. LastPacket(a, last)
  <2>1. last \in Nat
    BY Bounds DEF Times
  <2>. QED BY <1>2, <1>3, <2>1 DEF LastPacket
<1>7. Conversations(a, back)
  BY <1>2 DEF Conversations, Bidir, EntryOk
<1>8. EntryOk(a, n, last, back)
  BY <1>1, <1>2, <1>4, <1>5, <1>6, <1>7 DEF EntryOk
<1>. QED BY <1>2, <1>8 DEF a

LEMMA CollectedIs ==
  ASSUME NEW e \in Entries, NEW F \in SUBSET e.flows
  PROVE  /\ Collected(e, F) \in [Modules -> SUBSET Packets]
         /\ \A m \in Modules : \A x :
               x \in Collected(e, F)[m] <=>
                  x \in e.exported[m] \/ \E f \in F : x \in f.data[m]
<1>1. \A f \in F : f.data \in [Modules -> SUBSET Packets]
  BY EntryTypes, FlowTypes
<1>2. \A m \in Modules : Collected(e, F)[m] = e.exported[m] \cup UNION {f.data[m] : f \in F}
  BY DEF Collected
<1>3. \A m \in Modules : UNION {f.data[m] : f \in F} \subseteq Packets
  BY <1>1
<1>. QED BY <1>2, <1>3, EntryTypes DEF Collected

\* The last record of a rule has all that is measured.
LEMMA ExportAllKeeps ==
  ASSUME NEW e, NEW n \in Nat, NEW last \in Times, NEW back,
         EntryOk(e, n, last, back), e.state = "active"
  PROVE  /\ EntryOk(ExportAll(e), n, last, back) /\ ExportAll(e).state = "removing"
         /\ ExportAll(e).kind = e.kind
<1> DEFINE a == ExportAll(e)
           x == Collected(e, e.flows)
<1>1. /\ e \in Entries /\ e.counted \subseteq 1 .. n /\ FlowsDistinct(e) /\ ModulesFit(e)
      /\ PacketsOnce(e) /\ LastPacket(e, last) /\ Conversations(e, back)
  BY DEF EntryOk
<1>2. /\ x \in [Modules -> SUBSET Packets]
      /\ \A m \in Modules : x[m] = e.exported[m] \cup Measured(e, m)
  <2>1. x \in [Modules -> SUBSET Packets]
    BY <1>1, CollectedIs
  <2>2. \A m \in Modules : x[m] = e.exported[m] \cup Measured(e, m)
    BY DEF Collected, Measured
  <2>. QED BY <2>1, <2>2
<1> HIDE DEF x
<1>3. /\ a.kind = e.kind /\ a.mods = e.mods /\ a.state = "removing" /\ a.lastPkt = e.lastPkt
      /\ a.flows = e.flows /\ a.counted = e.counted /\ a.exported = x
      /\ a \in Entries
  BY <1>1, <1>2 DEF ExportAll, Entries, x
<1> HIDE DEF a
<1>4. \A m \in e.mods : Measured(a, m) = Measured(e, m)
  BY <1>3 DEF Measured
<1>5. FlowsDistinct(a) /\ ModulesFit(a)
  BY <1>1, <1>3 DEF FlowsDistinct, ModulesFit, PerFlow
<1>6. PacketsOnce(a)
  BY <1>1, <1>2, <1>3, <1>4, EntryTypes DEF PacketsOnce
<1>7. LastPacket(a, last) /\ Conversations(a, back)
  BY <1>1, <1>3, <1>4 DEF LastPacket, Conversations, PerFlow, Bidir
<1>8. EntryOk(a, n, last, back)
  BY <1>1, <1>3, <1>5, <1>6, <1>7 DEF EntryOk
<1>. QED BY <1>3, <1>8 DEF a

\* An idle flow is exported and gone; if the rule is idle, all its flows are.
LEMMA ExportIdleKeeps ==
  ASSUME NEW e, NEW n \in Nat, NEW last \in Times, NEW back, NEW t \in Times,
         EntryOk(e, n, last, back), e.state = "active",
         ~PerFlow(e) => Idle(e, t)
  PROVE  /\ EntryOk(ExportIdle(e, t), n, last, back) /\ ExportIdle(e, t).state = "active"
         /\ ExportIdle(e, t).kind = e.kind
<1> DEFINE a == ExportIdle(e, t)
           F == IF PerFlow(e) THEN {f \in e.flows : Idle(f, t)} ELSE e.flows
           G == IF PerFlow(e) THEN e.flows \ F ELSE {NewFlow(NoKey, 1)}
           x == Collected(e, F)
           l == IF Idle(e, t) THEN 0 ELSE e.lastPkt
<1>1. /\ e \in Entries /\ e.counted \subseteq 1 .. n /\ FlowsDistinct(e) /\ ModulesFit(e)
      /\ PacketsOnce(e) /\ LastPacket(e, last) /\ Conversations(e, back)
  BY DEF EntryOk
<1>2. /\ NewFlow(NoKey, 1) \in Flows /\ NewFlow(NoKey, 1).key = NoKey
      /\ NewFlow(NoKey, 1).path = 1 /\ NewFlow(NoKey, 1).data = NoPackets
  BY NewFlowIs
<1>3. /\ F \in SUBSET e.flows /\ G \subseteq Flows /\ l \in Times
      /\ PerFlow(e) => G = e.flows \ F
      /\ ~PerFlow(e) => F = e.flows /\ G = {NewFlow(NoKey, 1)} /\ l = 0
  <2>1. l \in Times
    BY <1>1, EntryTypes, Bounds DEF Times
  <2>. QED BY <1>1, <1>2, <2>1, EntryTypes
<1>4. PerFlow(e) /\ Idle(e, t) => G = {}
  <2>1. ASSUME PerFlow(e), Idle(e, t), NEW f \in e.flows PROVE Idle(f, t)
    <3>1. f.lastPkt <= e.lastPkt
      BY <1>1, <2>1 DEF LastPacket
    <3>2. f.lastPkt \in Nat /\ e.lastPkt \in Nat /\ t \in Nat /\ Timeout \in Nat
      BY <1>1, EntryTypes, FlowTypes, Bounds DEF Times
    <3>. QED BY <2>1, <3>1, <3>2 DEF Idle
  <2>. QED BY <2>1
<1>5. /\ x \in [Modules -> SUBSET Packets]
      /\ \A m \in Modules : \A p :
            p \in x[m] <=> p \in e.exported[m] \/ \E f \in F : p \in f.data[m]
  BY <1>1, <1>3, CollectedIs
<1>6. PerFlow(e) => l = e.lastPkt \/ (l = 0 /\ G = {})
  BY <1>4
<1> HIDE DEF x, F, G, l
<1>7. /\ a.kind = e.kind /\ a.mods = e.mods /\ a.state = "active" /\ a.lastPkt = l
      /\ a.flows = G /\ a.counted = e.counted /\ a.exported = x
      /\ a \in Entries
  <2>1. a = [e EXCEPT !.exported = x, !.flows = G, !.lastPkt = l]
    BY DEF ExportIdle, x, F, G, l
  <2> HIDE DEF a
  <2>. QED BY <1>1, <1>3, <1>5, <2>1 DEF Entries
<1> HIDE DEF a
<1>8. (PerFlow(a) <=> PerFlow(e)) /\ (Bidir(a) <=> Bidir(e)) /\ (Bidir(e) => PerFlow(e))
  BY <1>7 DEF PerFlow, Bidir
<1>9. FlowsDistinct(a) /\ ModulesFit(a)
  BY <1>1, <1>2, <1>3, <1>7, <1>8 DEF FlowsDistinct, ModulesFit
<1>10. ASSUME NEW m \in e.mods
       PROVE  /\ e.counted = Measured(a, m) \cup x[m]
              /\ Measured(a, m) \cap x[m] = {}
              /\ \A f, g \in G : f # g => f.data[m] \cap g.data[m] = {}
              /\ Measured(a, m) \subseteq Measured(e, m)
              /\ ~PerFlow(e) => Measured(a, m) = {}
  <2>1. /\ e.counted = Measured(e, m) \cup e.exported[m]
        /\ Measured(e, m) \cap e.exported[m] = {}
        /\ \A h, i \in e.flows : h # i => h.data[m] \cap i.data[m] = {}
    BY <1>1 DEF PacketsOnce
  <2>2. m \in Modules
    BY <1>1, EntryTypes
  <2>3. \A p : p \in x[m] <=> p \in e.exported[m] \/ \E f \in F : p \in f.data[m]
    BY <1>5, <2>2
  <2>4. CASE PerFlow(e)
    <3>1. G = e.flows \ F /\ F \subseteq e.flows
      BY <1>3, <2>4
    <3>2. \A p : /\ p \in Measured(a, m) <=> \E f \in e.flows \ F : p \in f.data[m]
                 /\ p \in Measured(e, m) <=> \E f \in e.flows : p \in f.data[m]
      BY <1>7, <3>1, MeasuredIs
    <3>. QED BY <2>1, <2>3, <2>4, <3>1, <3>2
  <2>5. CASE ~PerFlow(e)
    <3>1. Measured(a, m) = {}
      BY <1>2, <1>3, <1>7, <2>2, <2>5, MeasuredIs DEF NoPackets
    <3>2. F = e.flows /\ \A f, g \in G : f = g
      BY <1>3, <2>5
    <3>3. \A p : p \in Measured(e, m) <=> \E f \in e.flows : p \in f.data[m]
      BY MeasuredIs
    <3>. QED BY <2>1, <2>3, <3>1, <3>2, <3>3
  <2>. QED BY <2>4, <2>5
<1>11. PacketsOnce(a)
  BY <1>7, <1>10 DEF PacketsOnce
<1>12. LastPacket(a, last)
  <2>1. last \in Nat
    BY Bounds DEF Times
  <2>2. /\ e.lastPkt <= last + 1
        /\ PerFlow(e) => \A f \in e.flows : f.lastPkt <= e.lastPkt
        /\ e.lastPkt = 0 => \A m \in e.mods : Measured(e, m) = {}
    BY <1>1 DEF LastPacket
  <2>3. CASE PerFlow(e) /\ l = e.lastPkt
    <3>1. l = 0 => \A m \in e.mods : Measured(a, m) = {}
      BY <1>10, <2>2, <2>3
    <3>2. \A f \in G : f.lastPkt <= l
      BY <1>3, <2>2, <2>3
    <3>. QED BY <1>7, <2>2, <2>3, <3>1, <3>2 DEF LastPacket
  <2>4. CASE PerFlow(e) /\ l = 0 /\ G = {}
    <3>1. \A m \in e.mods : Measured(a, m) = {}
      BY <1>7, <2>4, MeasuredIs
    <3>. QED BY <1>7, <2>1, <2>4, <3>1 DEF LastPacket
  <2>5. CASE ~PerFlow(e)
    BY <1>3, <1>7, <1>8, <1>10, <2>1, <2>5 DEF LastPacket
  <2>. QED BY <1>6, <2>3, <2>4, <2>5
<1>13. Conversations(a, back)
  <2>1. CASE Bidir(e)
    <3>1. \A f \in a.flows : f \in e.flows
      BY <1>3, <1>7, <1>8, <2>1
    <3>. QED BY <1>1, <1>7, <1>8, <2>1, <3>1 DEF Conversations
  <2>2. CASE ~Bidir(e)
    BY <1>8, <2>2 DEF Conversations
  <2>. QED BY <2>1, <2>2
<1>14. EntryOk(a, n, last, back)
  BY <1>1, <1>7, <1>9, <1>11, <1>12, <1>13 DEF EntryOk
<1>. QED BY <1>7, <1>14 DEF a

-----------------------------------------------------------------------------
(* The invariant. *)

LEMMA InitInvariant == ASSUME Exposed = {}, Init PROVE IInv
<1>1. PICK ks \in [Rules -> Kinds], ms \in [Rules -> SUBSET Modules] :
        /\ KindsTogether(ks)
        /\ \A r \in Rules : ~(ks[r] = "plain" /\ threaded)
        /\ \A r \in Rules : ms[r] \in ModuleSets(ks[r])
        /\ rules = [r \in Rules |-> NewRule(ks[r], ms[r])]
  BY DEF Init
<1>2. /\ threaded \in BOOLEAN /\ backward \in BackwardSets
      /\ seen = 0 /\ now = 0 /\ lastTs = 0 /\ busy = Free
      /\ \A r \in Rules : rules[r].kind = "sep" => backward = {}
  BY DEF Init, BackwardSets
<1>3. DOMAIN rules = Rules /\ \A r \in Rules : rules[r] = NewRule(ks[r], ms[r])
  BY <1>1
<1>4. \A r \in Rules : rules[r].kind = ks[r] /\ rules[r].state = "known"
  BY <1>3 DEF NewRule
<1>5. ASSUME NEW r \in Rules PROVE EntryOk(rules[r], 0, 0, backward)
  <2>1. ms[r] \in ModuleSets(ks[r])
    BY <1>1
  <2>2. /\ ks[r] = "plain" => ms[r] \cap Enders = {}
        /\ ks[r] # "plain" => \A m, n \in ms[r] : m = n
    BY <2>1 DEF ModuleSets
  <2>. QED BY <1>1, <1>2, <1>3, <1>4, <2>2, NewRuleOk
<1>6. 0 \in 0 .. NPackets /\ 0 \in Times /\ 0 \in 0 .. 0
  BY Bounds DEF Times
<1>7. \A q, r \in Rules : Bidir(rules[q]) /\ Bidir(rules[r]) => q = r
  BY <1>1, <1>4 DEF KindsTogether, Bidir
<1>8. \A r \in Rules : ~PerFlow(rules[r]) => ~threaded
  BY <1>1, <1>4 DEF PerFlow
<1>9. MeterInStep
  BY <1>2, <1>4 DEF MeterInStep
<1>. QED BY <1>2, <1>3, <1>5, <1>6, <1>7, <1>8, <1>9 DEF IInv

\* The part of the invariant that is about the kinds of the rules.
LEMMA SameKinds ==
  ASSUME IInv, UNCHANGED <<threaded, backward>>,
         \A r \in Rules : rules'[r].kind = rules[r].kind
  PROVE  /\ threaded' \in BOOLEAN /\ backward' \in BackwardSets
         /\ \A r \in Rules : ~PerFlow(rules'[r]) => ~threaded'
         /\ \A q, r \in Rules : Bidir(rules'[q]) /\ Bidir(rules'[r]) => q = r
         /\ \A r \in Rules : /\ PerFlow(rules'[r]) <=> PerFlow(rules[r])
                             /\ Bidir(rules'[r]) <=> Bidir(rules[r])
<1>1. \A r \in Rules : /\ PerFlow(rules'[r]) <=> PerFlow(rules[r])
                       /\ Bidir(rules'[r]) <=> Bidir(rules[r])
  BY DEF PerFlow, Bidir
<1>2. threaded' \in BOOLEAN /\ backward' \in BackwardSets
  BY DEF IInv
<1>3. \A r \in Rules : ~PerFlow(rules'[r]) => ~threaded'
  BY <1>1 DEF IInv
<1>4. \A q, r \in Rules : Bidir(rules'[q]) /\ Bidir(rules'[r]) => q = r
  BY <1>1 DEF IInv
<1>. QED BY <1>1, <1>2, <1>3, <1>4

\* One rule changes, and perhaps what the meter does.
LEMMA OneRule ==
  ASSUME IInv, NEW r \in Rules, NEW e,
         rules' = [rules EXCEPT ![r] = e], EntryOk(e, seen, lastTs, backward),
         e.kind = rules[r].kind,
         UNCHANGED <<threaded, backward, seen, now, lastTs>>, MeterInStep'
  PROVE  IInv'
<1>1. DOMAIN rules = Rules
  BY DEF IInv
<1>2. DOMAIN rules' = Rules /\ rules'[r] = e /\ \A q \in Rules \ {r} : rules'[q] = rules[q]
  BY <1>1
<1>3. \A q \in Rules : EntryOk(rules'[q], seen, lastTs, backward)
  BY <1>2 DEF IInv
<1>4. \A q \in Rules : rules'[q].kind = rules[q].kind
  BY <1>2
<1>5. /\ threaded' \in BOOLEAN /\ backward' \in BackwardSets
      /\ \A q \in Rules : ~PerFlow(rules'[q]) => ~threaded'
      /\ \A p, q \in Rules : Bidir(rules'[p]) /\ Bidir(rules'[q]) => p = q
  BY <1>4, SameKinds
<1>6. seen' \in 0 .. NPackets /\ now' \in Times /\ lastTs' \in 0 .. now'
  BY DEF IInv
<1>7. \A q \in Rules : EntryOk(rules'[q], seen', lastTs', backward')
  BY <1>3
<1>. QED BY <1>2, <1>5, <1>6, <1>7 DEF IInv

\* The types of the numbers.
LEMMA Numbers ==
  ASSUME IInv
  PROVE  /\ seen \in Nat /\ now \in Times /\ lastTs \in Times /\ lastTs \in Nat
         /\ now \in Nat /\ MaxTime \in Nat /\ NPackets \in Nat /\ Timeout \in Nat \ {0}
         /\ \A t \in Times : t \in Nat
BY Bounds DEF IInv, Times

LEMMA ProcessPacketKeeps ==
  ASSUME IInv, Exposed = {}, NEW k \in Keys, NEW ts \in TimeStamps,
         NEW ends \in [Rules -> SUBSET Enders], \A r \in Rules : ends[r] \in EndsOf(r),
         ProcessPacket(k, ts, ends)
  PROVE  IInv'
<1> DEFINE reversed == k \in backward /\ \E r \in InUse : Bidir(rules[r])
           marked(r) == \E q \in InUse : q < r /\ OnlyReverse(rules[q], k)
<1>1. /\ threaded \/ busy = Free
      /\ seen < NPackets /\ seen' = seen + 1
      /\ lastTs' = IF ts > lastTs THEN ts ELSE lastTs
      /\ rules' = Accounted(InUse, seen + 1, k, ts, reversed, ends)
      /\ UNCHANGED <<threaded, backward, now, busy>>
  BY DEF ProcessPacket, MeterFree
<1> HIDE DEF reversed
<1>2. /\ ts \in 0 .. now /\ lastTs <= ts /\ ts + 1 + Timeout <= MaxTime
  BY DEF TimeStamps
<1>3. /\ ts \in Times /\ ts + 1 \in Times /\ lastTs' = ts /\ ts \in 0 .. now
      /\ lastTs \in Times /\ lastTs <= ts
      /\ seen \in Nat /\ seen + 1 \in Packets /\ seen + 1 \in 0 .. NPackets
  BY <1>1, <1>2, Numbers DEF Times, Packets
<1>4. backward \in BackwardSets
  BY DEF IInv
<1>5. /\ DOMAIN rules' = Rules
      /\ \A r \in Rules : rules'[r] =
            IF r \in InUse
            THEN Account(rules[r], seen + 1, k, ts, reversed \/ marked(r), ends[r])
            ELSE rules[r]
  BY <1>1 DEF Accounted
<1>6. ASSUME NEW r \in InUse
      PROVE  /\ rules[r].state = "active"
             /\ EntryOk(rules'[r], seen + 1, ts, backward)
             /\ rules'[r].kind = rules[r].kind /\ rules'[r].state = "active"
  <2>1. rules[r].state = "active"
    <3>1. r \in Rules /\ rules[r].state \in {"active", "removing"}
      BY DEF InUse
    <3>2. busy.at # "delete"
      BY <1>1 DEF IInv, MeterInStep, Free
    <3>. QED BY <3>1, <3>2 DEF IInv, MeterInStep
  <2> DEFINE reverse == reversed \/ marked(r)
  <2>2. reverse \in BOOLEAN
    OBVIOUS
  <2>3. Bidir(rules[r]) => (reverse <=> k \in backward)
    <3>1. ASSUME Bidir(rules[r]) PROVE ~marked(r)
      <4>1. ASSUME NEW q \in InUse, q < r, OnlyReverse(rules[q], k) PROVE FALSE
        <5>1. q = r
          BY <3>1, <4>1 DEF IInv, InUse, OnlyReverse
        <5>2. q \in Nat
          BY Bounds DEF InUse, Rules
        <5>. QED BY <4>1, <5>1, <5>2
      <4>. QED BY <4>1
    <3>2. Bidir(rules[r]) => (reversed <=> k \in backward)
      BY DEF reversed
    <3>. QED BY <3>1, <3>2
  <2>4. rules'[r] = Account(rules[r], seen + 1, k, ts, reverse, ends[r]) /\ r \in Rules
    BY <1>5 DEF InUse
  <2> HIDE DEF reverse
  <2>5. ends[r] \in SUBSET (rules[r].mods \cap Enders)
    BY <2>4 DEF EndsOf
  <2>6. EntryOk(rules[r], seen, lastTs, backward)
    BY <2>4 DEF IInv
  <2>7. EntryOk(rules'[r], seen + 1, ts, backward)
    <3>1. ASSUME NEW e, e = rules[r], NEW told \in BOOLEAN, told <=> reverse,
                 NEW some, some = ends[r]
          PROVE  EntryOk(Account(e, seen + 1, k, ts, told, some), seen + 1, ts, backward)
      <4>1. EntryOk(e, seen, lastTs, backward) /\ e.state = "active"
        BY <2>1, <2>6, <3>1
      <4>2. some \in SUBSET (e.mods \cap Enders)
        BY <2>5, <3>1
      <4>3. Bidir(e) => (told <=> k \in backward)
        BY <2>3, <3>1
      <4>4. /\ seen \in Nat /\ seen + 1 \in Packets
            /\ lastTs \in Times /\ ts \in Times /\ lastTs <= ts /\ ts + 1 \in Times
        BY <1>3
      <4>. QED BY <1>4, <4>1, <4>2, <4>3, <4>4, AccountKeeps
    <3>. QED BY <2>2, <2>4, <3>1
  <2>8. rules'[r].kind = rules[r].kind /\ rules'[r].state = rules[r].state
    <3>1. rules[r] \in Entries
      BY <2>6 DEF EntryOk
    <3>. QED BY <2>4, <3>1 DEF Account, Entries
  <2>. QED BY <2>1, <2>7, <2>8
<1>7. ASSUME NEW r \in Rules
      PROVE  /\ EntryOk(rules'[r], seen + 1, ts, backward)
             /\ rules'[r].kind = rules[r].kind /\ rules'[r].state = rules[r].state
  <2>1. CASE r \in InUse
    BY <1>6, <2>1
  <2>2. CASE r \notin InUse
    <3>1. rules'[r] = rules[r] /\ EntryOk(rules[r], seen, lastTs, backward)
      BY <1>5, <2>2 DEF IInv
    <3>. QED BY <1>3, <3>1, LaterKeeps
  <2>. QED BY <2>1, <2>2
<1>8. /\ threaded' \in BOOLEAN /\ backward' \in BackwardSets
      /\ \A r \in Rules : ~PerFlow(rules'[r]) => ~threaded'
      /\ \A q, r \in Rules : Bidir(rules'[q]) /\ Bidir(rules'[r]) => q = r
      /\ \A r \in Rules : PerFlow(rules'[r]) <=> PerFlow(rules[r])
  BY <1>1, <1>7, SameKinds
<1>9. MeterInStep'
  <2>1. CASE busy = Free
    <3>1. \A r \in Rules : rules'[r].state # "removing"
      BY <1>7, <2>1 DEF IInv, MeterInStep, Free
    <3>. QED BY <1>1, <2>1, <3>1 DEF MeterInStep
  <2>2. CASE threaded
    <3>1. \A r \in Rules : PerFlow(rules'[r]) /\ PerFlow(rules[r])
      BY <1>1, <1>8, <2>2
    <3>2. MeterInStep
      BY DEF IInv
    <3>. QED BY <1>1, <1>7, <3>1, <3>2 DEF MeterInStep
  <2>. QED BY <1>1, <2>1, <2>2
<1>10. /\ seen' \in 0 .. NPackets /\ now' \in Times /\ lastTs' \in 0 .. now'
       /\ \A r \in Rules : EntryOk(rules'[r], seen', lastTs', backward')
  BY <1>1, <1>3, <1>7, Numbers
<1>. QED BY <1>5, <1>8, <1>9, <1>10 DEF IInv

\* While the meter is free no rule is half removed.
LEMMA NoneRemoved ==
  ASSUME IInv, MeterFree
  PROVE  /\ busy = Free
         /\ \A r \in Rules : rules[r].state # "removing"
BY DEF IInv, MeterInStep, MeterFree, Free

\* What a step writes to the table.
LEMMA Written ==
  ASSUME IInv, NEW r \in Rules, NEW e, rules' = [rules EXCEPT ![r] = e]
  PROVE  rules'[r] = e /\ \A q \in Rules \ {r} : rules'[q] = rules[q]
BY DEF IInv

LEMMA RuleIs ==
  ASSUME IInv, NEW r \in Rules
  PROVE  EntryOk(rules[r], seen, lastTs, backward) /\ seen \in Nat /\ lastTs \in Times
BY Numbers DEF IInv

LEMMA AddRuleKeeps ==
  ASSUME IInv, NEW r \in Rules, AddRule(r)
  PROVE  IInv'
<1>1. /\ MeterFree /\ rules[r].state = "known" /\ busy' = busy
      /\ rules' = [rules EXCEPT ![r] = Activated(rules[r])]
      /\ UNCHANGED <<threaded, backward, seen, now, lastTs>>
  BY DEF AddRule
<1>2. /\ EntryOk(Activated(rules[r]), seen, lastTs, backward)
      /\ Activated(rules[r]).state = "active" /\ Activated(rules[r]).kind = rules[r].kind
  BY <1>1, RuleIs, ActivatedKeeps
<1>3. MeterInStep'
  <2>1. rules'[r] = Activated(rules[r]) /\ \A q \in Rules \ {r} : rules'[q] = rules[q]
    BY <1>1, Written
  <2>2. \A q \in Rules : rules'[q].state # "removing"
    BY <1>1, <1>2, <2>1, NoneRemoved
  <2>3. busy' = Free
    BY <1>1, NoneRemoved
  <2>. QED BY <2>2, <2>3 DEF MeterInStep
<1>. QED BY <1>1, <1>2, <1>3, OneRule

\* A rule that timed out without having flows is idle.
LEMMA RuleTimeoutKeeps ==
  ASSUME IInv, NEW r \in Rules, RuleTimeout(r)
  PROVE  IInv'
<1>1. /\ MeterFree /\ rules[r].state = "active" /\ TimedOut(rules[r], now)
      /\ busy' = [at |-> "export", rule |-> r, time |-> now]
      /\ UNCHANGED <<threaded, backward, rules, seen, now, lastTs>>
  BY DEF RuleTimeout
<1>2. MeterInStep'
  <2>1. \A q \in Rules : rules'[q].state # "removing"
    BY <1>1, NoneRemoved
  <2>2. ~PerFlow(rules[r]) => Idle(rules[r], now)
    BY <1>1 DEF TimedOut
  <2>3. /\ busy'.at = "export" /\ busy'.rule = r /\ busy'.time = now
        /\ rules' = rules /\ now \in Times
    BY <1>1, Numbers
  <2>. QED BY <1>1, <2>1, <2>2, <2>3 DEF MeterInStep
<1>. QED BY <1>1, <1>2 DEF IInv

LEMMA ExportRuleKeeps ==
  ASSUME IInv, ExportRule
  PROVE  IInv'
<1> DEFINE r == busy.rule
           e == ExportIdle(rules[r], busy.time)
<1>1. /\ busy.at = "export" /\ busy' = Free
      /\ rules' = [rules EXCEPT ![r] = e]
      /\ UNCHANGED <<threaded, backward, seen, now, lastTs>>
  BY DEF ExportRule
<1>2. /\ r \in Rules /\ busy.time \in Times /\ rules[r].state = "active"
      /\ ~PerFlow(rules[r]) => Idle(rules[r], busy.time)
      /\ \A q \in Rules : rules[q].state # "removing"
  BY <1>1 DEF IInv, MeterInStep, Free
<1>3. EntryOk(e, seen, lastTs, backward) /\ e.state = "active" /\ e.kind = rules[r].kind
  <2> HIDE DEF r
  <2>1. EntryOk(rules[r], seen, lastTs, backward) /\ seen \in Nat /\ lastTs \in Times
    BY <1>2, RuleIs
  <2>2. /\ busy.time \in Times /\ rules[r].state = "active"
        /\ ~PerFlow(rules[r]) => Idle(rules[r], busy.time)
    BY <1>2
  <2>. QED BY <2>1, <2>2, ExportIdleKeeps
<1>4. MeterInStep'
  <2>1. rules'[r] = e /\ \A q \in Rules \ {r} : rules'[q] = rules[q]
    BY <1>1, <1>2, Written
  <2>2. \A q \in Rules : rules'[q].state # "removing"
    BY <1>2, <1>3, <2>1
  <2>. QED BY <1>1, <2>2 DEF MeterInStep
<1> HIDE DEF r, e
<1>. QED BY <1>1, <1>2, <1>3, <1>4, OneRule

LEMMA FinalExportKeeps ==
  ASSUME IInv, Exposed = {}, NEW r \in Rules, FinalExport(r)
  PROVE  IInv'
<1>1. /\ MeterFree /\ rules[r].state = "active" /\ ~threaded
      /\ rules' = [rules EXCEPT ![r] = ExportAll(rules[r])]
      /\ busy' = [at |-> "delete", rule |-> r, time |-> 0]
      /\ UNCHANGED <<threaded, backward, seen, now, lastTs>>
  BY DEF FinalExport
<1>2. /\ EntryOk(ExportAll(rules[r]), seen, lastTs, backward)
      /\ ExportAll(rules[r]).state = "removing" /\ ExportAll(rules[r]).kind = rules[r].kind
  BY <1>1, RuleIs, ExportAllKeeps
<1>3. MeterInStep'
  <2>1. rules'[r] = ExportAll(rules[r]) /\ \A q \in Rules \ {r} : rules'[q] = rules[q]
    BY <1>1, Written
  <2>2. busy'.at = "delete" /\ busy'.rule = r /\ ~threaded'
    BY <1>1
  <2>3. \A q \in Rules : rules'[q].state = "removing" => q = r
    BY <1>1, <2>1, NoneRemoved
  <2>. QED BY <1>2, <2>1, <2>2, <2>3 DEF MeterInStep
<1>. QED BY <1>1, <1>2, <1>3, OneRule

LEMMA DelRuleKeeps ==
  ASSUME IInv, DelRule
  PROVE  IInv'
<1> DEFINE r == busy.rule
           e == Deleted(rules[r])
<1>1. /\ busy.at = "delete" /\ busy' = Free
      /\ rules' = [rules EXCEPT ![r] = e]
      /\ UNCHANGED <<threaded, backward, seen, now, lastTs>>
  BY DEF DelRule
<1>2. /\ r \in Rules /\ rules[r].state = "removing"
      /\ \A q \in Rules : rules[q].state = "removing" => q = r
  BY <1>1 DEF IInv, MeterInStep, Free
<1>3. EntryOk(e, seen, lastTs, backward) /\ e.state = "gone" /\ e.kind = rules[r].kind
  BY <1>2, RuleIs, DeletedKeeps
<1>4. MeterInStep'
  <2>1. rules'[r] = e /\ \A q \in Rules \ {r} : rules'[q] = rules[q]
    BY <1>1, <1>2, Written
  <2>2. \A q \in Rules : rules'[q].state # "removing"
    BY <1>2, <1>3, <2>1
  <2>. QED BY <1>1, <2>2 DEF MeterInStep
<1> HIDE DEF r, e
<1>. QED BY <1>1, <1>2, <1>3, <1>4, OneRule

LEMMA TickKeeps == ASSUME IInv, Tick PROVE IInv'
<1>1. /\ now < MaxTime /\ now' = now + 1
      /\ UNCHANGED <<threaded, backward, rules, seen, lastTs, busy>>
  BY DEF Tick
<1>2. now' \in Times /\ lastTs \in 0 .. now'
  BY <1>1, Numbers DEF IInv, Times
<1>3. MeterInStep'
  BY <1>1 DEF IInv, MeterInStep
<1>. QED BY <1>1, <1>2, <1>3 DEF IInv

LEMMA StutterKeeps == ASSUME IInv, UNCHANGED vars PROVE IInv'
<1>1. UNCHANGED <<threaded, backward, rules, seen, now, lastTs, busy>>
  BY DEF vars
<1>2. MeterInStep'
  BY <1>1 DEF IInv, MeterInStep
<1>. QED BY <1>1, <1>2 DEF IInv

LEMMA NextKeeps == ASSUME IInv, Exposed = {}, [Next]_vars PROVE IInv'
<1>1. ASSUME NEW k \in Keys, NEW ts \in TimeStamps, NEW ends \in [Rules -> SUBSET Enders],
             \A r \in Rules : ends[r] \in EndsOf(r), ProcessPacket(k, ts, ends)
      PROVE  IInv'
  BY <1>1, ProcessPacketKeeps
<1>2. ASSUME NEW r \in Rules, AddRule(r) \/ RuleTimeout(r) \/ FinalExport(r) PROVE IInv'
  BY <1>2, AddRuleKeeps, RuleTimeoutKeeps, FinalExportKeeps
<1>. QED BY <1>1, <1>2, ExportRuleKeeps, DelRuleKeeps, TickKeeps, StutterKeeps DEF Next

\* In all reachable states, without the exposed situations, every rule keeps
\* its packets, its flows and their directions together.
THEOREM FlowTableInvariant == Exposed = {} /\ Spec => []IInv
<1>1. Exposed = {} /\ Init => IInv
  BY InitInvariant
<1>2. Exposed = {} /\ IInv /\ [Next]_vars => IInv'
  BY NextKeeps
<1>3. Exposed = {} => [](Exposed = {})
  OBVIOUS
<1>. QED BY <1>1, <1>2, <1>3, PTL DEF Spec

LEMMA RuleTyped ==
  ASSUME IInv, NEW r \in Rules
  PROVE  /\ rules[r] \in Entries /\ FlowsDistinct(rules[r]) /\ PacketsOnce(rules[r])
         /\ LastPacket(rules[r], lastTs) /\ Conversations(rules[r], backward)
BY DEF IInv, EntryOk

LEMMA TypesHold == ASSUME IInv PROVE TypeOK
<1>1. ASSUME NEW r \in Rules
      PROVE  /\ rules[r].state \in {"known", "active", "removing", "gone"}
             /\ rules[r].lastPkt \in 0 .. MaxTime
             /\ rules[r].counted \subseteq Packets
             /\ \A f \in rules[r].flows : /\ f.key \in Keys \cup {NoKey}
                                          /\ f.path \in {1, 2}
                                          /\ f.lastPkt \in 0 .. MaxTime
             /\ r \in InUse /\ ~PerFlow(rules[r]) =>
                    \E f \in rules[r].flows : rules[r].flows = {f} /\ f.key = NoKey
  <2>1. rules[r] \in Entries
    BY RuleTyped
  <2>2. /\ rules[r].state \in {"known", "active", "removing", "gone"}
        /\ rules[r].lastPkt \in 0 .. MaxTime /\ rules[r].counted \subseteq Packets
        /\ rules[r].flows \subseteq Flows
    BY <2>1, EntryTypes DEF Times
  <2>3. \A f \in rules[r].flows : /\ f.key \in Keys \cup {NoKey} /\ f.path \in {1, 2}
                                  /\ f.lastPkt \in 0 .. MaxTime
    BY <2>2, FlowTypes DEF Times
  <2>4. r \in InUse /\ ~PerFlow(rules[r]) =>
            \E f \in rules[r].flows : rules[r].flows = {f} /\ f.key = NoKey
    BY RuleTyped DEF InUse, FlowsDistinct
  <2>. QED BY <2>2, <2>3, <2>4
<1>2. backward \subseteq Keys
  BY DEF IInv, BackwardSets
<1>3. /\ threaded \in BOOLEAN /\ DOMAIN rules = Rules
      /\ seen \in 0 .. NPackets /\ now \in 0 .. MaxTime /\ lastTs \in 0 .. now
  BY DEF IInv, Times
<1>4. busy.at \in {"free", "export", "delete"}
  BY DEF IInv, MeterInStep, Free
<1>. QED BY <1>1, <1>2, <1>3, <1>4 DEF TypeOK

LEMMA PacketsHold == ASSUME IInv PROVE NothingLost /\ NothingTwice /\ DataExists
<1>1. NothingLost
  BY RuleTyped DEF NothingLost, PacketsOnce
<1>2. NothingTwice
  BY RuleTyped DEF NothingTwice, PacketsOnce
<1>3. DataExists
  <2>1. ASSUME NEW r \in Rules, NEW f \in rules[r].flows PROVE f.live = Modules
    BY RuleTyped, EntryTypes, FlowTypes
  <2>. QED BY <2>1 DEF DataExists
<1>. QED BY <1>1, <1>2, <1>3

\* Every packet that is accounted to a rule is with each module of the rule,
\* either in one flow's data or in the final records, and in one of them only
\* while the rule is active, whatever ends flows and whenever the meter looks.
THEOREM PacketsAreOnce == Exposed = {} /\ Spec => []EveryPacketOnce
<1>1. IInv => EveryPacketOnce
  BY TypesHold, PacketsHold DEF EveryPacketOnce
<1>. QED BY <1>1, FlowTableInvariant, PTL

\* The direction of a packet and the direction the modules are told.
LEMMA ToldIs ==
  ASSUME NEW d, NEW x, x \in {<<d, FALSE>>, <<1 - d, TRUE>>}
  PROVE  (x[1] = d /\ x[2] = FALSE) \/ (x[1] = 1 - d /\ x[2] = TRUE)
<1>1. CASE x = <<d, FALSE>>
  <2>1. x[1] = d /\ x[2] = FALSE
    BY <1>1
  <2>. QED BY <2>1
<1>2. CASE x = <<1 - d, TRUE>>
  <2>1. x[1] = 1 - d /\ x[2] = TRUE
    BY <1>2
  <2>. QED BY <2>1
<1>. QED BY <1>1, <1>2

LEMMA FlowsHold == ASSUME IInv PROVE FlowsAreConversations
<1>1. OneFlowPerConversation
  <2>1. ASSUME NEW r \in Rules, rules[r].kind = "bidir", NEW f \in rules[r].flows,
               NEW g \in rules[r].flows, f.key.conv = g.key.conv
        PROVE  f = g
    <3>1. Conversations(rules[r], backward) /\ Bidir(rules[r])
      BY <2>1, RuleTyped DEF Bidir
    <3>. QED BY <2>1, <3>1 DEF Conversations
  <2>. QED BY <2>1 DEF OneFlowPerConversation
<1>2. ASSUME NEW r \in Rules, Bidir(rules[r]), NEW f \in rules[r].flows,
             NEW x \in f.dirs, NEW y \in f.dirs
      PROVE  /\ (x[1] = y[1]) <=> (x[2] = y[2])
             /\ rules[r].kind = "sep" => x[1] = y[1]
  <2>1. /\ f.dirs \subseteq {<<f.key.dir, FALSE>>, <<1 - f.key.dir, TRUE>>}
        /\ rules[r].kind = "sep" =>
              f.dirs \subseteq {IF f.path = 1 THEN <<f.key.dir, FALSE>>
                                              ELSE <<1 - f.key.dir, TRUE>>}
    BY <1>2, RuleTyped DEF Conversations
  <2>2. f.key.dir \in {0, 1}
    <3>1. f.key \in Keys
      BY <1>2, RuleTyped DEF FlowsDistinct, Bidir, PerFlow
    <3>. QED BY <3>1, KeyTypes
  <2>3. f.key.dir # 1 - f.key.dir
    BY <2>2
  <2>4. /\ x \in {<<f.key.dir, FALSE>>, <<1 - f.key.dir, TRUE>>}
        /\ y \in {<<f.key.dir, FALSE>>, <<1 - f.key.dir, TRUE>>}
    BY <2>1
  <2>5. /\ (x[1] = f.key.dir /\ x[2] = FALSE) \/ (x[1] = 1 - f.key.dir /\ x[2] = TRUE)
        /\ (y[1] = f.key.dir /\ y[2] = FALSE) \/ (y[1] = 1 - f.key.dir /\ y[2] = TRUE)
    BY <2>4, ToldIs
  <2>6. (x[1] = y[1]) <=> (x[2] = y[2])
    BY <2>3, <2>5
  <2>7. ASSUME rules[r].kind = "sep" PROVE x = y
    <3>1. CASE f.path = 1
      <4>1. f.dirs \subseteq {<<f.key.dir, FALSE>>}
        BY <2>1, <2>7, <3>1
      <4>. QED BY <1>2, <4>1
    <3>2. CASE f.path # 1
      BY <2>1, <2>7, <3>2
    <3>. QED BY <3>1, <3>2
  <2>. QED BY <2>6, <2>7
<1>3. DirectionsTold
  BY <1>2 DEF DirectionsTold
<1>4. PathsSeparated
  <2>1. \A r \in Rules : rules[r].kind = "sep" => Bidir(rules[r])
    BY DEF Bidir
  <2>. QED BY <1>2, <2>1 DEF PathsSeparated
<1>. QED BY <1>1, <1>3, <1>4 DEF FlowsAreConversations

\* A bidirectional rule has one flow for a conversation, and a rule with
\* separate paths one for each direction; within a flow the modules are told a
\* direction that fits the packets', from the first packet to the last.
THEOREM FlowsAreTold == Exposed = {} /\ Spec => []FlowsAreConversations
<1>1. IInv => FlowsAreConversations
  BY FlowsHold
<1>. QED BY <1>1, FlowTableInvariant, PTL

\* What a timeout adds to the final records was in the data of an idle flow.
LEMMA OnlyIdle ==
  ASSUME IInv, ExportRule
  PROVE  LET e == rules[busy.rule]
         IN  \A m \in e.mods : \A p \in rules'[busy.rule].exported[m] \ e.exported[m] :
                IF PerFlow(e) THEN \E f \in e.flows : p \in f.data[m] /\ Idle(f, busy.time)
                              ELSE Idle(e, busy.time)
<1> DEFINE r == busy.rule
           e == rules[r]
           F == IF PerFlow(e) THEN {f \in e.flows : Idle(f, busy.time)} ELSE e.flows
<1>1. /\ busy.at = "export"
      /\ rules' = [rules EXCEPT ![r] = ExportIdle(e, busy.time)]
  BY DEF ExportRule
<1>2. r \in Rules /\ (~PerFlow(e) => Idle(e, busy.time))
  BY <1>1 DEF IInv, MeterInStep, Free
<1>3. rules'[r] = ExportIdle(e, busy.time) /\ e \in Entries
  BY <1>1, <1>2, Written, RuleTyped
<1>4. rules'[r].exported = Collected(e, F)
  BY <1>3 DEF ExportIdle, Entries
<1>5. ASSUME NEW m \in e.mods, NEW p \in rules'[r].exported[m] \ e.exported[m]
      PROVE  \E f \in F : p \in f.data[m]
  <2>1. m \in Modules
    BY <1>3, <1>5, EntryTypes
  <2>2. Collected(e, F)[m] = e.exported[m] \cup UNION {f.data[m] : f \in F}
    BY <2>1 DEF Collected
  <2>3. p \in UNION {f.data[m] : f \in F}
    BY <1>4, <1>5, <2>2
  <2> HIDE DEF F
  <2>. QED BY <2>3
<1>. QED BY <1>2, <1>5

\* A timeout exports flows that were idle when the meter looked, and no others;
\* a rule that is marked as idle has no packets left to be exported.
THEOREM IdleFlowsAreExported == Exposed = {} /\ Spec => IdleFlowsExported
<1>1. IInv => IdleRuleHasNoFlows
  BY RuleTyped DEF IdleRuleHasNoFlows, LastPacket
<1>2. IInv =>
        (ExportRule =>
           LET e == rules[busy.rule]
           IN  \A m \in e.mods : \A p \in rules'[busy.rule].exported[m] \ e.exported[m] :
                  IF PerFlow(e) THEN \E f \in e.flows : p \in f.data[m] /\ Idle(f, busy.time)
                                ELSE Idle(e, busy.time))
  BY OnlyIdle
<1>. QED BY <1>1, <1>2, FlowTableInvariant, PTL DEF IdleFlowsExported, OnlyIdleExported
=============================================================================
