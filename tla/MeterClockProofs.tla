------------------------- MODULE MeterClockProofs -------------------------
(***************************************************************************)
(* Proofs about MeterClock, for any rules and times: an event is executed  *)
(* when its time has come and not before, a rule's exports neither catch   *)
(* up in a burst nor stay away, and the scheduler's events are of the      *)
(* rules that need them.                                                   *)
(*                                                                         *)
(* The main loop writes a token if an event is due and reads one in the    *)
(* same round: what the tokens in the pipe can be tells why none is left   *)
(* over to execute an event early.                                         *)
(***************************************************************************)
EXTENDS MeterClock, SequenceTheorems, TLAPS

Events == [type : {"add", "activate", "remove", "request", "export"},
           rules : (SUBSET Rules) \ {{}}, time : Nat, ival : Nat]

\* What the state of a rule is while it is in an event.
StateFits(e, r) ==
    /\ e.type = "add" => state[r] = "new"
    /\ e.type = "activate" => state[r] = "valid" /\ e.time >= desc[r].start
    /\ e.type \in {"remove", "request"} => state[r] \in {"valid", "active"}
    /\ e.type = "export" => state[r] = "active" /\ e.ival = desc[r].interval

\* An export is near, and not due any more when it ran twice since the clock moved.
Paced(e, r) ==
    /\ e.time <= now + desc[r].interval * IF desc[r].align THEN 2 ELSE 1
    /\ ran[r] >= 1 => e.time >= now
    /\ ran[r] = 2 => e.time > now

EventsFit ==
    /\ events \subseteq Events
    /\ \A e \in events : /\ e.type = "add" => e.rules = Rules
                         /\ e.type # "export" => e.ival = 0
                         /\ \A r \in e.rules : StateFits(e, r)
    /\ \A e, f \in events : e.type = f.type /\ e.rules \cap f.rules # {} => e = f

\* Until the meter is told to stop a token stays for less than a round, and
\* while a 'D' is in the pipe nothing becomes due.
TokensFit ==
    /\ pipe \in {<<>>, <<"D">>, <<"S">>, <<"D", "S">>, <<"A">>, <<"A", "S">>, <<"S", "A">>}
    /\ pipe \in {<<"A">>, <<"A", "S">>, <<"S", "A">>} =>
           pc = "signals" /\ \E e \in events : Due(e)
    /\ pipe \in {<<"D">>, <<"D", "S">>} => online /\ \A e \in events : ~Due(e)

ExportsPaced ==
    /\ \A r \in Rules : ran[r] <= 2
    /\ \A e \in events : e.type = "export" => \A r \in e.rules : Paced(e, r)
    /\ \A r \in Rules : state[r] = "active" =>
           /\ now >= desc[r].start
           /\ \E e \in events : e.type = "export" /\ r \in e.rules

\* Before a trace file is read.
AtLoad ==
    /\ ~online /\ ~stop /\ now = 0 /\ pipe = <<>>
    /\ \A r \in Rules : state[r] = "new" /\ ran[r] = 0
    /\ \E r \in Rules : desc[r].start = 0

IInv ==
    /\ online \in BOOLEAN /\ stop \in BOOLEAN
    /\ desc \in [Rules -> Descriptions]
    /\ state \in [Rules -> {"new", "valid", "active", "gone"}]
    /\ ran \in [Rules -> Nat]
    /\ pipe \in Seq({"A", "D", "S"})
    /\ now \in 0 .. MaxTime /\ dumps \in 0 .. MaxDumps
    /\ pc \in {"load", "top", "signals", "again", "end", "done"}
    /\ EventsFit
    /\ pc = "load" => AtLoad
    /\ ~stop => TokensFit /\ ExportsPaced

-----------------------------------------------------------------------------
LEMMA Bounds ==
  /\ MaxTime \in Nat /\ MaxStart \in Nat /\ Duration \in Nat \ {0} /\ MaxDumps \in Nat
  /\ Rules # {} /\ \A i \in Intervals : i \in Nat /\ i > 0
<1>1. /\ MaxTime \in Nat /\ MaxStart \in Nat /\ Duration \in Nat \ {0} /\ MaxDumps \in Nat
      /\ Rules # {} /\ Intervals \subseteq Nat \ {0}
  BY ClockAssumption
<1>. QED BY <1>1

LEMMA DescTypes ==
  ASSUME desc \in [Rules -> Descriptions], NEW r \in Rules
  PROVE  /\ desc[r].start \in Nat /\ desc[r].stops \in BOOLEAN /\ desc[r].align \in BOOLEAN
         /\ desc[r].interval \in Intervals /\ desc[r].interval \in Nat
         /\ desc[r].interval > 0
BY Bounds DEF Descriptions

LEMMA EventTypes ==
  ASSUME NEW e \in Events
  PROVE  /\ e.type \in {"add", "activate", "remove", "request", "export"}
         /\ e.rules \subseteq Rules /\ e.rules # {} /\ e.time \in Nat /\ e.ival \in Nat
         /\ e = [type |-> e.type, rules |-> e.rules, time |-> e.time, ival |-> e.ival]
<1> DEFINE Sets == (SUBSET Rules) \ {{}}
<1>1. \A R \in Sets : R \subseteq Rules /\ R # {}
  OBVIOUS
<1> HIDE DEF Sets
<1>2. Events = [type : {"add", "activate", "remove", "request", "export"},
                rules : Sets, time : Nat, ival : Nat]
  BY DEF Events, Sets
<1>3. /\ e.type \in {"add", "activate", "remove", "request", "export"}
      /\ e.rules \in Sets /\ e.time \in Nat /\ e.ival \in Nat
      /\ e = [type |-> e.type, rules |-> e.rules, time |-> e.time, ival |-> e.ival]
  BY <1>2
<1>. QED BY <1>1, <1>3

LEMMA SinceIs ==
  ASSUME now \in Nat, NEW s \in Nat, NEW t, t = now + s
  PROVE  t - now = s /\ (s > 0 => t > now)
OBVIOUS

\* The next multiple is later, by an interval at most.
LEMMA AlignedIs ==
  ASSUME NEW t \in Nat, NEW i \in Nat, i > 0
  PROVE  Aligned(t, i) \in Nat /\ t < Aligned(t, i) /\ Aligned(t, i) <= t + i
<1>1. t \div i \in Nat
  OBVIOUS
<1>2. i * (t \div i) <= t
  OBVIOUS
<1>3. t - i * (t \div i) = t % i /\ t % i \in 0 .. i - 1
  OBVIOUS
<1>4. (t \div i) * i \in Nat /\ (t \div i) * i = i * (t \div i)
  BY <1>1
<1>5. (t \div i) * i <= t /\ t < (t \div i) * i + i
  BY <1>2, <1>3, <1>4
<1>. QED BY <1>4, <1>5 DEF Aligned

\* The events of rules that are added: each rule starts once, and may stop once.
LEMMA RuleEventsAre ==
  ASSUME desc \in [Rules -> Descriptions], now \in Nat
  PROVE  /\ RuleEvents \subseteq Events
         /\ \A e \in RuleEvents :
               /\ e.type \in {"activate", "remove"} /\ e.ival = 0
               /\ \A r \in e.rules : e.type = "activate" => e.time = now + desc[r].start
               /\ e.type = "remove" => e.time > now
         /\ \A e, f \in RuleEvents : e.type = f.type /\ e.rules \cap f.rules # {} => e = f
         /\ \A r \in Rules : \E e \in RuleEvents :
               e.type = "activate" /\ r \in e.rules /\ e.time = now + desc[r].start
<1>0. /\ \A r \in Rules : desc[r].start \in Nat /\ now + desc[r].start \in Nat
      /\ Duration \in Nat /\ Duration > 0
      /\ \A r \in Rules : /\ desc[r].start + Duration \in Nat
                         /\ now + (desc[r].start + Duration) \in Nat
                         /\ desc[r].start + Duration > 0
  BY DescTypes, Bounds
<1> DEFINE A(s) == Event("activate", {r \in Rules : desc[r].start = s}, now + s, 0)
           Stoppable == {r \in Rules : desc[r].stops}
           D(s) == Event("remove", {r \in Stoppable : desc[r].start + Duration = s}, now + s, 0)
           As == {A(s) : s \in {desc[r].start : r \in Rules}}
           Ds == {D(s) : s \in {desc[r].start + Duration : r \in Stoppable}}
<1>1. RuleEvents = As \cup Ds
  BY DEF RuleEvents
<1>2. ASSUME NEW e \in As
      PROVE  /\ e \in Events /\ e.type = "activate" /\ e.ival = 0
             /\ e.rules = {r \in Rules : desc[r].start = e.time - now} /\ e.time - now \in Nat
  <2>1. PICK q \in Rules : e = A(desc[q].start)
    OBVIOUS
  <2>2. desc[q].start \in Nat /\ now + desc[q].start \in Nat
    BY <1>0
  <2>3. /\ e.type = "activate" /\ e.ival = 0 /\ e.time = now + desc[q].start
        /\ e.rules = {r \in Rules : desc[r].start = desc[q].start}
    BY <2>1 DEF Event
  <2>4. e.rules \in (SUBSET Rules) \ {{}}
    BY <2>3
  <2>5. e.time - now = desc[q].start
    <3>1. e.time = now + desc[q].start
      BY <2>3
    <3>. QED BY <2>2, <3>1, SinceIs
  <2>6. e \in Events
    BY <2>1, <2>2, <2>3, <2>4 DEF Event, Events
  <2>. QED BY <2>2, <2>3, <2>5, <2>6
<1>3. ASSUME NEW e \in Ds
      PROVE  /\ e \in Events /\ e.type = "remove" /\ e.ival = 0 /\ e.time > now
             /\ e.rules = {r \in Stoppable : desc[r].start + Duration = e.time - now}
  <2>1. PICK q \in Stoppable : e = D(desc[q].start + Duration)
    OBVIOUS
  <2>2. /\ desc[q].start \in Nat /\ Duration \in Nat /\ Duration > 0
        /\ desc[q].start + Duration \in Nat /\ now + (desc[q].start + Duration) \in Nat
    BY <1>0
  <2>3. /\ e.type = "remove" /\ e.ival = 0 /\ e.time = now + (desc[q].start + Duration)
        /\ e.rules = {r \in Stoppable : desc[r].start + Duration = desc[q].start + Duration}
    BY <2>1 DEF Event
  <2>4. e.rules \in (SUBSET Rules) \ {{}}
    BY <2>3
  <2>5. e.time - now = desc[q].start + Duration /\ e.time > now
    <3>1. e.time = now + (desc[q].start + Duration)
      BY <2>3
    <3>2. desc[q].start + Duration > 0
      BY <1>0
    <3>. QED BY <2>2, <3>1, <3>2, SinceIs
  <2>6. e \in Events
    BY <2>1, <2>2, <2>3, <2>4 DEF Event, Events
  <2>. QED BY <2>2, <2>3, <2>5, <2>6
<1>4. ASSUME NEW r \in Rules
      PROVE  \E e \in As : e.type = "activate" /\ r \in e.rules /\ e.time = now + desc[r].start
  <2>1. A(desc[r].start) \in As
    OBVIOUS
  <2>. QED BY <2>1 DEF Event
<1> HIDE DEF As, Ds
<1>5. ASSUME NEW e \in RuleEvents, NEW f \in RuleEvents, e.type = f.type,
             NEW r \in e.rules \cap f.rules
      PROVE  e = f
  <2>1. e \in Events /\ f \in Events /\ e.time \in Nat /\ f.time \in Nat
    BY <1>1, <1>2, <1>3, EventTypes
  <2>2. CASE e \in As
    <3>1. f \in As
      BY <1>1, <1>2, <1>3, <1>5, <2>2
    <3>2. e.time - now = f.time - now
      BY <1>2, <1>5, <2>2, <3>1
    <3>3. e.time = f.time
      BY <2>1, <3>2
    <3>4. e.rules = f.rules /\ e.ival = f.ival
      BY <1>2, <2>2, <3>1, <3>2
    <3>. QED BY <1>5, <2>1, <3>3, <3>4, EventTypes
  <2>3. CASE e \in Ds
    <3>1. f \in Ds
      BY <1>1, <1>2, <1>3, <1>5, <2>3
    <3>2. e.time - now = f.time - now
      BY <1>3, <1>5, <2>3, <3>1
    <3>3. e.time = f.time
      BY <2>1, <3>2
    <3>4. e.rules = f.rules /\ e.ival = f.ival
      BY <1>3, <2>3, <3>1, <3>2
    <3>. QED BY <1>5, <2>1, <3>3, <3>4, EventTypes
  <2>. QED BY <1>1, <2>2, <2>3
<1>6. ASSUME NEW e \in RuleEvents, NEW r \in e.rules, e.type = "activate"
      PROVE  e.time = now + desc[r].start
  <2>1. e \in As /\ e.time \in Nat
    BY <1>1, <1>2, <1>3, <1>6, EventTypes
  <2>2. desc[r].start = e.time - now
    BY <1>2, <2>1
  <2>. QED BY <2>1, <2>2
<1>7. \A e \in RuleEvents : /\ e \in Events /\ e.type \in {"activate", "remove"} /\ e.ival = 0
                            /\ e.type = "remove" => e.time > now
  BY <1>1, <1>2, <1>3
<1>. QED BY <1>1, <1>4, <1>5, <1>6, <1>7

\* The exports of rules R that start: in one event each, at their intervals.
LEMMA ExportEventsAre ==
  ASSUME desc \in [Rules -> Descriptions], now \in Nat, NEW R \in SUBSET Rules
  PROVE  /\ ExportEvents(R) \subseteq Events
         /\ \A e \in ExportEvents(R) :
               /\ e.type = "export" /\ e.rules \subseteq R /\ e.time > now
               /\ \A r \in e.rules :
                     /\ e.ival = desc[r].interval
                     /\ e.time <= now + desc[r].interval * IF desc[r].align THEN 2 ELSE 1
         /\ \A e, f \in ExportEvents(R) : e.rules \cap f.rules # {} => e = f
         /\ \A r \in R : \E e \in ExportEvents(R) : r \in e.rules
<1> DEFINE Same(r) == {q \in R : desc[q].interval = desc[r].interval
                                 /\ desc[q].align = desc[r].align}
           When(r) == IF desc[r].align THEN Aligned(now + desc[r].interval, desc[r].interval)
                                       ELSE now + desc[r].interval
           X(r) == Event("export", Same(r), When(r), desc[r].interval)
<1>1. ExportEvents(R) = {X(r) : r \in R}
  BY DEF ExportEvents
<1>2. ASSUME NEW r \in R
      PROVE  /\ When(r) \in Nat /\ When(r) > now
             /\ When(r) <= now + desc[r].interval * IF desc[r].align THEN 2 ELSE 1
  <2>1. /\ desc[r].interval \in Nat /\ desc[r].interval > 0 /\ desc[r].align \in BOOLEAN
        /\ now + desc[r].interval \in Nat
    BY DescTypes
  <2>2. CASE desc[r].align
    <3>1. /\ Aligned(now + desc[r].interval, desc[r].interval) \in Nat
          /\ Aligned(now + desc[r].interval, desc[r].interval) > now + desc[r].interval
          /\ Aligned(now + desc[r].interval, desc[r].interval)
                <= now + desc[r].interval + desc[r].interval
      BY <2>1, AlignedIs
    <3>. QED BY <2>1, <2>2, <3>1
  <2>3. CASE ~desc[r].align
    BY <2>1, <2>3
  <2>. QED BY <2>2, <2>3
<1>3. ASSUME NEW r \in R
      PROVE  /\ X(r) \in Events /\ X(r).type = "export" /\ X(r).rules = Same(r)
             /\ X(r).time = When(r) /\ X(r).ival = desc[r].interval /\ r \in Same(r)
  <2>1. Same(r) \in (SUBSET Rules) \ {{}} /\ r \in Same(r)
    OBVIOUS
  <2>2. When(r) \in Nat /\ desc[r].interval \in Nat
    BY <1>2, DescTypes
  <2> HIDE DEF Same, When
  <2>. QED BY <2>1, <2>2 DEF Event, Events
<1>4. ASSUME NEW r \in R, NEW q \in Same(r)
      PROVE  /\ X(q) = X(r) /\ desc[q].interval = desc[r].interval
             /\ desc[q].align = desc[r].align
  OBVIOUS
<1>5. ASSUME NEW r \in R, NEW q \in Same(r)
      PROVE  /\ X(r).ival = desc[q].interval
             /\ X(r).time <= now + desc[q].interval * IF desc[q].align THEN 2 ELSE 1
  BY <1>2, <1>3, <1>4
<1>6. ASSUME NEW r \in R, NEW q \in R, Same(r) \cap Same(q) # {}
      PROVE  X(r) = X(q)
  <2>1. PICK p \in Same(r) : p \in Same(q)
    BY <1>6
  <2>. QED BY <1>4, <2>1
<1>7. \A r \in R : Same(r) \subseteq R /\ X(r).time > now
  BY <1>2, <1>3
<1> HIDE DEF Same, When, X
<1>. QED BY <1>1, <1>3, <1>5, <1>6, <1>7

\* Event x is f without the rules in R.
Less(x, f, R) ==
    x.type = f.type /\ x.rules = f.rules \ R /\ x.time = f.time /\ x.ival = f.ival

\* Taking rules out of events.
LEMMA DelRuleEventsAre ==
  ASSUME NEW es \in SUBSET Events, NEW R,
         \A e, f \in es : e.type = f.type /\ e.rules \cap f.rules # {} => e = f
  PROVE  /\ DelRuleEvents(es, R) \subseteq Events
         /\ \A e \in DelRuleEvents(es, R) : \E f \in es : Less(e, f, R)
         /\ \A e, f \in DelRuleEvents(es, R) :
               e.type = f.type /\ e.rules \cap f.rules # {} => e = f
         /\ \A f \in es : f.rules \ R # {} =>
               \E e \in DelRuleEvents(es, R) : Less(e, f, R)
<1> DEFINE W(e) == [e EXCEPT !.rules = @ \ R]
           Left == {e \in es : e.rules \ R # {}}
<1>1. DelRuleEvents(es, R) = {W(e) : e \in Left}
  BY DEF DelRuleEvents
<1>2. ASSUME NEW e \in Left
      PROVE  /\ W(e).type = e.type /\ W(e).rules = e.rules \ R /\ W(e).time = e.time
             /\ W(e).ival = e.ival /\ W(e) \in Events
  BY EventTypes DEF Events
<1>3. ASSUME NEW e \in Left, NEW f \in Left, W(e).type = W(f).type,
             W(e).rules \cap W(f).rules # {}
      PROVE  e = f
  <2>1. e.type = f.type /\ e.rules \cap f.rules # {}
    BY <1>2, <1>3
  <2>. QED BY <2>1
<1>4. \A e \in Left : e \in es
  OBVIOUS
<1>5. \A f \in es : f.rules \ R # {} => f \in Left
  OBVIOUS
<1>6. \A e \in Left : Less(W(e), e, R)
  BY <1>2 DEF Less
<1> HIDE DEF W, Left
<1>7. DelRuleEvents(es, R) \subseteq Events
  BY <1>1, <1>2
<1>8. \A e, f \in DelRuleEvents(es, R) : e.type = f.type /\ e.rules \cap f.rules # {} => e = f
  BY <1>1, <1>3
<1>. QED BY <1>1, <1>4, <1>5, <1>6, <1>7, <1>8

\* A recurrent event that was executed.
LEMMA AdvancedIs ==
  ASSUME NEW e \in Events, now \in Nat, e.ival > 0
  PROVE  /\ Advanced(e) \in Events /\ Advanced(e).type = e.type
         /\ Advanced(e).rules = e.rules /\ Advanced(e).ival = e.ival
         /\ Advanced(e).time >= now
         /\ \/ Advanced(e).time = now /\ e.time + e.ival < now
            \/ Advanced(e).time = e.time + e.ival
<1> DEFINE t == IF now - (e.time + e.ival) > 0 THEN now ELSE e.time + e.ival
<1>1. /\ e.time \in Nat /\ e.ival \in Nat
      /\ e = [type |-> e.type, rules |-> e.rules, time |-> e.time, ival |-> e.ival]
  BY EventTypes
<1>2. t \in Nat /\ t >= now /\ ((t = now /\ e.time + e.ival < now) \/ t = e.time + e.ival)
  BY <1>1
<1>3. Advanced(e) = [e EXCEPT !.time = t]
  BY DEF Advanced
<1> HIDE DEF t
<1>. QED BY <1>1, <1>2, <1>3 DEF Events

-----------------------------------------------------------------------------
LEMMA SameEvents ==
  ASSUME EventsFit, UNCHANGED <<events, state, desc>>
  PROVE  EventsFit'
BY DEF EventsFit, StateFits

LEMMA SamePace ==
  ASSUME ExportsPaced, UNCHANGED <<events, state, desc, now, ran>>
  PROVE  ExportsPaced'
BY DEF ExportsPaced, Paced

LEMMA Types ==
  ASSUME IInv
  PROVE  /\ now \in Nat /\ now \in 0 .. MaxTime /\ desc \in [Rules -> Descriptions]
         /\ state \in [Rules -> {"new", "valid", "active", "gone"}] /\ ran \in [Rules -> Nat]
         /\ events \subseteq Events /\ EventsFit
         /\ \A e, f \in events : e.type = f.type /\ e.rules \cap f.rules # {} => e = f
BY Bounds DEF IInv, EventsFit

LEMMA InitInvariant == ASSUME Exposed = {}, Init PROVE IInv
<1>1. /\ online \in BOOLEAN /\ desc \in [Rules -> Descriptions]
      /\ online \/ \E r \in Rules : desc[r].start = 0
      /\ state = [r \in Rules |-> "new"] /\ events = {Event("add", Rules, 0, 0)}
      /\ pipe = <<>> /\ now = 0 /\ pc = IF online THEN "top" ELSE "load"
      /\ stop = FALSE /\ dumps = 0 /\ ran = [r \in Rules |-> 0]
  BY DEF Init
<1>2. EventsFit
  <2> DEFINE e == Event("add", Rules, 0, 0)
  <2>1. /\ e \in Events /\ e.type = "add" /\ e.rules = Rules /\ e.ival = 0
    BY Bounds DEF Event, Events
  <2>2. \A r \in Rules : StateFits(e, r)
    BY <1>1, <2>1 DEF StateFits
  <2>3. events = {e}
    BY <1>1
  <2> HIDE DEF e
  <2>4. events \subseteq Events /\ \A f \in events : f = e
    BY <2>1, <2>3
  <2>. QED BY <2>1, <2>2, <2>4 DEF EventsFit
<1>3. TokensFit
  BY <1>1 DEF TokensFit
<1>4. ExportsPaced
  <2>1. \A e \in events : e.type = "add"
    BY <1>1 DEF Event
  <2>. QED BY <1>1, <2>1 DEF ExportsPaced
<1>5. pc = "load" => AtLoad
  BY <1>1 DEF AtLoad
<1>6. /\ state \in [Rules -> {"new", "valid", "active", "gone"}] /\ ran \in [Rules -> Nat]
      /\ pipe \in Seq({"A", "D", "S"}) /\ dumps \in 0 .. MaxDumps /\ now \in 0 .. MaxTime
  BY <1>1, Bounds
<1>7. stop \in BOOLEAN /\ pc \in {"load", "top", "signals", "again", "end", "done"}
  BY <1>1
<1>. QED BY <1>1, <1>2, <1>3, <1>4, <1>5, <1>6, <1>7 DEF IInv

\* What the first event leaves behind.
LEMMA ExecuteIs ==
  ASSUME IInv, NEW e \in events, Execute(e)
  PROVE  /\ state' \in [Rules -> {"new", "valid", "active", "gone"}] /\ ran' \in [Rules -> Nat]
         /\ \A r \in Rules : ran'[r] = IF e.type = "export" /\ r \in e.rules
                                       THEN ran[r] + 1 ELSE ran[r]
         /\ e.type = "add" =>
               events = {e} /\ events' = RuleEvents /\ \A r \in Rules : state'[r] = "valid"
         /\ e.type = "activate" =>
               /\ events' = (events \ {e}) \cup ExportEvents(e.rules)
               /\ \A r \in Rules : state'[r] = IF r \in e.rules THEN "active" ELSE state[r]
         /\ e.type \in {"remove", "request"} =>
               /\ events' = DelRuleEvents(events \ {e}, e.rules)
               /\ \A r \in Rules : state'[r] = IF r \in e.rules THEN "gone" ELSE state[r]
         /\ e.type = "export" =>
               /\ events' = (events \ {e}) \cup {Advanced(e)} /\ e.ival > 0
               /\ \A r \in Rules : state'[r] = state[r]
<1>1. /\ e \in Events /\ e.type \in {"add", "activate", "remove", "request", "export"}
      /\ e.rules \subseteq Rules /\ e.rules # {} /\ e.ival \in Nat
  BY Types, EventTypes
<1>2. /\ e.type = "add" => e.rules = Rules
      /\ e.type # "export" => e.ival = 0
      /\ \A r \in e.rules : StateFits(e, r)
  BY Types DEF EventsFit
<1>3. /\ events' = Rescheduled(EventsAfter(e, events \ {e}), e)
      /\ state' = StateAfter(e)
      /\ ran' = [r \in Rules |-> ran[r] + IF e.type = "export" /\ r \in e.rules THEN 1 ELSE 0]
  BY DEF Execute
<1>4. /\ ran' \in [Rules -> Nat]
      /\ \A r \in Rules : ran'[r] = IF e.type = "export" /\ r \in e.rules
                                    THEN ran[r] + 1 ELSE ran[r]
  <2>1. \A r \in Rules : ran[r] \in Nat
    BY Types
  <2>. QED BY <1>3, <2>1
<1>5. CASE e.type = "add"
  <2>1. events = {e}
    <3>1. ASSUME NEW f \in events PROVE f = e
      <4>1. f \in Events /\ f.rules \subseteq Rules /\ f.rules # {}
        BY Types, EventTypes
      <4>2. PICK r \in f.rules : r \in Rules
        BY <4>1
      <4>3. StateFits(f, r) /\ StateFits(e, r)
        BY <1>2, <1>5, <4>2, Types DEF EventsFit
      <4>4. f.type = "add"
        <5>1. f.type \in {"add", "activate", "remove", "request", "export"}
          BY <4>1, EventTypes
        <5>. QED BY <1>5, <4>3, <5>1 DEF StateFits
      <4>. QED BY <1>2, <1>5, <4>2, <4>4, Types
    <3>. QED BY <3>1
  <2>2. events' = RuleEvents
    BY <1>2, <1>3, <1>5, <2>1 DEF Rescheduled, EventsAfter
  <2>3. state' = [r \in Rules |-> "valid"]
    BY <1>2, <1>3, <1>5 DEF StateAfter
  <2>. QED BY <1>4, <1>5, <2>1, <2>2, <2>3
<1>6. CASE e.type = "activate"
  <2>1. events' = (events \ {e}) \cup ExportEvents(e.rules)
    BY <1>2, <1>3, <1>6 DEF Rescheduled, EventsAfter
  <2>2. state' = [r \in Rules |-> IF r \in e.rules THEN "active" ELSE state[r]]
    BY <1>3, <1>6 DEF StateAfter
  <2>3. \A r \in Rules : state[r] \in {"new", "valid", "active", "gone"}
    BY Types
  <2>. QED BY <1>4, <1>6, <2>1, <2>2, <2>3
<1>7. CASE e.type \in {"remove", "request"}
  <2>1. events' = DelRuleEvents(events \ {e}, e.rules)
    BY <1>2, <1>3, <1>7 DEF Rescheduled, EventsAfter
  <2>2. state' = [r \in Rules |-> IF r \in e.rules THEN "gone" ELSE state[r]]
    BY <1>3, <1>7 DEF StateAfter
  <2>3. \A r \in Rules : state[r] \in {"new", "valid", "active", "gone"}
    BY Types
  <2>. QED BY <1>4, <1>7, <2>1, <2>2, <2>3
<1>8. CASE e.type = "export"
  <2>1. e.ival > 0
    <3>1. PICK r \in e.rules : e.ival = desc[r].interval /\ r \in Rules
      BY <1>1, <1>2, <1>8 DEF StateFits
    <3>. QED BY <3>1, Types, DescTypes
  <2>2. events' = (events \ {e}) \cup {Advanced(e)}
    BY <1>3, <1>8, <2>1 DEF Rescheduled, EventsAfter
  <2>3. state' = [r \in Rules |-> state[r]]
    BY <1>3, <1>8 DEF StateAfter
  <2>4. \A r \in Rules : state[r] \in {"new", "valid", "active", "gone"}
    BY Types
  <2>. QED BY <1>4, <1>8, <2>1, <2>2, <2>3, <2>4
<1>. QED BY <1>1, <1>5, <1>6, <1>7, <1>8

\* The rules of two events of one type are different.
LEMMA Fits ==
  ASSUME IInv, NEW e \in events
  PROVE  /\ e \in Events /\ e.type \in {"add", "activate", "remove", "request", "export"}
         /\ e.rules \subseteq Rules /\ e.rules # {} /\ e.time \in Nat
         /\ e.type = "add" => e.rules = Rules
         /\ e.type # "export" => e.ival = 0
         /\ \A r \in e.rules : StateFits(e, r)
BY Types, EventTypes DEF EventsFit

LEMMA AddFits ==
  ASSUME IInv, UNCHANGED <<desc, now>>, events' = RuleEvents,
         \A r \in Rules : state'[r] = "valid"
  PROVE  EventsFit'
<1>1. /\ events' \subseteq Events
      /\ \A x \in events' :
            /\ x.type \in {"activate", "remove"} /\ x.ival = 0
            /\ \A r \in x.rules : x.type = "activate" => x.time = now + desc[r].start
      /\ \A x, y \in events' : x.type = y.type /\ x.rules \cap y.rules # {} => x = y
  BY Types, RuleEventsAre
<1>2. ASSUME NEW x \in events', NEW r \in x.rules PROVE StateFits(x, r)'
  <2>1. r \in Rules
    BY <1>1, EventTypes
  <2>2. desc[r].start \in Nat /\ now \in Nat
    BY <2>1, Types, DescTypes
  <2>3. x.type = "activate" => x.time >= desc[r].start
    BY <1>1, <2>2
  <2>. QED BY <1>1, <2>1, <2>3 DEF StateFits
<1>. QED BY <1>1, <1>2 DEF EventsFit

LEMMA ActivateFits ==
  ASSUME IInv, UNCHANGED <<desc, now>>, NEW e \in events, e.type = "activate",
         events' = (events \ {e}) \cup ExportEvents(e.rules),
         \A r \in Rules : state'[r] = IF r \in e.rules THEN "active" ELSE state[r]
  PROVE  EventsFit'
<1>1. e.rules \subseteq Rules /\ \A r \in e.rules : state[r] = "valid"
  BY Fits DEF StateFits
<1>2. /\ ExportEvents(e.rules) \subseteq Events
      /\ \A x \in ExportEvents(e.rules) :
            /\ x.type = "export" /\ x.rules \subseteq e.rules
            /\ \A r \in x.rules : x.ival = desc[r].interval
      /\ \A x, y \in ExportEvents(e.rules) : x.rules \cap y.rules # {} => x = y
  BY <1>1, Types, ExportEventsAre
<1>3. ASSUME NEW x \in events \ {e}
      PROVE  /\ x \in Events
             /\ x.type = "add" => x.rules = Rules
             /\ x.type # "export" => x.ival = 0
             /\ \A r \in x.rules : StateFits(x, r)'
  <2>1. ASSUME NEW r \in x.rules PROVE StateFits(x, r)'
    <3>1. r \in Rules /\ StateFits(x, r)
      BY Fits
    <3>2. CASE r \in e.rules
      <4>1. x.type # "activate"
        BY <3>2, Types
      <4>2. x.type \in {"remove", "request"}
        BY <1>1, <3>1, <3>2, <4>1, Fits DEF StateFits
      <4>3. state'[r] = "active"
        BY <3>1, <3>2
      <4>. QED BY <4>2, <4>3 DEF StateFits
    <3>3. CASE r \notin e.rules
      <4>1. state'[r] = state[r]
        BY <3>1, <3>3
      <4>. QED BY <3>1, <4>1 DEF StateFits
    <3>. QED BY <3>2, <3>3
  <2>. QED BY <2>1, Fits
<1>4. ASSUME NEW x \in ExportEvents(e.rules), NEW r \in x.rules PROVE StateFits(x, r)'
  BY <1>1, <1>2 DEF StateFits
<1>5. ASSUME NEW x \in events \ {e}, NEW y \in ExportEvents(e.rules), x.type = y.type,
             NEW r \in x.rules \cap y.rules
      PROVE  FALSE
  <2>1. x.type = "export" /\ r \in e.rules
    BY <1>2, <1>5
  <2>2. state[r] = "active"
    BY <2>1, Fits DEF StateFits
  <2>. QED BY <1>1, <2>1, <2>2
<1>6. \A x, y \in events \ {e} : x.type = y.type /\ x.rules \cap y.rules # {} => x = y
  BY Types
<1>7. \A x, y \in events' : x.type = y.type /\ x.rules \cap y.rules # {} => x = y
  BY <1>2, <1>5, <1>6
<1>8. ASSUME NEW x \in events'
      PROVE  /\ x \in Events
             /\ x.type = "add" => x.rules = Rules
             /\ x.type # "export" => x.ival = 0
             /\ \A r \in x.rules : StateFits(x, r)'
  BY <1>2, <1>3, <1>4
<1>. QED BY <1>7, <1>8 DEF EventsFit

LEMMA RemoveFits ==
  ASSUME IInv, UNCHANGED <<desc, now>>, NEW e \in events, e.type \in {"remove", "request"},
         events' = DelRuleEvents(events \ {e}, e.rules),
         \A r \in Rules : state'[r] = IF r \in e.rules THEN "gone" ELSE state[r]
  PROVE  EventsFit'
<1>1. /\ events' \subseteq Events
      /\ \A x \in events' : \E f \in events : Less(x, f, e.rules)
      /\ \A x, y \in events' : x.type = y.type /\ x.rules \cap y.rules # {} => x = y
  <2> DEFINE es == events \ {e}
  <2>1. es \in SUBSET Events /\ events' = DelRuleEvents(es, e.rules)
    BY Types
  <2>2. \A x, y \in es : x.type = y.type /\ x.rules \cap y.rules # {} => x = y
    BY Types
  <2>3. \A x \in es : x \in events
    OBVIOUS
  <2> HIDE DEF es
  <2>. QED BY <2>1, <2>2, <2>3, DelRuleEventsAre
<1>2. ASSUME NEW x \in events'
      PROVE  /\ x.type = "add" => x.rules = Rules
             /\ x.type # "export" => x.ival = 0
             /\ \A r \in x.rules : StateFits(x, r)'
  <2>0. PICK f \in events : Less(x, f, e.rules)
    BY <1>1
  <2>1. x.type = f.type /\ x.rules = f.rules \ e.rules /\ x.time = f.time /\ x.ival = f.ival
    BY <2>0 DEF Less
  <2>2. x.type # "add"
    <3>1. PICK r \in e.rules : r \in Rules
      BY Fits
    <3>2. state[r] \in {"valid", "active"}
      BY Fits DEF StateFits
    <3>3. ASSUME f.type = "add" PROVE FALSE
      <4>1. state[r] = "new"
        BY <3>1, <3>3, Fits DEF StateFits
      <4>. QED BY <3>2, <4>1
    <3>. QED BY <2>1, <3>3
  <2>3. ASSUME NEW r \in x.rules PROVE StateFits(x, r)'
    <3>1. r \in f.rules /\ r \notin e.rules /\ r \in Rules
      BY <2>1, Fits
    <3>2. StateFits(f, r) /\ state'[r] = state[r]
      BY <3>1, Fits
    <3>3. x.type = f.type /\ x.time = f.time /\ x.ival = f.ival
      BY <2>1
    <3>. QED BY <3>2, <3>3 DEF StateFits
  <2>. QED BY <2>1, <2>2, <2>3, Fits
<1>. QED BY <1>1, <1>2 DEF EventsFit

LEMMA ExportFits ==
  ASSUME IInv, UNCHANGED <<desc, now>>, NEW e \in events, e.type = "export", e.ival > 0,
         events' = (events \ {e}) \cup {Advanced(e)},
         \A r \in Rules : state'[r] = state[r]
  PROVE  EventsFit'
<1>1. /\ Advanced(e) \in Events /\ Advanced(e).type = e.type
      /\ Advanced(e).rules = e.rules /\ Advanced(e).ival = e.ival
  BY Types, AdvancedIs
<1>2. ASSUME NEW x \in events'
      PROVE  \E f \in events : /\ x.type = f.type /\ x.rules = f.rules /\ x.ival = f.ival
                               /\ x = f \/ (f = e /\ x = Advanced(e))
  BY <1>1
<1>3. ASSUME NEW x \in events'
      PROVE  /\ x \in Events
             /\ x.type = "add" => x.rules = Rules
             /\ x.type # "export" => x.ival = 0
             /\ \A r \in x.rules : StateFits(x, r)'
  <2>1. CASE x = Advanced(e)
    <3>1. \A r \in e.rules : StateFits(e, r) /\ state'[r] = state[r]
      BY Fits
    <3>. QED BY <1>1, <2>1, <3>1 DEF StateFits
  <2>2. CASE x \in events
    <3>1. \A r \in x.rules : StateFits(x, r) /\ state'[r] = state[r]
      BY <2>2, Fits
    <3>. QED BY <2>2, <3>1, Fits DEF StateFits
  <2>. QED BY <2>1, <2>2
<1>4. ASSUME NEW x \in events', NEW y \in events', x.type = y.type,
             x.rules \cap y.rules # {}
      PROVE  x = y
  <2>1. \A f \in events : f.type = e.type /\ f.rules \cap e.rules # {} => f = e
    BY Types
  <2>. QED BY <1>1, <1>4, <2>1, Types
<1>. QED BY <1>3, <1>4 DEF EventsFit

LEMMA ExecuteFits ==
  ASSUME IInv, UNCHANGED <<desc, now>>, NEW e \in events, Execute(e)
  PROVE  EventsFit'
<1>1. CASE e.type = "add"
  BY <1>1, ExecuteIs, AddFits
<1>2. CASE e.type = "activate"
  BY <1>2, ExecuteIs, ActivateFits
<1>3. CASE e.type \in {"remove", "request"}
  BY <1>3, ExecuteIs, RemoveFits
<1>4. CASE e.type = "export"
  BY <1>4, ExecuteIs, ExportFits
<1>. QED BY <1>1, <1>2, <1>3, <1>4, Fits
-----------------------------------------------------------------------------
\* What ExportsPaced says of a rule.
LEMMA Pace ==
  ASSUME IInv, ~stop
  PROVE  /\ \A r \in Rules : ran[r] \in Nat /\ ran[r] <= 2
         /\ \A x \in events : x.type = "export" => \A r \in x.rules : Paced(x, r)
         /\ \A r \in Rules : state[r] = "active" =>
               /\ now >= desc[r].start
               /\ \E x \in events : x.type = "export" /\ r \in x.rules
BY DEF IInv, ExportsPaced

LEMMA AddPaces ==
  ASSUME IInv, ~stop, UNCHANGED <<desc, now>>, events' = RuleEvents,
         \A r \in Rules : state'[r] = "valid" /\ ran'[r] = ran[r]
  PROVE  ExportsPaced'
<1>1. \A x \in events' : x.type # "export"
  BY Types, RuleEventsAre
<1>2. \A r \in Rules : ran'[r] <= 2 /\ state'[r] # "active"
  BY Pace
<1>. QED BY <1>1, <1>2 DEF ExportsPaced

LEMMA ActivatePaces ==
  ASSUME IInv, ~stop, UNCHANGED <<desc, now>>, NEW e \in events, e.type = "activate", Due(e),
         events' = (events \ {e}) \cup ExportEvents(e.rules),
         \A r \in Rules : state'[r] = IF r \in e.rules THEN "active" ELSE state[r],
         \A r \in Rules : ran'[r] = ran[r]
  PROVE  ExportsPaced'
<1>1. e.rules \subseteq Rules /\ now \in Nat /\ e.time \in Nat /\ e.time <= now
  BY Fits, Types DEF Due
<1>2. /\ \A x \in ExportEvents(e.rules) :
            /\ x \in Events /\ x.type = "export" /\ x.rules \subseteq e.rules /\ x.time > now
            /\ \A r \in x.rules :
                  x.time <= now + desc[r].interval * IF desc[r].align THEN 2 ELSE 1
      /\ \A r \in e.rules : \E x \in ExportEvents(e.rules) : r \in x.rules
  BY <1>1, Types, ExportEventsAre
<1>3. ASSUME NEW x \in events', x.type = "export", NEW r \in x.rules
      PROVE  Paced(x, r)'
  <2>1. CASE x \in ExportEvents(e.rules)
    <3>1. x.time > now /\ x.time \in Nat /\ r \in Rules
      BY <1>1, <1>2, <2>1, EventTypes
    <3>2. x.time <= now + desc[r].interval * IF desc[r].align THEN 2 ELSE 1
      BY <1>2, <2>1
    <3>. QED BY <1>1, <3>1, <3>2 DEF Paced
  <2>2. CASE x \in events
    <3>1. Paced(x, r) /\ r \in Rules
      BY <1>3, <2>2, Pace, Fits
    <3>. QED BY <3>1 DEF Paced
  <2>. QED BY <2>1, <2>2
<1>4. ASSUME NEW r \in Rules, state'[r] = "active"
      PROVE  now >= desc[r].start /\ \E x \in events' : x.type = "export" /\ r \in x.rules
  <2>1. CASE r \in e.rules
    <3>1. e.time >= desc[r].start
      BY <2>1, Fits DEF StateFits
    <3>2. desc[r].start \in Nat
      BY Types, DescTypes
    <3>3. now >= desc[r].start
      BY <1>1, <3>1, <3>2
    <3>. QED BY <1>2, <2>1, <3>3
  <2>2. CASE r \notin e.rules
    <3>1. state[r] = "active"
      BY <1>4, <2>2
    <3>2. PICK x \in events : x.type = "export" /\ r \in x.rules
      BY <3>1, Pace
    <3>3. x \in events'
      BY <3>2
    <3>. QED BY <3>1, <3>2, <3>3, Pace
  <2>. QED BY <2>1, <2>2
<1>5. \A r \in Rules : ran'[r] <= 2
  BY Pace
<1>. QED BY <1>3, <1>4, <1>5 DEF ExportsPaced

LEMMA RemovePaces ==
  ASSUME IInv, ~stop, UNCHANGED <<desc, now>>, NEW e \in events, e.type \in {"remove", "request"},
         events' = DelRuleEvents(events \ {e}, e.rules),
         \A r \in Rules : state'[r] = IF r \in e.rules THEN "gone" ELSE state[r],
         \A r \in Rules : ran'[r] = ran[r]
  PROVE  ExportsPaced'
<1>1. /\ \A x \in events' : \E f \in events : Less(x, f, e.rules)
      /\ \A f \in events : f # e /\ f.rules \ e.rules # {} =>
            \E x \in events' : Less(x, f, e.rules)
  <2> DEFINE es == events \ {e}
  <2>1. es \in SUBSET Events /\ events' = DelRuleEvents(es, e.rules)
    BY Types
  <2>2. \A x, y \in es : x.type = y.type /\ x.rules \cap y.rules # {} => x = y
    BY Types
  <2>3. /\ \A x \in es : x \in events
        /\ \A x \in events : x # e => x \in es
    OBVIOUS
  <2> HIDE DEF es
  <2>. QED BY <2>1, <2>2, <2>3, DelRuleEventsAre
<1>2. ASSUME NEW x \in events', x.type = "export", NEW r \in x.rules
      PROVE  Paced(x, r)'
  <2>1. PICK f \in events : Less(x, f, e.rules)
    BY <1>1
  <2>2. f.type = "export" /\ r \in f.rules /\ x.time = f.time
    BY <1>2, <2>1 DEF Less
  <2>3. Paced(f, r) /\ r \in Rules
    BY <2>2, Pace, Fits
  <2>4. ran'[r] = ran[r]
    BY <2>3
  <2>. QED BY <2>2, <2>3, <2>4 DEF Paced
<1>3. ASSUME NEW r \in Rules, state'[r] = "active"
      PROVE  now >= desc[r].start /\ \E x \in events' : x.type = "export" /\ r \in x.rules
  <2>1. r \notin e.rules /\ state[r] = "active"
    BY <1>3
  <2>2. PICK f \in events : f.type = "export" /\ r \in f.rules
    BY <2>1, Pace
  <2>3. f # e /\ f.rules \ e.rules # {}
    BY <2>1, <2>2
  <2>4. PICK x \in events' : Less(x, f, e.rules)
    BY <1>1, <2>3
  <2>5. x.type = "export" /\ r \in x.rules
    BY <2>1, <2>2, <2>4 DEF Less
  <2>. QED BY <2>1, <2>5, Pace
<1>4. \A r \in Rules : ran'[r] <= 2
  BY Pace
<1>. QED BY <1>2, <1>3, <1>4 DEF ExportsPaced

LEMMA ExportPaces ==
  ASSUME IInv, ~stop, UNCHANGED <<desc, now>>, NEW e \in events, e.type = "export", e.ival > 0,
         Due(e), events' = (events \ {e}) \cup {Advanced(e)},
         \A r \in Rules : state'[r] = state[r],
         \A r \in Rules : ran'[r] = IF r \in e.rules THEN ran[r] + 1 ELSE ran[r]
  PROVE  ExportsPaced'
<1>0. PICK a : a = Advanced(e)
  OBVIOUS
<1>1. /\ a \in Events /\ a.type = "export" /\ a.rules = e.rules
      /\ a.time >= now /\ a.time \in Nat
      /\ (a.time = now /\ e.time + e.ival < now) \/ a.time = e.time + e.ival
      /\ \A x \in events' : x = a \/ x \in events \ {e}
      /\ a \in events' /\ \A x \in events : x # e => x \in events'
  BY <1>0, Types, AdvancedIs, EventTypes
<1>2. e.time \in Nat /\ now \in Nat /\ e.time <= now
  BY Fits, Types DEF Due
<1>3. ASSUME NEW r \in e.rules
      PROVE  Paced(a, r)' /\ ran'[r] <= 2
  <2>1. r \in Rules /\ e.ival = desc[r].interval /\ Paced(e, r)
    BY Pace, Fits DEF StateFits
  <2>2. desc[r].interval \in Nat /\ desc[r].interval > 0 /\ desc[r].align \in BOOLEAN
    BY <2>1, Types, DescTypes
  <2>3. ran[r] \in Nat /\ ran[r] <= 2 /\ ran'[r] = ran[r] + 1
    BY <2>1, Pace
  <2>4. (ran[r] >= 1 => e.time >= now) /\ (ran[r] = 2 => e.time > now)
    BY <2>1 DEF Paced
  <2>5. ran[r] = 0 \/ (ran[r] = 1 /\ e.time = now)
    BY <1>2, <2>3, <2>4
  <2>6. a.time <= now + desc[r].interval * IF desc[r].align THEN 2 ELSE 1
    BY <1>1, <1>2, <2>1, <2>2
  <2>7. ran'[r] = 2 => a.time > now
    <3>1. ASSUME ran'[r] = 2 PROVE e.time = now /\ ran[r] = 1
      BY <2>3, <2>5, <3>1
    <3>. QED BY <1>1, <1>2, <2>1, <2>2, <3>1
  <2>8. ran'[r] <= 2
    BY <2>3, <2>5
  <2>. QED BY <1>1, <2>6, <2>7, <2>8 DEF Paced
<1>4. ASSUME NEW x \in events', x.type = "export", NEW r \in x.rules
      PROVE  Paced(x, r)'
  <2>1. CASE x = a
    BY <1>1, <1>3, <1>4, <2>1
  <2>2. CASE x \in events \ {e}
    <3>1. Paced(x, r) /\ r \in Rules
      BY <1>4, <2>2, Pace, Fits
    <3>2. r \notin e.rules
      BY <1>4, <2>2, Types
    <3>3. ran'[r] = ran[r]
      BY <3>1, <3>2
    <3>. QED BY <3>1, <3>3 DEF Paced
  <2>. QED BY <1>1, <2>1, <2>2
<1>5. ASSUME NEW r \in Rules, state'[r] = "active"
      PROVE  now >= desc[r].start /\ \E x \in events' : x.type = "export" /\ r \in x.rules
  <2>1. state[r] = "active"
    BY <1>5
  <2>2. PICK f \in events : f.type = "export" /\ r \in f.rules
    BY <2>1, Pace
  <2>3. CASE f = e
    BY <1>1, <2>1, <2>2, <2>3, Pace
  <2>4. CASE f # e
    BY <1>1, <2>1, <2>2, <2>4, Pace
  <2>. QED BY <2>3, <2>4
<1>6. \A r \in Rules : ran'[r] <= 2
  <2>1. ASSUME NEW r \in Rules PROVE ran'[r] <= 2
    <3>1. r \notin e.rules => ran'[r] = ran[r]
      BY <2>1
    <3>. QED BY <1>3, <3>1, Pace
  <2>. QED BY <2>1
<1>. QED BY <1>4, <1>5, <1>6 DEF ExportsPaced

LEMMA ExecutePaces ==
  ASSUME IInv, ~stop, UNCHANGED <<desc, now>>, NEW e \in events, Due(e), Execute(e)
  PROVE  ExportsPaced'
<1>0. \A r \in Rules : e.type # "export" => ran'[r] = ran[r]
  BY ExecuteIs
<1>1. CASE e.type = "add"
  BY <1>0, <1>1, ExecuteIs, AddPaces
<1>2. CASE e.type = "activate"
  BY <1>0, <1>2, ExecuteIs, ActivatePaces
<1>3. CASE e.type \in {"remove", "request"}
  BY <1>0, <1>3, ExecuteIs, RemovePaces
<1>4. CASE e.type = "export"
  BY <1>4, ExecuteIs, ExportPaces
<1>. QED BY <1>1, <1>2, <1>3, <1>4, Fits

\* The clock moves on.
LEMMA Later ==
  ASSUME IInv, ~stop, UNCHANGED <<desc, state, events>>, now' \in Nat, now' >= now,
         (now' = now /\ ran' = ran) \/ \A r \in Rules : ran'[r] = 0
  PROVE  ExportsPaced'
<1>1. ASSUME NEW x \in events, x.type = "export", NEW r \in x.rules
      PROVE  Paced(x, r)'
  <2>1. r \in Rules /\ Paced(x, r) /\ x.time \in Nat
    BY <1>1, Pace, Fits
  <2>2. /\ desc[r].interval \in Nat /\ desc[r].align \in BOOLEAN /\ now \in Nat
    BY <2>1, Types, DescTypes
  <2>3. x.time <= now + desc[r].interval * IF desc[r].align THEN 2 ELSE 1
    BY <2>1 DEF Paced
  <2>4. x.time <= now' + desc[r].interval * IF desc[r].align THEN 2 ELSE 1
    BY <2>1, <2>2, <2>3
  <2>5. CASE now' = now /\ ran' = ran
    BY <2>1, <2>5 DEF Paced
  <2>6. CASE \A q \in Rules : ran'[q] = 0
    BY <2>1, <2>4, <2>6 DEF Paced
  <2>. QED BY <2>5, <2>6
<1>2. ASSUME NEW r \in Rules, state[r] = "active"
      PROVE  now' >= desc[r].start /\ \E x \in events : x.type = "export" /\ r \in x.rules
  <2>1. desc[r].start \in Nat /\ now \in Nat
    BY Types, DescTypes
  <2>. QED BY <1>2, <2>1, Pace
<1>3. \A r \in Rules : ran'[r] <= 2
  BY Pace
<1>. QED BY <1>1, <1>2, <1>3 DEF ExportsPaced
-----------------------------------------------------------------------------
\* The first event is due if any is.
LEMMA FirstIsDue ==
  ASSUME IInv
  PROVE  /\ \A e \in First(events) : e \in events
         /\ (\E f \in events : Due(f)) => \A e \in First(events) : Due(e)
<1>1. /\ \A e \in First(events) : e \in events /\ \A f \in events : e.time <= f.time
      /\ \A f \in events : f.time \in Nat
      /\ now \in Nat
  BY Fits, Types DEF First
<1>. QED BY <1>1 DEF Due

\* The pipe by what the main loop does to it.
LEMMA Tokens ==
  ASSUME IInv, ~stop
  PROVE  /\ pipe \in {<<>>, <<"D">>, <<"S">>, <<"D", "S">>, <<"A">>, <<"A", "S">>, <<"S", "A">>}
         /\ pipe \in {<<"A">>, <<"A", "S">>, <<"S", "A">>} =>
                pc = "signals" /\ \E e \in events : Due(e)
         /\ pipe \in {<<"D">>, <<"D", "S">>} => online /\ \A e \in events : ~Due(e)
BY DEF IInv, TokensFit

LEMMA PairIs ==
  ASSUME NEW a, NEW b
  PROVE  Append(<<a>>, b) = <<a, b>>
<1> DEFINE S == {a, b}
           s == Append(<<a>>, b)
           t == <<a, b>>
<1>1. <<a>> \in Seq(S) /\ Len(<<a>>) = 1 /\ <<a>>[1] = a
  OBVIOUS
<1>2. s \in Seq(S) /\ Len(s) = 2 /\ s[1] = a /\ s[2] = b
  BY <1>1, AppendProperties
<1>3. t \in Seq(S) /\ Len(t) = 2 /\ t[1] = a /\ t[2] = b
  OBVIOUS
<1> HIDE DEF s, t
<1>4. \A i \in 1 .. Len(s) : i = 1 \/ i = 2
  BY <1>2
<1>5. s = t
  BY <1>2, <1>3, <1>4, SeqEqual
<1>. QED BY <1>5 DEF s, t

\* The pipes that the loop can see, a token longer or shorter.
LEMMA Appended ==
  /\ Append(<<>>, "A") = <<"A">> /\ Append(<<"S">>, "A") = <<"S", "A">>
  /\ Append(<<>>, "S") = <<"S">> /\ Append(<<"A">>, "S") = <<"A", "S">>
  /\ Append(<<"D">>, "S") = <<"D", "S">> /\ Append(<<>>, "D") = <<"D">>
<1>1. Append(<<>>, "A") = <<"A">> /\ Append(<<>>, "S") = <<"S">> /\ Append(<<>>, "D") = <<"D">>
  OBVIOUS
<1>2. Append(<<"S">>, "A") = <<"S", "A">>
  BY PairIs
<1>3. Append(<<"A">>, "S") = <<"A", "S">>
  BY PairIs
<1>4. Append(<<"D">>, "S") = <<"D", "S">>
  BY PairIs
<1>. QED BY <1>1, <1>2, <1>3, <1>4

LEMMA Taken ==
  ASSUME NEW p \in {<<"D">>, <<"S">>, <<"D", "S">>, <<"A">>, <<"A", "S">>, <<"S", "A">>},
         Head(p) # "S"
  PROVE  /\ Tail(p) \in {<<>>, <<"S">>}
         /\ Head(p) = "A" => p \in {<<"A">>, <<"A", "S">>}
<1>1. CASE p = <<"D">>
  BY <1>1
<1>2. CASE p = <<"S">>
  BY <1>2
<1>3. CASE p = <<"D", "S">>
  BY <1>3
<1>4. CASE p = <<"A">>
  BY <1>4
<1>5. CASE p = <<"A", "S">>
  BY <1>5
<1>6. CASE p = <<"S", "A">>
  BY <1>6
<1>. QED BY <1>1, <1>2, <1>3, <1>4, <1>5, <1>6

LEMMA LoadRulesKeeps == ASSUME IInv, LoadRules PROVE IInv'
<1>1. /\ pc = "load" /\ pc' = "top"
      /\ UNCHANGED <<online, desc, pipe, now, stop, dumps, ran>>
  BY DEF LoadRules
<1>2. /\ ~stop /\ now = 0 /\ pipe = <<>> /\ \A r \in Rules : ran[r] = 0
      /\ \E r \in Rules : desc[r].start = 0
  BY <1>1 DEF IInv, AtLoad
<1>3. PICK e \in First(RuleEvents) :
         /\ events' = (RuleEvents \ {e}) \cup ExportEvents(e.rules)
         /\ state' = [r \in Rules |-> IF r \in e.rules THEN "active" ELSE "valid"]
  BY DEF LoadRules
<1>4. /\ \A x \in RuleEvents :
            /\ x \in Events /\ x.type \in {"activate", "remove"} /\ x.ival = 0
            /\ \A r \in x.rules : x.type = "activate" => x.time = now + desc[r].start
            /\ x.type = "remove" => x.time > now
      /\ \A x, y \in RuleEvents : x.type = y.type /\ x.rules \cap y.rules # {} => x = y
      /\ \A r \in Rules : \E x \in RuleEvents :
               x.type = "activate" /\ r \in x.rules /\ x.time = now + desc[r].start
  BY Types, RuleEventsAre
<1>5. e \in RuleEvents /\ e \in Events /\ e.rules \subseteq Rules /\ e.time \in Nat
  BY <1>3, <1>4, EventTypes DEF First
<1>6. e.time = 0
  <2>1. PICK f \in RuleEvents : f.time = 0
    BY <1>2, <1>4
  <2>2. e.time <= f.time
    BY <1>3, <2>1 DEF First
  <2>. QED BY <1>5, <2>1, <2>2
<1>7. e.type = "activate"
  BY <1>2, <1>4, <1>5, <1>6
<1>8. \A r \in e.rules : desc[r].start = 0
  <2>1. ASSUME NEW r \in e.rules PROVE desc[r].start = 0
    <3>1. e.time = now + desc[r].start /\ desc[r].start \in Nat
      BY <1>4, <1>5, <1>7, Types, DescTypes
    <3>. QED BY <1>2, <1>6, <3>1
  <2>. QED BY <2>1
<1>9. /\ \A x \in ExportEvents(e.rules) :
            /\ x \in Events /\ x.type = "export" /\ x.rules \subseteq e.rules /\ x.time > now
            /\ \A r \in x.rules :
                  /\ x.ival = desc[r].interval
                  /\ x.time <= now + desc[r].interval * IF desc[r].align THEN 2 ELSE 1
      /\ \A x, y \in ExportEvents(e.rules) : x.rules \cap y.rules # {} => x = y
      /\ \A r \in e.rules : \E x \in ExportEvents(e.rules) : r \in x.rules
  BY <1>5, Types, ExportEventsAre
<1>10. \A r \in Rules : state'[r] = IF r \in e.rules THEN "active" ELSE "valid"
  BY <1>3
<1>11. \A x \in events' : x \in ExportEvents(e.rules) \/ (x \in RuleEvents /\ x # e)
  BY <1>3
<1>12. EventsFit'
  <2>1. ASSUME NEW x \in RuleEvents, x # e, NEW r \in x.rules PROVE StateFits(x, r)'
    <3>1. r \in Rules /\ desc[r].start \in Nat
      BY <1>4, <2>1, EventTypes, Types, DescTypes
    <3>2. CASE x.type = "activate"
      <4>1. r \notin e.rules
        BY <1>4, <1>5, <1>7, <2>1, <3>2
      <4>2. x.time >= desc[r].start
        BY <1>2, <1>4, <2>1, <3>1, <3>2
      <4>3. state'[r] = "valid" /\ desc' = desc
        BY <1>1, <1>10, <3>1, <4>1
      <4>. QED BY <3>2, <4>2, <4>3 DEF StateFits
    <3>3. CASE x.type = "remove"
      <4>1. state'[r] \in {"valid", "active"}
        BY <1>10, <3>1
      <4>. QED BY <3>3, <4>1 DEF StateFits
    <3>. QED BY <1>4, <2>1, <3>2, <3>3
  <2>2. ASSUME NEW x \in ExportEvents(e.rules), NEW r \in x.rules PROVE StateFits(x, r)'
    <3>1. x.type = "export" /\ r \in e.rules /\ r \in Rules /\ x.ival = desc[r].interval
      BY <1>5, <1>9, <2>2
    <3>2. state'[r] = "active" /\ desc' = desc
      BY <1>1, <1>10, <3>1
    <3>. QED BY <3>1, <3>2 DEF StateFits
  <2>3. ASSUME NEW x \in events'
        PROVE  /\ x \in Events
               /\ x.type = "add" => x.rules = Rules
               /\ x.type # "export" => x.ival = 0
               /\ \A r \in x.rules : StateFits(x, r)'
    BY <1>4, <1>9, <1>11, <2>1, <2>2
  <2>4. \A x, y \in events' : x.type = y.type /\ x.rules \cap y.rules # {} => x = y
    BY <1>4, <1>9, <1>11
  <2>. QED BY <2>3, <2>4 DEF EventsFit
<1>13. ExportsPaced'
  <2>1. \A r \in Rules : ran'[r] = 0 /\ desc'[r] = desc[r]
    BY <1>1, <1>2
  <2>2. ASSUME NEW x \in events', x.type = "export", NEW r \in x.rules PROVE Paced(x, r)'
    <3>1. x \in ExportEvents(e.rules)
      BY <1>4, <1>11, <2>2
    <3>2. r \in Rules /\ x.time <= now + desc[r].interval * IF desc[r].align THEN 2 ELSE 1
      BY <1>5, <1>9, <2>2, <3>1
    <3>3. ran'[r] = 0 /\ desc' = desc /\ now' = now
      BY <1>1, <2>1, <3>2
    <3>. QED BY <3>2, <3>3 DEF Paced
  <2>3. ASSUME NEW r \in Rules, state'[r] = "active"
        PROVE  /\ now' >= desc'[r].start
               /\ \E x \in events' : x.type = "export" /\ r \in x.rules
    <3>1. r \in e.rules
      BY <1>10, <2>3
    <3>2. now' >= desc'[r].start
      BY <1>1, <1>2, <1>8, <2>1, <3>1
    <3>3. PICK x \in ExportEvents(e.rules) : r \in x.rules /\ x.type = "export"
      BY <1>9, <3>1
    <3>. QED BY <1>3, <3>2, <3>3
  <2>. QED BY <2>1, <2>2, <2>3 DEF ExportsPaced
<1>14. TokensFit'
  <2>1. pipe' = <<>>
    BY <1>1, <1>2
  <2>. QED BY <2>1 DEF TokensFit
<1>15. state' \in [Rules -> {"new", "valid", "active", "gone"}]
  BY <1>3
<1>16. /\ online' = online /\ desc' = desc /\ pipe' = pipe /\ now' = now /\ stop' = stop
       /\ dumps' = dumps /\ ran' = ran
  BY <1>1
<1>. QED BY <1>1, <1>12, <1>13, <1>14, <1>15, <1>16 DEF IInv

LEMMA PollKeeps ==
  ASSUME IInv, Poll, pc' = "signals",
         UNCHANGED <<online, desc, state, events, now, stop, dumps, ran>>, pc # "signals"
  PROVE  IInv'
<1>1. pipe \in Seq({"A", "D", "S"})
  BY DEF IInv
<1>2. pipe' = Append(pipe, "A") \/ pipe' = pipe
  BY DEF Poll
<1>3. pipe' \in Seq({"A", "D", "S"})
  BY <1>1, <1>2
<1>4. ~stop => TokensFit'
  <2> SUFFICES ASSUME ~stop PROVE TokensFit'
    OBVIOUS
  <2>1. /\ pipe \in {<<>>, <<"D">>, <<"S">>, <<"D", "S">>}
        /\ pipe \in {<<"D">>, <<"D", "S">>} => online /\ \A e \in events : ~Due(e)
    BY Tokens
  <2>2. CASE \E e \in First(events) : Due(e)
    <3>1. \E e \in events : Due(e)
      BY <2>2, FirstIsDue
    <3>2. pipe \in {<<>>, <<"S">>}
      BY <2>1, <3>1
    <3>3. pipe' = Append(pipe, "A")
      BY <2>2 DEF Poll
    <3>4. pipe' \in {<<"A">>, <<"S", "A">>}
      BY <3>2, <3>3, Appended
    <3>5. (\E e \in events : Due(e))'
      BY <3>1 DEF Due
    <3>. QED BY <3>4, <3>5 DEF TokensFit
  <2>3. CASE ~\E e \in First(events) : Due(e)
    <3>1. pipe' = pipe
      BY <2>3 DEF Poll
    <3>2. online' = online /\ events' = events /\ now' = now
      OBVIOUS
    <3>. QED BY <2>1, <3>1, <3>2 DEF TokensFit, Due
  <2>. QED BY <2>2, <2>3
<1>5. EventsFit'
  BY Types, SameEvents
<1>6. ~stop => ExportsPaced'
  BY SamePace DEF IInv
<1>. QED BY <1>3, <1>4, <1>5, <1>6 DEF IInv

LEMMA ReadTraceKeeps == ASSUME IInv, ReadTrace PROVE IInv'
<1>1. /\ pc = "top" /\ ~online /\ pc' = "again"
      /\ UNCHANGED <<online, desc, state, events, pipe, dumps>>
  BY DEF ReadTrace
<1>2. EventsFit'
  BY <1>1, Types, SameEvents
<1>3. CASE stop' = TRUE /\ UNCHANGED <<now, ran>>
  BY <1>1, <1>2, <1>3 DEF IInv
<1>4. CASE \E t \in now .. MaxTime : /\ now' = t
                                     /\ ran' = IF t > now THEN [r \in Rules |-> 0] ELSE ran
                                     /\ UNCHANGED stop
  <2>1. PICK t \in now .. MaxTime : /\ now' = t
                                    /\ ran' = IF t > now THEN [r \in Rules |-> 0] ELSE ran
                                    /\ stop' = stop
    BY <1>4
  <2>2. now \in Nat /\ MaxTime \in Nat
    BY Types, Bounds
  <2>3. now' \in Nat /\ now' >= now /\ now' \in 0 .. MaxTime
    BY <2>1, <2>2
  <2>4. /\ ran' \in [Rules -> Nat]
        /\ (now' = now /\ ran' = ran) \/ \A r \in Rules : ran'[r] = 0
    <3>1. CASE t > now
      BY <2>1, <3>1
    <3>2. CASE ~(t > now)
      BY <2>1, <2>2, <3>2, Types
    <3>. QED BY <3>1, <3>2
  <2>5. ~stop => ExportsPaced'
    BY <1>1, <2>3, <2>4, Later
  <2>6. ~stop => TokensFit'
    <3>1. ASSUME ~stop PROVE pipe' \in {<<>>, <<"S">>}
      BY <1>1, <3>1, Tokens
    <3>. QED BY <3>1 DEF TokensFit
  <2>. QED BY <1>1, <1>2, <2>1, <2>3, <2>4, <2>5, <2>6 DEF IInv
<1>. QED BY <1>3, <1>4 DEF ReadTrace
LEMMA ReadTokenKeeps == ASSUME IInv, ReadToken PROVE IInv'
<1>1. /\ pc = "signals" /\ pipe # <<>> /\ pipe' = Tail(pipe)
      /\ pc' \in {"end", "again"} /\ stop' = (stop \/ Head(pipe) = "S")
      /\ UNCHANGED <<online, desc, now, dumps>>
  BY DEF ReadToken
<1>2. pipe \in Seq({"A", "D", "S"}) /\ stop \in BOOLEAN
  BY DEF IInv
<1>3. pipe' \in Seq({"A", "D", "S"}) /\ stop' \in BOOLEAN
  <2>1. stop' \in BOOLEAN
    BY <1>1, <1>2
  <2>2. Tail(pipe) \in Seq({"A", "D", "S"})
    BY <1>1, <1>2
  <2>. QED BY <1>1, <2>1, <2>2
<1>4. ASSUME ~stop'
      PROVE  /\ ~stop /\ Head(pipe) # "S" /\ pipe' \in {<<>>, <<"S">>}
             /\ Head(pipe) = "A" => \A e \in First(events) : Due(e)
  <2>1. ~stop /\ Head(pipe) # "S"
    BY <1>1, <1>2, <1>4
  <2>2. pipe \in {<<"D">>, <<"S">>, <<"D", "S">>, <<"A">>, <<"A", "S">>, <<"S", "A">>}
    BY <1>1, <2>1, Tokens
  <2>3. Tail(pipe) \in {<<>>, <<"S">>} /\ (Head(pipe) = "A" => pipe \in {<<"A">>, <<"A", "S">>})
    BY <2>1, <2>2, Taken
  <2>4. pipe \in {<<"A">>, <<"A", "S">>} => \E e \in events : Due(e)
    BY <2>1, Tokens
  <2>. QED BY <1>1, <2>1, <2>3, <2>4, FirstIsDue
<1>5. ~stop' => TokensFit'
  BY <1>4 DEF TokensFit
<1>6. CASE \E e \in events : Head(pipe) = "A" /\ Execute(e)
  <2>1. PICK e \in events : Head(pipe) = "A" /\ Execute(e)
    BY <1>6
  <2>2. desc' = desc /\ now' = now
    BY <1>1
  <2>3. EventsFit'
    BY <2>1, <2>2, ExecuteFits
  <2>4. e \in First(events)
    BY <2>1 DEF Execute
  <2>5. ~stop' => ~stop /\ Due(e)
    BY <1>4, <2>1, <2>4
  <2>6. ~stop' => ExportsPaced'
    BY <2>1, <2>2, <2>5, ExecutePaces
  <2>7. state' \in [Rules -> {"new", "valid", "active", "gone"}] /\ ran' \in [Rules -> Nat]
    BY <2>1, ExecuteIs
  <2>. QED BY <1>1, <1>3, <1>5, <2>3, <2>6, <2>7 DEF IInv
<1>7. CASE UNCHANGED <<events, state, ran>>
  <2>1. EventsFit'
    BY <1>1, <1>7, Types, SameEvents
  <2>2. ~stop' => ExportsPaced'
    <3>1. ~stop => ExportsPaced
      BY DEF IInv
    <3>. QED BY <1>1, <1>4, <1>7, <3>1, SamePace
  <2>. QED BY <1>1, <1>3, <1>5, <1>7, <2>1, <2>2 DEF IInv
<1>. QED BY <1>6, <1>7 DEF ReadToken

LEMMA NoTokenKeeps == ASSUME IInv, NoToken PROVE IInv'
<1>1. /\ pc = "signals" /\ pipe = <<>> /\ pc' = "end"
      /\ UNCHANGED <<online, desc, state, pipe, now, stop, dumps, ran>>
  BY DEF NoToken
<1>2. TokensFit'
  BY <1>1 DEF TokensFit
<1>3. CASE UNCHANGED events
  <2>1. EventsFit'
    BY <1>1, <1>3, Types, SameEvents
  <2>2. ~stop => ExportsPaced'
    BY <1>1, <1>3, SamePace DEF IInv
  <2>. QED BY <1>1, <1>2, <2>1, <2>2 DEF IInv
<1>4. CASE \E r \in Rules : /\ state[r] \in {"valid", "active"}
                            /\ \A e \in events : e.type # "request"
                            /\ events' = events \cup {Event("request", {r}, now, 0)}
  <2>1. PICK r \in Rules : /\ state[r] \in {"valid", "active"}
                           /\ \A e \in events : e.type # "request"
                           /\ events' = events \cup {Event("request", {r}, now, 0)}
    BY <1>4
  <2>2. PICK a : a = Event("request", {r}, now, 0)
    OBVIOUS
  <2>3. a \in Events /\ a.type = "request" /\ a.rules = {r} /\ a.ival = 0
    BY <2>2, Types DEF Event, Events
  <2>4. events' = events \cup {a}
    BY <2>1, <2>2
  <2>5. EventsFit'
    <3>1. ASSUME NEW x \in events, NEW q \in x.rules PROVE StateFits(x, q)'
      <4>1. StateFits(x, q)
        BY <3>1, Fits
      <4>. QED BY <1>1, <4>1 DEF StateFits
    <3>2. \A q \in a.rules : StateFits(a, q)'
      BY <1>1, <2>1, <2>3 DEF StateFits
    <3>3. ASSUME NEW x \in events'
          PROVE  /\ x \in Events
                 /\ x.type = "add" => x.rules = Rules
                 /\ x.type # "export" => x.ival = 0
                 /\ \A q \in x.rules : StateFits(x, q)'
      <4>1. CASE x = a
        BY <2>3, <3>2, <4>1
      <4>2. CASE x \in events
        BY <3>1, <4>2, Fits
      <4>. QED BY <2>4, <4>1, <4>2
    <3>4. \A x, y \in events : x.type = y.type /\ x.rules \cap y.rules # {} => x = y
      BY Types
    <3>5. \A x, y \in events' : x.type = y.type /\ x.rules \cap y.rules # {} => x = y
      BY <2>1, <2>3, <2>4, <3>4
    <3>. QED BY <3>3, <3>5 DEF EventsFit
  <2>6. ~stop => ExportsPaced'
    <3> SUFFICES ASSUME ~stop PROVE ExportsPaced'
      OBVIOUS
    <3>1. ASSUME NEW x \in events', x.type = "export", NEW q \in x.rules PROVE Paced(x, q)'
      <4>1. x \in events
        BY <2>3, <2>4, <3>1
      <4>2. Paced(x, q)
        BY <3>1, <4>1, Pace
      <4>. QED BY <1>1, <4>2 DEF Paced
    <3>2. ASSUME NEW q \in Rules, state'[q] = "active"
          PROVE  /\ now' >= desc'[q].start
                 /\ \E x \in events' : x.type = "export" /\ q \in x.rules
      <4>1. state[q] = "active"
        BY <1>1, <3>2
      <4>2. now >= desc[q].start /\ \E x \in events : x.type = "export" /\ q \in x.rules
        BY <4>1, Pace
      <4>. QED BY <1>1, <2>4, <4>2
    <3>3. \A q \in Rules : ran'[q] <= 2
      BY <1>1, Pace
    <3>. QED BY <3>1, <3>2, <3>3 DEF ExportsPaced
  <2>. QED BY <1>1, <1>2, <2>5, <2>6 DEF IInv
<1>. QED BY <1>3, <1>4 DEF NoToken

LEMMA EndRoundKeeps == ASSUME IInv, EndRound PROVE IInv'
<1>1. /\ pc = "end" /\ ~stop /\ pc' = "top"
      /\ UNCHANGED <<online, desc, state, events, pipe, now, stop, dumps, ran>>
  BY DEF EndRound
<1>2. EventsFit' /\ ExportsPaced'
  BY <1>1, Types, SameEvents, SamePace DEF IInv
<1>3. TokensFit'
  <2>1. /\ pipe \in {<<>>, <<"D">>, <<"S">>, <<"D", "S">>}
        /\ pipe \in {<<"D">>, <<"D", "S">>} => online /\ \A e \in events : ~Due(e)
    BY <1>1, Tokens
  <2>2. pipe' = pipe /\ online' = online /\ events' = events /\ now' = now
    BY <1>1
  <2>. QED BY <2>1, <2>2 DEF TokensFit, Due
<1>. QED BY <1>1, <1>2, <1>3 DEF IInv

LEMMA ShutdownKeeps == ASSUME IInv, Shutdown PROVE IInv'
<1>1. /\ pc = "end" /\ stop /\ pc' = "done" /\ events' = {}
      /\ UNCHANGED <<online, desc, state, pipe, now, stop, dumps, ran>>
  BY DEF Shutdown
<1>2. EventsFit'
  BY <1>1 DEF EventsFit
<1>. QED BY <1>1, <1>2 DEF IInv

LEMMA TickKeeps == ASSUME Exposed = {}, IInv, Tick PROVE IInv'
<1>1. /\ online /\ now < MaxTime /\ ~InPipe("D") /\ now' = now + 1
      /\ ran' = [r \in Rules |-> 0]
      /\ UNCHANGED <<online, desc, state, events, pipe, pc, stop, dumps>>
  BY DEF Tick
<1>2. now \in Nat /\ MaxTime \in Nat
  BY Types, Bounds
<1>3. now' \in Nat /\ now' >= now /\ now' \in 0 .. MaxTime
  BY <1>1, <1>2
<1>4. EventsFit'
  BY <1>1, Types, SameEvents
<1>5. ran' \in [Rules -> Nat] /\ \A r \in Rules : ran'[r] = 0
  BY <1>1
<1>6. ~stop => ExportsPaced'
  BY <1>1, <1>3, <1>5, Later
<1>7. ~stop => TokensFit'
  <2> SUFFICES ASSUME ~stop PROVE TokensFit'
    OBVIOUS
  <2>1. pipe \notin {<<"D">>, <<"D", "S">>}
    <3>1. pipe # <<"D">>
      BY <1>1 DEF InPipe
    <3>2. pipe # <<"D", "S">>
      BY <1>1 DEF InPipe
    <3>. QED BY <3>1, <3>2
  <2>2. /\ pipe \in {<<>>, <<"S">>, <<"A">>, <<"A", "S">>, <<"S", "A">>}
        /\ pipe \in {<<"A">>, <<"A", "S">>, <<"S", "A">>} =>
               pc = "signals" /\ \E e \in events : Due(e)
    BY <2>1, Tokens
  <2>3. (\E e \in events : Due(e)) => (\E e \in events : Due(e))'
    <3>1. \A e \in events : e.time \in Nat
      BY Fits
    <3>. QED BY <1>1, <1>2, <3>1 DEF Due
  <2>4. pipe' = pipe /\ pc' = pc
    BY <1>1
  <2>. QED BY <2>2, <2>3, <2>4 DEF TokensFit
<1>8. pc # "load"
  BY <1>1 DEF IInv, AtLoad
<1>. QED BY <1>1, <1>3, <1>4, <1>5, <1>6, <1>7, <1>8 DEF IInv

LEMMA InterruptKeeps == ASSUME IInv, Interrupt PROVE IInv'
<1>1. /\ pc # "load" /\ ~stop /\ ~InPipe("S") /\ pipe' = Append(pipe, "S")
      /\ UNCHANGED <<online, desc, state, events, now, pc, stop, dumps, ran>>
  BY DEF Interrupt
<1>2. EventsFit' /\ ExportsPaced'
  BY <1>1, Types, SameEvents, SamePace DEF IInv
<1>3. pipe \in Seq({"A", "D", "S"})
  BY DEF IInv
<1>4. pipe' \in Seq({"A", "D", "S"})
  BY <1>1, <1>3
<1>5. pipe \in {<<>>, <<"D">>, <<"A">>}
  <2>1. pipe # <<"S">>
    BY <1>1 DEF InPipe
  <2>2. pipe # <<"D", "S">>
    BY <1>1 DEF InPipe
  <2>3. pipe # <<"A", "S">>
    BY <1>1 DEF InPipe
  <2>4. pipe # <<"S", "A">>
    BY <1>1 DEF InPipe
  <2>. QED BY <1>1, <2>1, <2>2, <2>3, <2>4, Tokens
<1>6. /\ pipe' \in {<<"S">>, <<"D", "S">>, <<"A", "S">>}
      /\ pipe' = <<"A", "S">> => pipe = <<"A">>
      /\ pipe' = <<"D", "S">> => pipe = <<"D">>
  <2>1. CASE pipe = <<>>
    BY <1>1, <2>1, Appended
  <2>2. CASE pipe = <<"D">>
    BY <1>1, <2>2, Appended
  <2>3. CASE pipe = <<"A">>
    BY <1>1, <2>3, Appended
  <2>. QED BY <1>5, <2>1, <2>2, <2>3
<1>7. TokensFit'
  <2>1. /\ pipe = <<"A">> => pc = "signals" /\ \E e \in events : Due(e)
        /\ pipe = <<"D">> => online /\ \A e \in events : ~Due(e)
    BY <1>1, Tokens
  <2>2. online' = online /\ pc' = pc /\ events' = events /\ now' = now
    BY <1>1
  <2>. QED BY <1>6, <2>1, <2>2 DEF TokensFit, Due
<1>. QED BY <1>1, <1>2, <1>4, <1>7 DEF IInv

LEMMA DumpKeeps == ASSUME Exposed = {}, IInv, Dump PROVE IInv'
<1>1. /\ pc # "load" /\ dumps < MaxDumps /\ dumps' = dumps + 1
      /\ pipe = <<>> /\ online /\ \A e \in events : ~Due(e)
      /\ pipe' = Append(pipe, "D")
      /\ UNCHANGED <<online, desc, state, events, now, pc, stop, ran>>
  BY DEF Dump
<1>2. EventsFit'
  BY <1>1, Types, SameEvents
<1>3. ~stop => ExportsPaced'
  BY <1>1, SamePace DEF IInv
<1>4. pipe' = <<"D">>
  BY <1>1, Appended
<1>5. dumps' \in 0 .. MaxDumps
  <2>1. dumps \in 0 .. MaxDumps /\ MaxDumps \in Nat
    BY Bounds DEF IInv
  <2>. QED BY <1>1, <2>1
<1>6. TokensFit'
  <2>1. online' = online /\ events' = events /\ now' = now
    BY <1>1
  <2>. QED BY <1>1, <1>4, <2>1 DEF TokensFit, Due
<1>7. pipe' \in Seq({"A", "D", "S"})
  BY <1>4
<1>. QED BY <1>1, <1>2, <1>3, <1>5, <1>6, <1>7 DEF IInv

LEMMA StutterKeeps == ASSUME IInv, UNCHANGED vars PROVE IInv'
BY DEF vars, IInv, EventsFit, StateFits, AtLoad, TokensFit, ExportsPaced, Paced, Due

LEMMA NextKeeps == ASSUME Exposed = {}, IInv, [Next]_vars PROVE IInv'
<1>1. CASE LoadRules
  BY <1>1, LoadRulesKeeps
<1>2. CASE PollOnline
  BY <1>2, PollKeeps DEF PollOnline
<1>3. CASE ReadTrace
  BY <1>3, ReadTraceKeeps
<1>4. CASE ReadToken
  BY <1>4, ReadTokenKeeps
<1>5. CASE PollAgain
  BY <1>5, PollKeeps DEF PollAgain
<1>6. CASE NoToken
  BY <1>6, NoTokenKeeps
<1>7. CASE EndRound
  BY <1>7, EndRoundKeeps
<1>8. CASE Shutdown
  BY <1>8, ShutdownKeeps
<1>9. CASE Tick
  BY <1>9, TickKeeps
<1>10. CASE Interrupt
  BY <1>10, InterruptKeeps
<1>11. CASE Dump
  BY <1>11, DumpKeeps
<1>12. CASE UNCHANGED vars
  BY <1>12, StutterKeeps
<1>. QED BY <1>1, <1>2, <1>3, <1>4, <1>5, <1>6, <1>7, <1>8, <1>9, <1>10, <1>11, <1>12
         DEF Next, Loop

-----------------------------------------------------------------------------
\* The inductive invariant: the events fit the states of their rules, and until
\* the meter is told to stop no token is left over and exports are paced.
THEOREM ClockInvariant == Exposed = {} /\ Spec => []IInv
<1>1. Exposed = {} /\ Init => IInv
  BY InitInvariant
<1>2. Exposed = {} /\ IInv /\ [Next]_vars => IInv'
  BY NextKeeps
<1>3. Exposed = {} => [](Exposed = {})
  OBVIOUS
<1>. QED BY <1>1, <1>2, <1>3, PTL DEF Spec
\* Every variable has values of its type, and a rule is in one event of a type.
THEOREM ClockTypes == Exposed = {} /\ Spec => []TypeOK
<1>1. IInv => TypeOK
  <2> SUFFICES ASSUME IInv PROVE TypeOK
    OBVIOUS
  <2>1. ASSUME NEW e \in events
        PROVE  /\ e.type \in {"add", "activate", "remove", "request", "export"}
               /\ e.rules \in (SUBSET Rules) \ {{}} /\ e.time \in Nat
               /\ e.ival \in IF e.type = "export" THEN Intervals ELSE {0}
               /\ \A f \in events : e # f /\ e.type = f.type => e.rules \cap f.rules = {}
    <3>1. /\ e.type \in {"add", "activate", "remove", "request", "export"}
          /\ e.rules \subseteq Rules /\ e.rules # {} /\ e.time \in Nat
          /\ e.type # "export" => e.ival = 0
      BY Fits
    <3>2. e.type = "export" => e.ival \in Intervals
      <4>1. PICK r \in e.rules : r \in Rules
        BY <3>1
      <4>2. StateFits(e, r) /\ desc[r].interval \in Intervals
        BY <4>1, Fits, Types, DescTypes
      <4>. QED BY <4>2 DEF StateFits
    <3>3. \A f \in events : e # f /\ e.type = f.type => e.rules \cap f.rules = {}
      BY Types
    <3>. QED BY <3>1, <3>2, <3>3
  <2>. QED BY <2>1 DEF IInv, TypeOK
<1>. QED BY <1>1, ClockInvariant, PTL

\* After a gap a rule's exports run at most twice, and the next one is always
\* near, whatever rules share the event.
THEOREM ExportsArePaced == Exposed = {} /\ Spec => []ExportsKeepPace
<1>1. IInv => ExportsKeepPace
  <2> SUFFICES ASSUME IInv, ~stop PROVE ExportsKeepPace
    BY DEF ExportsKeepPace, NoBurst, NextExportSoon
  <2>1. NoBurst
    BY Pace DEF NoBurst
  <2>2. ASSUME NEW r \in Rules, state[r] = "active"
        PROVE  \E e \in events :
                  /\ e.type = "export" /\ r \in e.rules
                  /\ e.time <= now + desc[r].interval * IF desc[r].align THEN 2 ELSE 1
    <3>1. PICK e \in events : e.type = "export" /\ r \in e.rules
      BY <2>2, Pace
    <3>2. Paced(e, r)
      BY <3>1, Pace
    <3>. QED BY <3>1, <3>2 DEF Paced
  <2>. QED BY <2>1, <2>2 DEF ExportsKeepPace, NextExportSoon
<1>. QED BY <1>1, ClockInvariant, PTL

\* Only what is due is executed by a token.
LEMMA OnlyDue ==
  ASSUME IInv, ~stop, ReadToken, Head(pipe) = "A", NEW e \in events, Execute(e)
  PROVE  Due(e)
<1>1. pipe # <<>> /\ e \in First(events)
  BY DEF ReadToken, Execute
<1>2. pipe \in {<<"D">>, <<"S">>, <<"D", "S">>, <<"A">>, <<"A", "S">>, <<"S", "A">>}
  BY <1>1, Tokens
<1>3. pipe \in {<<"A">>, <<"A", "S">>}
  <2>1. Head(pipe) # "S"
    OBVIOUS
  <2>. QED BY <1>2, <2>1, Taken
<1>. QED BY <1>1, <1>3, Tokens, FirstIsDue

\* No step makes a rule active before its start.
LEMMA StartsInTime ==
  ASSUME IInv, IInv', [Next]_vars, ~stop, NEW r \in Rules, state'[r] = "active"
  PROVE  now >= desc[r].start
<1>1. CASE UNCHANGED state
  BY <1>1, Pace
<1>2. CASE LoadRules \/ ReadToken
  <2>1. desc' = desc /\ now' = now
    BY <1>2 DEF LoadRules, ReadToken
  <2>2. CASE stop'
    <3>1. UNCHANGED state
      <4>1. ReadToken /\ Head(pipe) = "S"
        BY <1>2, <2>2 DEF LoadRules, ReadToken
      <4>. QED BY <4>1 DEF ReadToken
    <3>. QED BY <1>1, <3>1
  <2>3. CASE ~stop'
    <3>1. ExportsPaced'
      BY <2>3 DEF IInv
    <3>2. now' >= desc'[r].start
      BY <3>1 DEF ExportsPaced
    <3>. QED BY <2>1, <3>2
  <2>. QED BY <2>2, <2>3
<1>. QED BY <1>1, <1>2 DEF Next, Loop, PollOnline, ReadTrace, PollAgain, NoToken, EndRound,
                           Shutdown, Tick, Interrupt, Dump, vars

\* No event is executed before its time and no rule is started before its own,
\* for any rules, times and gaps in a trace.
THEOREM NothingIsEarly == Exposed = {} /\ Spec => NotEarly
<1>1. ASSUME IInv, IInv', [Next]_vars
      PROVE  [~stop =>
                /\ \A e \in events : ReadToken /\ Head(pipe) = "A" /\ Execute(e) => Due(e)
                /\ \A r \in Rules : state'[r] = "active" => now >= desc[r].start]_vars
  <2>1. ASSUME ~stop, NEW e \in events, ReadToken, Head(pipe) = "A", Execute(e)
        PROVE  Due(e)
    BY <1>1, <2>1, OnlyDue
  <2>2. ASSUME ~stop, NEW r \in Rules, state'[r] = "active"
        PROVE  now >= desc[r].start
    BY <1>1, <2>2, StartsInTime
  <2>. QED BY <2>1, <2>2
<1>. QED BY <1>1, ClockInvariant, PTL DEF NotEarly, Spec
=============================================================================
