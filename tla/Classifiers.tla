----------------------------- MODULE Classifiers -----------------------------
(***************************************************************************)
(* The rules the meter gives to its classifier and takes back, and which of *)
(* them a packet is found to match: the classifier in use, ClassifierSimple *)
(* or ClassifierRFC, is chosen by the configuration, and both are held      *)
(* against what the filters of the rules say.                               *)
(***************************************************************************)
EXTENDS SimpleFilters

CONSTANTS
    Shapes,     \* the rules that are added, without their number
    Lines,      \* the places of a packet that filters look at
    MaxLines,   \* number lines of the tables (bound)
    MaxRules,   \* rules installed at once (bound)
    MaxTasks,   \* additions and removals (bound)
    Exposed     \* the situations left in, of those below

(* A filter: where it looks in a packet, there and on the way back.         *)
Filters == [on : Lines, back : Lines \cup {NoLine}, type : {"exact", "range", "set", "wild"},
            vals : Seq(Values)]

ASSUME ClassifiersAssumption ==
    /\ NumberLineSize \in Nat \ {0} /\ PREALLOC_CLASSES \in Nat /\ MaxRules \in Nat
    /\ ByteLines \subseteq Lines /\ MaxLines \in 1 .. 2
    /\ \A a \in Shapes : a.bidir \in BOOLEAN /\ a.filters \in Seq(Filters)
    /\ \A a \in Shapes : \A k \in DOMAIN a.filters :
          LET f == a.filters[k]
          IN /\ (f.type = "exact" => f.vals # <<>>) /\ (f.type = "range" => Len(f.vals) = 2)
             /\ f.back # NoLine => (f.on \in ByteLines <=> f.back \in ByteLines)

VARIABLES
    algorithm,  \* the classifier in use
    rules,      \* the rules installed, by number
    simple,     \* ClassifierSimple's entries
    rfc,        \* ClassifierRFC's tables
    tasks       \* additions and removals so far
classifierVars == <<algorithm, rules, simple, rfc, tasks>>

Packets ==
    [has : IF "missing layer" \in Exposed THEN SUBSET Lines ELSE {Lines}, val : [Lines -> Values]]

-----------------------------------------------------------------------------
(* What the filters say: the directions in which a packet matches a rule.   *)
Passes(r, backward, pkt) ==
    \A i \in DOMAIN r.filters :
        LET at == Place(r.filters[i], backward)
        IN at \in pkt.has /\ FilterMatch(r.filters[i], pkt.val[at])
MatchingWays(r, pkt) == {b \in ToSet(DirectionsWithSpec(r)) : Passes(r, b, pkt)}
Matching(pkt) == {uid \in DOMAIN rules : MatchingWays(rules[uid], pkt) # {}}

-----------------------------------------------------------------------------
(* The situations in which the code is known to find something else.        *)
(* RFC, a first batch: a line without a mark at its first value; a range;   *)
(* values of a set next to each other in falling order, or the highest and  *)
(* the lowest of two bytes; a mark behind the line, where the code writes   *)
(* past the end of its points; a backward direction, when the last          *)
(* bidirectional rule has none.                                             *)
LateStart(batch) ==
    \E line \in ToSet(AddLines(<<>>, batch)) : ~\E m \in ToSet(Marks(batch, line)) : m.at = 0
PastTheLine(batch) ==
    \E line \in ToSet(AddLines(<<>>, batch)) : \E m \in ToSet(Marks(batch, line)) : m.at \notin Values
SomeFilter(batch, Is(_)) == \E r \in ToSet(batch) : \E f \in ToSet(r.filters) : Is(f)
IsRange(f)     == f.type = "range" /\ f.vals[1] # f.vals[2]
EndsOnStart(f) ==
    f.type = "set" /\ \E i, j \in DOMAIN f.vals : i < j /\ f.vals[i] = GetIndex(f.on, f.vals[j])[2]
SpecLost(batch) ==
    ~HasBSpec(batch) /\ \E r \in ToSet(batch) : r.bidir /\ HasBackwardSpec(r)
(* RFC, a later batch: a filter on a new place, or up to a highest value    *)
(* whose end is the first; a rule whose two directions look at different    *)
(* places; a class given back while some value leads to it.                 *)
HasLast(f) ==
    f.type # "wild" /\ f.on \notin ByteLines /\ \E v \in ToSet(f.vals) : v = NumberLineSize - 1
PlacesOf(r, backward) == {Place(f, backward) : f \in ToSet(r.filters)}
NewPlace(t, r) == ~(UNION {PlacesOf(r, b) : b \in ToSet(DirectionsWithSpec(r))} \subseteq ToSet(t.lines))
OtherPlaces(r) == Len(DirectionsWithSpec(r)) = 2 /\ PlacesOf(r, 0) # PlacesOf(r, 1)
LeadsToFree(t) ==
    \E i \in DOMAIN t.eqcl : \E n \in DOMAIN t.chunks[i] : t.chunks[i][n] \notin InUse(t.eqcl[i])
KnownFirst(batch) ==
    {s \in {"late start", "range", "past the line", "set order", "lost direction"} :
        CASE s = "late start"     -> LateStart(batch)
          [] s = "range"          -> SomeFilter(batch, IsRange)
          [] s = "past the line"  -> PastTheLine(batch)
          [] s = "set order"      -> SomeFilter(batch, EndsOnStart)
          [] s = "lost direction" -> SpecLost(batch)}
KnownLater(batch) ==
    {s \in {"new place", "last value", "other places", "class given back"} :
        CASE s = "new place"        -> \E r \in ToSet(batch) : NewPlace(rfc, r)
          [] s = "last value"       -> SomeFilter(batch, HasLast)
          [] s = "other places"     -> \E r \in ToSet(batch) : OtherPlaces(r)
          [] s = "class given back" -> \E n \in DOMAIN batch : LeadsToFree(RfcAddRules(rfc, SubSeq(batch, 1, n)))}
Known(batch) == IF rfc.rules = 0 THEN KnownFirst(batch) ELSE KnownLater(batch)
(* Simple: a match of a rule's backward direction only, next to a rule with *)
(* the next number.                                                         *)
NextAfterBackward(rs) ==
    \E uid \in DOMAIN rs : uid + 1 \in DOMAIN rs
        /\ \E pkt \in Packets : MatchingWays(rs[uid], pkt) = {1} /\ 0 \in MatchingWays(rs[uid + 1], pkt)

(* The rules with those of a batch.                                         *)
With(batch) ==
    [uid \in DOMAIN rules \cup {r.uid : r \in ToSet(batch)} |->
        IF uid \in DOMAIN rules THEN rules[uid] ELSE CHOOSE r \in ToSet(batch) : r.uid = uid]

Allowed(batch) ==
    LET rs == With(batch)
    IN /\ algorithm = "RFC" => Known(batch) \subseteq Exposed
       /\ algorithm = "Simple" /\ NextAfterBackward(rs) => "next after backward" \in Exposed

-----------------------------------------------------------------------------
ClassifierInit ==
    /\ algorithm \in {"Simple", "RFC"}
    /\ rules = <<>>
    /\ simple = <<>>
    /\ rfc = NoTables
    /\ tasks = 0

(* The rules of a task get the lowest free numbers, in order.               *)
Numbered(shapes) ==
    LET free == Ascending((0 .. MaxRules - 1) \ DOMAIN rules)
    IN [i \in DOMAIN shapes |-> [uid |-> free[i], bidir |-> shapes[i].bidir, filters |-> shapes[i].filters]]

AddRules(shapes) ==
    LET batch == Numbered(shapes)
    IN /\ tasks < MaxTasks
       /\ Cardinality(DOMAIN rules) + Len(shapes) <= MaxRules
       /\ algorithm = "RFC" /\ rfc.rules = 0 => Len(AddLines(<<>>, batch)) <= MaxLines
       /\ Allowed(batch)
       /\ rules' = With(batch)
       /\ simple' = IF algorithm = "Simple" THEN SimpleAddRules(simple, batch) ELSE simple
       /\ rfc' = IF algorithm = "RFC" THEN RfcAddRules(rfc, batch) ELSE rfc
       /\ tasks' = tasks + 1
       /\ UNCHANGED algorithm

(* What is left in of RFC's removal: all rules at once, none of them        *)
(* bidirectional.                                                           *)
DelRules(uids) ==
    LET batch == [k \in DOMAIN Ascending(uids) |-> rules[Ascending(uids)[k]]]
    IN /\ tasks < MaxTasks
       /\ algorithm = "RFC" /\ "removal" \notin Exposed =>
              uids = DOMAIN rules /\ \A uid \in uids : ~rules[uid].bidir
       /\ rules' = Restrict(rules, DOMAIN rules \ uids)
       /\ simple' = IF algorithm = "Simple" THEN SimpleDelRules(simple, batch) ELSE simple
       /\ rfc' = IF algorithm = "RFC" THEN RfcDelRules(rfc, batch) ELSE rfc
       /\ tasks' = tasks + 1
       /\ UNCHANGED algorithm

ClassifierNext ==
    \/ \E a \in Shapes : AddRules(<<a>>)
    \/ \E a, b \in Shapes : AddRules(<<a, b>>)
    \/ \E uids \in SUBSET DOMAIN rules : uids # {} /\ DelRules(uids)

ClassifierSpec == ClassifierInit /\ [][ClassifierNext]_classifierVars

-----------------------------------------------------------------------------
(* Whatever rules were added and taken back before, a packet is found to    *)
(* match, once each and by rising number, just the rules whose filters it   *)
(* passes in one direction or the other; and ClassifierSimple marks it as   *)
(* going backwards just if there is a rule it matches only that way.        *)
FoundByRule(pkt) ==
    IF algorithm = "Simple" THEN SimpleClassify(simple, pkt) ELSE RfcClassify(rfc, pkt)
BackwardOnly(pkt) == \E uid \in Matching(pkt) : MatchingWays(rules[uid], pkt) = {1}
MatchesItsRules ==
    \A pkt \in Packets :
        /\ FoundByRule(pkt) = Ascending(Matching(pkt))
        /\ algorithm = "Simple" => (Search(simple, pkt).reverse <=> BackwardOnly(pkt))

(* genFinalMap writes the rules of every class in use of the last phase     *)
(* into the final map, which is as large as the chunk of that phase, that   *)
(* is by the classes of the phase before: whatever is added later, every    *)
(* class has its place, and so has every combination of classes in a chunk. *)
TablesLargeEnough ==
    /\ \A e \in InUse(rfc.eq2) : e < Len(rfc.rmap)
    /\ rfc.lines # <<>> => /\ Len(rfc.chunk1) = ChunkSize(rfc.eqcl)
                          /\ Len(rfc.chunk2) = MaxId(rfc.eq1)
=============================================================================
