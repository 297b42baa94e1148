---------------------------- MODULE SimpleFilters ----------------------------
(***************************************************************************)
(* ClassifierSimple: every rule's filters are tried in turn.  A rule has an *)
(* entry at 2 * uid for its filters as they are and, if it is               *)
(* bidirectional and some filter names an attribute to use in the other     *)
(* direction, one at 2 * uid + 1 for that direction.  Rules and packets are *)
(* those of RfcTables, which this classifier replaces by configuration.     *)
(***************************************************************************)
EXTENDS RfcTables

FilterMatch(f, value) ==
    CASE f.type = "exact" -> value = f.vals[1]
      [] f.type = "range" -> f.vals[1] <= value /\ value <= f.vals[2]
      [] f.type = "set"   -> value \in ToSet(f.vals)
      [] f.type = "wild"  -> TRUE

(* The entry of a rule's direction: what to look at, and the filter.        *)
Entry(r, backward) ==
    [k \in DOMAIN r.filters |-> [at |-> Place(r.filters[k], backward), f |-> r.filters[k]]]

SimpleAddRule(m, r) ==
    [key \in DOMAIN m \cup {Rid(r, DirectionsWithSpec(r)[d]) : d \in DOMAIN DirectionsWithSpec(r)} |->
        IF key \in DOMAIN m THEN m[key] ELSE Entry(r, key % 2)]
SimpleAddRules(m, batch) == FoldLeft(SimpleAddRule, m, batch)

SimpleDelRules(m, batch) ==
    LET gone == {Rid(r, b) : r \in {x \in ToSet(batch) : x.bidir}, b \in {0, 1}}
                    \cup {Rid(r, 0) : r \in ToSet(batch)}
    IN Restrict(m, DOMAIN m \ gone)

(* classify: one entry after the other, by number.  An entry that looks at  *)
(* a place the packet does not have, before one of its filters failed, ends *)
(* the search with no match at all.  An entry is passed over if the one     *)
(* before it by number was the last match.                                  *)
FirstFailed(e, pkt) ==
    LET bad == {k \in DOMAIN e : e[k].at \in pkt.has /\ ~FilterMatch(e[k].f, pkt.val[e[k].at])}
    IN IF bad = {} THEN Len(e) + 1 ELSE Min(bad)
Gives0(e, pkt) == \E k \in 1 .. FirstFailed(e, pkt) : k \in DOMAIN e /\ e[k].at \notin pkt.has

TryEntry(m, pkt, s, key) ==
    IF s.ended THEN s
    ELSE IF Gives0(m[key], pkt) THEN [s EXCEPT !.ended = TRUE, !.match = <<>>]
    ELSE IF FirstFailed(m[key], pkt) \in DOMAIN m[key] \/ key = s.last + 1 THEN s
    ELSE [s EXCEPT !.last = key, !.match = Append(@, key \div 2),
                   !.reverse = @ \/ key % 2 = 1]
Search(m, pkt) ==
    FoldLeft(LAMBDA s, key : TryEntry(m, pkt, s, key),
             [match |-> <<>>, last |-> -2, reverse |-> FALSE, ended |-> FALSE],
             Ascending(DOMAIN m))
SimpleClassify(m, pkt) == Search(m, pkt).match
=============================================================================
