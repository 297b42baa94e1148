------------------------------ MODULE RfcTables ------------------------------
(***************************************************************************)
(* ClassifierRFC: recursive flow classification.  Phase 0 has one chunk per *)
(* number line (a place in the packet some rule's filter looks at), a table *)
(* from the value found there to an equivalence class of values; a later    *)
(* phase has one chunk, a table from the classes found by its parents to a  *)
(* class of its own; a class of the last phase stands for a list of rules.  *)
(* A class is a bitmap of rule bits: 2 * uid for a rule, 2 * uid + 1 for    *)
(* its backward direction.                                                  *)
(*                                                                         *)
(* With at most two number lines there are three phases (0, 1, 2), of which *)
(* phases 1 and 2 have one chunk.  Values and class ids start at 0, as in   *)
(* the code; sequences are used at id + 1.                                  *)
(***************************************************************************)
EXTENDS Integers, SequencesExt, FiniteSetsExt

CONSTANTS
    NumberLineSize,     \* values on a number line (in the code 65536, or 256 of one byte)
    ByteLines,          \* places whose values are one byte
    PREALLOC_CLASSES    \* unused classes prepared per chunk (32 in the code)

NoLine == "none"
Values == 0 .. NumberLineSize - 1

(* The members of a finite set of numbers by rising number, each at the     *)
(* place that the smaller ones leave it.                                    *)
Ascending(S) ==
    [k \in 1 .. Cardinality(S) |-> CHOOSE x \in S : Cardinality({y \in S : y < x}) = k - 1]

(* A rule: [uid, bidir, filters], each filter [on, back, type, vals]: the   *)
(* place it looks at, the place its backward direction looks at (rname;     *)
(* NoLine: none), its type and its values.                                  *)
Place(f, backward) == IF backward = 1 /\ f.back # NoLine THEN f.back ELSE f.on
HasBackwardSpec(r) == \E i \in DOMAIN r.filters : r.filters[i].back # NoLine
Rid(r, backward)   == 2 * r.uid + backward
Bidirs(r)          == IF r.bidir THEN <<0, 1>> ELSE <<0>>

-----------------------------------------------------------------------------
(* Equivalence classes of a chunk: [eids, bms, freeList], the classes by id *)
(* with bitmap and reference count, the ids in the map from bitmaps to ids, *)
(* and the unused ids.                                                      *)
NoClasses == [eids |-> <<>>, bms |-> {}, freeList |-> <<>>]

MaxId(c)    == Len(c.eids)
Class(c, e) == c.eids[e + 1]
InUse(c)    == {e \in 0 .. MaxId(c) - 1 : Class(c, e).refc > 0}
Find(c, bm) == {e \in c.bms : Class(c, e).bm = bm}

Erase(c, bm) == [c EXCEPT !.bms = @ \ Find(c, bm)]

FindEC(c, bm) ==
    LET hit == Find(c, bm)
        eq  == IF hit # {} THEN CHOOSE e \in hit : TRUE
               ELSE IF c.freeList # <<>> THEN Head(c.freeList) ELSE MaxId(c)
        new == [bm |-> bm, refc |-> 1]
    IN [eq |-> eq,
        c  |-> IF hit # {} THEN [c EXCEPT !.eids[eq + 1].refc = @ + 1]
               ELSE IF eq < MaxId(c)
               THEN [eids |-> [c.eids EXCEPT ![eq + 1] = new],
                     bms |-> c.bms \cup {eq}, freeList |-> Tail(c.freeList)]
               ELSE [c EXCEPT !.eids = Append(@, new), !.bms = @ \cup {eq}]]

AddPreAllocEC(c) ==
    [c EXCEPT !.eids = @ \o [i \in 1 .. PREALLOC_CLASSES |-> [bm |-> {}, refc |-> 0]],
              !.freeList = @ \o [i \in 1 .. PREALLOC_CLASSES |-> MaxId(c) + i - 1]]

(* One more reference to a class; one less, and the class is given back.    *)
Referred(c, e) == [c EXCEPT !.eids[e + 1].refc = @ + 1]
Dropped(c, e) ==
    IF Class(c, e).refc = 0 THEN c
    ELSE LET d == [c EXCEPT !.eids[e + 1].refc = @ - 1]
         IN IF Class(d, e).refc > 0 THEN d
            ELSE Erase([d EXCEPT !.freeList = Append(@, e)], Class(d, e).bm)

(* Mistaken variant: a class with one reference is taken for a free one.    *)
SetEverywhereMapped(c, rid) ==
    [c EXCEPT !.eids = [i \in DOMAIN c.eids |->
        IF c.eids[i].refc > 1 THEN [c.eids[i] EXCEPT !.bm = @ \cup {rid}] ELSE c.eids[i]]]
(* A rule that does not look at this place has its bit set in every class.  *)
SetEverywhere(c, rid) ==
    [c EXCEPT !.eids = [i \in DOMAIN c.eids |->
        IF c.eids[i].refc > 0 THEN [c.eids[i] EXCEPT !.bm = @ \cup {rid}] ELSE c.eids[i]]]

-----------------------------------------------------------------------------
(* The tables: number lines, chunks of classes and entries for the three    *)
(* phases, final map, the rule bits in use, the count kept in stats.        *)
NoTables ==
    [lines |-> <<>>, eqcl |-> <<>>, chunks |-> <<>>, eq1 |-> NoClasses,
     chunk1 |-> <<>>, eq2 |-> NoClasses, chunk2 |-> <<>>, rmap |-> <<>>,
     extra |-> NoLine, allrules |-> {}, rules |-> 0]

(* Start and end point of a value.  They are stored in 16 bits: the end of  *)
(* the highest value is the first of a line of two bytes, but lies behind   *)
(* the line if the place has one byte.                                      *)
GetIndex(on, v) == <<v, IF on \in ByteLines THEN v + 1 ELSE (v + 1) % NumberLineSize>>

(* projMatch: the points a filter marks, in order; a range's values are     *)
(* taken in the order last, first.  A point behind the line is no point of  *)
(* it.                                                                      *)
ProjMatch(f, rid) ==
    LET Point(at, type) == [at |-> at, type |-> type, rid |-> rid]
        Pair(from, to)  == <<Point(from, "start"), Point(to, "end")>>
        v == f.vals
        Index(x) == GetIndex(f.on, x)
    IN CASE f.type = "exact" -> Pair(Index(v[1])[1], Index(v[1])[2])
         [] f.type = "range" -> Pair(Index(v[2])[1],
                                     IF v[1] # v[2] THEN Index(v[1])[2] ELSE Index(v[2])[2])
         [] f.type = "set"   -> FlattenSeq([i \in DOMAIN v |-> Pair(Index(v[i])[1], Index(v[i])[2])])
         [] f.type = "wild"  -> <<Point(0, "start")>>

FiltersAt(r, backward, line) == SelectSeq(r.filters, LAMBDA f : Place(f, backward) = line)

(* The number lines of a batch, in the order its filters name them.         *)
FindOrAdd(lines, line) == IF Contains(lines, line) THEN lines ELSE Append(lines, line)
DirectionsWithSpec(r) == IF HasBackwardSpec(r) THEN Bidirs(r) ELSE <<0>>
FilterLines(lines, filters, backward) ==
    FoldLeft(LAMBDA found, f : FindOrAdd(found, Place(f, backward)), lines, filters)
RuleLines(lines, r) ==
    FoldLeft(LAMBDA found, b : FilterLines(found, r.filters, b), lines, DirectionsWithSpec(r))
AddLines(lines, batch) == FoldLeft(RuleLines, lines, batch)

(* The directions projected: has_bspec is what the first pass left in it,   *)
(* the answer for the last bidirectional rule of the batch.                 *)
HasBSpec(batch) ==
    LET two == SelectSeq(batch, LAMBDA r : r.bidir)
    IN two # <<>> /\ HasBackwardSpec(Last(two))
Projected(batch) ==
    FlattenSeq([i \in DOMAIN batch |->
        IF batch[i].bidir /\ HasBSpec(batch) THEN << <<batch[i], 0>>, <<batch[i], 1>> >>
        ELSE << <<batch[i], 0>> >>])

(* The points marked on a line by the rules of a batch, in their order.     *)
Marks(batch, line) ==
    FlattenSeq([i \in DOMAIN Projected(batch) |->
        LET r == Projected(batch)[i][1]
            b == Projected(batch)[i][2]
            fs == FiltersAt(r, b, line)
        IN IF fs = <<>> THEN <<[at |-> 0, type |-> "start", rid |-> Rid(r, b)]>>
           ELSE FlattenSeq([k \in DOMAIN fs |-> ProjMatch(fs[k], Rid(r, b))])])

(* The scan of a line: the bits set so far, the class of the last point     *)
(* that had a rule, which is 0 before the first.                            *)
ScanPoint(marks, s, j) ==
    LET here == SelectSeq(marks, LAMBDA m : m.at = j)
        bmp  == FoldLeft(LAMBDA b, m : IF m.type = "start" THEN b \cup {m.rid} ELSE b \ {m.rid},
                         s.bmp, here)
        f    == FindEC(s.c, bmp)
    IN IF here = <<>> THEN [s EXCEPT !.entries = Append(@, s.eq)]
       ELSE [c |-> f.c, eq |-> f.eq, bmp |-> bmp, entries |-> Append(s.entries, f.eq)]
ScanLine(marks) ==
    LET s == FoldLeft(LAMBDA acc, j : ScanPoint(marks, acc, j),
                      [c |-> NoClasses, eq |-> 0, bmp |-> {}, entries |-> <<>>],
                      [i \in 1 .. NumberLineSize |-> i - 1])
    IN [c |-> AddPreAllocEC(s.c), entries |-> s.entries]

-----------------------------------------------------------------------------
(* doIntersection: the entry of each combination of the parents' classes.   *)
ChunkSize(parents) == FoldLeft(LAMBDA n, c : n * MaxId(c), 1, parents)
Digits(parents, indx) ==
    IF Len(parents) = 1 THEN <<indx>>
    ELSE <<indx \div MaxId(parents[2]), indx % MaxId(parents[2])>>

IntersectOne(parents, s, indx) ==
    LET ids == Digits(parents, indx)
        bms == [k \in DOMAIN parents |-> Class(parents[k], ids[k]).bm]
        f   == FindEC(s.c, FoldLeft(LAMBDA a, b : a \cap b, bms[1], bms))
    IN IF \A k \in DOMAIN parents : ids[k] \in InUse(parents[k])
       THEN [c |-> f.c, entries |-> [s.entries EXCEPT ![indx + 1] = f.eq]]
       ELSE s

(* A chunk's entries are copied to a table of the size its parents ask for, *)
(* the new ones are zero.                                                   *)
Resized(entries, size) ==
    [i \in 1 .. size |-> IF i \in DOMAIN entries THEN entries[i] ELSE 0]

DoIntersection(parents, c, entries) ==
    FoldLeft(LAMBDA s, indx : IntersectOne(parents, s, indx),
             [c |-> c, entries |-> Resized(entries, ChunkSize(parents))],
             [i \in 1 .. ChunkSize(parents) |-> i - 1])

(* genFinalMap: the rules of each class in use of the last phase, in the    *)
(* order of their bits, a rule that matches both ways once; what the map    *)
(* has for other classes stays.                                             *)
RulesOf(bm) ==
    LET first == {i \in bm : i % 2 = 1 => i - 1 \notin bm}
    IN [k \in DOMAIN Ascending(first) |-> Ascending(first)[k] \div 2]
(* Mistaken variant: the map keeps its first size.                          *)
GenFinalMapFirstSize(rmap, c, size) ==
    [i \in 1 .. IF rmap = <<>> THEN size ELSE Len(rmap) |->
        IF i - 1 \in InUse(c) THEN RulesOf(Class(c, i - 1).bm)
        ELSE IF i \in DOMAIN rmap THEN rmap[i] ELSE <<>>]
GenFinalMap(rmap, c, size) ==
    [i \in 1 .. size |->
        IF i - 1 \in InUse(c) THEN RulesOf(Class(c, i - 1).bm)
        ELSE IF i \in DOMAIN rmap THEN rmap[i] ELSE <<>>]

(* Phases 1 and 2 from phase 0.                                             *)
Combine(t, prealloc) ==
    LET p1 == DoIntersection(t.eqcl, t.eq1, t.chunk1)
        e1 == IF prealloc THEN AddPreAllocEC(p1.c) ELSE p1.c
        p2 == DoIntersection(<<e1>>, t.eq2, t.chunk2)
        e2 == IF prealloc THEN AddPreAllocEC(p2.c) ELSE p2.c
    IN [t EXCEPT !.eq1 = e1, !.chunk1 = p1.entries, !.eq2 = e2, !.chunk2 = p2.entries,
                 !.rmap = GenFinalMap(@, e2, Len(p2.entries))]

AddInitialRules(t, batch) ==
    LET lines == AddLines(<<>>, batch)
        scans == [i \in DOMAIN lines |-> ScanLine(Marks(batch, lines[i]))]
    IN Combine([t EXCEPT !.lines = lines,
                         !.eqcl = [i \in DOMAIN scans |-> scans[i].c],
                         !.chunks = [i \in DOMAIN scans |-> scans[i].entries],
                         !.allrules = @ \cup {Rid(p[1], p[2]) : p \in ToSet(Projected(batch))}],
               TRUE)

-----------------------------------------------------------------------------
(* Adding a rule to the tables.  remapIndex: each entry from one point up   *)
(* to another gets the class of its bitmap and the rule's bit.              *)
RemapEntry(s, i, rid) ==
    LET oeq  == s.entries[i + 1]
        same == s.remap[oeq] = oeq
        f    == FindEC(s.c, Class(s.c, oeq).bm \cup {rid})
        eq   == IF same THEN f.eq ELSE s.remap[oeq]
        c    == IF same THEN f.c ELSE Referred(s.c, eq)
    IN [c |-> Dropped(c, oeq), entries |-> [s.entries EXCEPT ![i + 1] = eq],
        remap |-> [s.remap EXCEPT ![oeq] = eq]]
RemapIndex(s, from, to, rid) ==
    FoldLeft(LAMBDA acc, i : RemapEntry(acc, i, rid),
             [c |-> s.c, entries |-> s.entries,
              remap |-> [e \in 0 .. MaxId(s.c) + NumberLineSize |-> e]],
             [k \in 1 .. IF to > from THEN to - from ELSE 0 |-> from + k - 1])

ProjMatchRemap(s, f, rid) ==
    LET v == f.vals
        Remap(acc, from, to) == RemapIndex(acc, GetIndex(f.on, from)[1], GetIndex(f.on, to)[2], rid)
    IN CASE f.type = "exact" -> Remap(s, v[1], v[1])
         [] f.type = "range" -> Remap(s, v[1], v[2])
         [] f.type = "set"   -> FoldLeft(LAMBDA acc, x : Remap(acc, x, x), s, v)
         [] f.type = "wild"  -> [s EXCEPT !.c = SetEverywhere(@, rid)]

(* One filter of a rule: on the chunk of its line; a filter on a new place  *)
(* makes a chunk which phase 1 never gets as a parent (it is entered at the *)
(* chunk numbered by a count of parents, and at the one numbered by the log *)
(* channel), but classify looks for its place from then on.  nlused is      *)
(* cleared once for both directions of the rule.                            *)
AddFilter(s, f, r, backward) ==
    LET place == Place(f, backward)
        i     == CHOOSE k \in DOMAIN s.t.lines : s.t.lines[k] = place
        done  == ProjMatchRemap([c |-> s.t.eqcl[i], entries |-> s.t.chunks[i]], f, Rid(r, backward))
    IN IF ~Contains(s.t.lines, place) THEN [s EXCEPT !.t.extra = place]
       ELSE [t |-> [s.t EXCEPT !.eqcl[i] = done.c, !.chunks[i] = done.entries],
             nlused |-> s.nlused \cup {i}]
AddDirection(s, r, backward) ==
    LET a == FoldLeft(LAMBDA acc, f : AddFilter(acc, f, r, backward), s, r.filters)
    IN [a EXCEPT !.t.eqcl = [i \in DOMAIN @ |-> IF i \in a.nlused THEN @[i]
                                                ELSE SetEverywhere(@[i], Rid(r, backward))]]
AddRule(t, r) ==
    LET dirs == DirectionsWithSpec(r)
        s == FoldLeft(LAMBDA acc, b : AddDirection(acc, r, b), [t |-> t, nlused |-> {}], dirs)
    IN [Combine(s.t, FALSE) EXCEPT !.allrules = @ \cup {Rid(r, Last(dirs))}]

RfcAddRules(t, batch) ==
    LET u == IF t.rules = 0 THEN AddInitialRules(t, batch) ELSE FoldLeft(AddRule, t, batch)
    IN [u EXCEPT !.rules = @ + Len(batch)]

(* Removing a rule: its bit leaves the classes of phase 0; the final map    *)
(* loses the rule numbered 0, as the number is set after the loop that uses *)
(* it; the count of rules goes down once per direction, and the tables are  *)
(* thrown away when it is zero.                                             *)
DropBit(c, eq, rid) ==
    IF eq \notin InUse(c) \/ rid \notin Class(c, eq).bm THEN c
    ELSE LET d == [Erase(c, Class(c, eq).bm) EXCEPT !.eids[eq + 1].bm = @ \ {rid}]
         IN IF Find(d, Class(d, eq).bm) = {} THEN [d EXCEPT !.bms = @ \cup {eq}] ELSE d
DropRule(c, rid) ==
    FoldLeft(LAMBDA acc, eq : DropBit(acc, eq, rid), c, [i \in 1 .. MaxId(c) |-> i - 1])
RfcDelRule(t, r) ==
    LET rids == [d \in DOMAIN Bidirs(r) |-> Rid(r, d - 1)]
        u == [t EXCEPT !.rmap = [i \in DOMAIN @ |-> SelectSeq(@[i], LAMBDA n : n # 0)],
                       !.eqcl = [i \in DOMAIN @ |-> FoldLeft(DropRule, @[i], rids)],
                       !.allrules = @ \ ToSet(rids),
                       !.rules = @ - Len(rids)]
    IN IF u.rules = 0 THEN NoTables ELSE u
RfcDelRules(t, batch) == FoldLeft(RfcDelRule, t, batch)

-----------------------------------------------------------------------------
(* classify: the rules found for a packet, [has, val]: the places it has,   *)
(* and the values there.                                                    *)
RfcClassify(t, pkt) ==
    LET eqnums == [i \in DOMAIN t.lines |-> t.chunks[i][pkt.val[t.lines[i]] + 1]]
        indx   == FoldLeft(LAMBDA acc, i : acc * MaxId(t.eqcl[i]) + eqnums[i], 0,
                           [i \in DOMAIN eqnums |-> i])
    IN IF t.lines = <<>> \/ ~((ToSet(t.lines) \cup ({t.extra} \ {NoLine})) \subseteq pkt.has) THEN <<>>
       ELSE t.rmap[t.chunk2[t.chunk1[indx + 1] + 1] + 1]
=============================================================================
