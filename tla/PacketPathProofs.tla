--------------------------- MODULE PacketPathProofs ---------------------------
(***************************************************************************)
(* Proofs about a packet's way through the meter, up to the processor.     *)
(* The classifier, for every filter, number line and rule: ClassifierRFC's *)
(* tables have a place for every class and every combination of classes.   *)
(* The queue, for every number of descriptors, size of memory and          *)
(* guaranteed length: packets keep their bytes, and the ring implements    *)
(* the abstract queue: they come out in the order of their commits, with   *)
(* the bytes they were committed with.  The threads around it, for any     *)
(* number of packets, any size of the queue and every configuration:       *)
(* queued packets are processed once and in order, and the processor never *)
(* sleeps while a packet is queued.                                        *)
(***************************************************************************)
EXTENDS Classifiers, PacketQueue, PacketPipeline, FiniteSetTheorems, SequenceTheorems, TLAPS

-----------------------------------------------------------------------------
(* The classifier: the folds of ClassifierRFC, as sequences of states. *)

\* What the folds work on
NothingScanned == [c |-> NoClasses, eq |-> 0, bmp |-> {}, entries |-> <<>>]
Points == [i \in 1 .. NumberLineSize |-> i - 1]
Scanned(marks) == FoldLeft(LAMBDA acc, j : ScanPoint(marks, acc, j), NothingScanned, Points)
Before(parents, c, entries) == [c |-> c, entries |-> Resized(entries, ChunkSize(parents))]
Combinations(parents) == [i \in 1 .. ChunkSize(parents) |-> i - 1]
Meet(bms) == FoldLeft(LAMBDA a, b : a \cap b, bms[1], bms)
Unmapped(s) == [c |-> s.c, entries |-> s.entries, remap |-> [e \in 0 .. MaxId(s.c) + NumberLineSize |-> e]]
Between(from, to) == [k \in 1 .. IF to > from THEN to - from ELSE 0 |-> from + k - 1]
SetRemap(s, on, v, rid) ==
    FoldLeft(LAMBDA acc, x : RemapIndex(acc, GetIndex(on, x)[1], GetIndex(on, x)[2], rid), s, v)
Filtered(s, r, backward) == FoldLeft(LAMBDA acc, f : AddFilter(acc, f, r, backward), s, r.filters)
Unused(t) == [t |-> t, nlused |-> {}]
Directed(t, r) == FoldLeft(LAMBDA acc, b : AddDirection(acc, r, b), Unused(t), DirectionsWithSpec(r))
AddedInTurn(t, batch) == FoldLeft(AddRule, t, batch)
DroppedInTurn(c, rids) == FoldLeft(DropRule, c, rids)
Ids(c) == [i \in 1 .. MaxId(c) |-> i - 1]

\* What each fold does with the k-th of its things: a is what the fold is over
\* and what it hands on.
Step(kind, a, x, k) ==
    CASE kind = "size" -> x * MaxId(a[k])
      [] kind = "filter line" -> FindOrAdd(x, Place(a[1][k], a[2]))
      [] kind = "direction line" -> FilterLines(x, a.filters, DirectionsWithSpec(a)[k])
      [] kind = "rule line" -> RuleLines(x, a[k])
      [] kind = "scan" -> ScanPoint(a, x, Points[k])
      [] kind = "intersect" -> IntersectOne(a, x, Combinations(a)[k])
      [] kind = "meet" -> x \cap a[k]
      [] kind = "remap" -> RemapEntry(x, Between(a[1], a[2])[k], a[3])
      [] kind = "set" -> RemapIndex(x, GetIndex(a[3], a[1][k])[1], GetIndex(a[3], a[1][k])[2], a[2])
      [] kind = "filter" -> AddFilter(x, a[1].filters[k], a[1], a[2])
      [] kind = "direction" -> AddDirection(x, a, DirectionsWithSpec(a)[k])
      [] kind = "rule" -> AddRule(x, a[k])
      [] kind = "bit" -> DropBit(x, Ids(a[1])[k], a[2])
      [] kind = "drop" -> DropRule(x, a[k])
      [] kind = "del" -> RfcDelRule(x, a[k])

LEMMA SetInduction ==
  ASSUME NEW S \in SUBSET Nat, 0 \in S, \A n \in S : n + 1 \in S
  PROVE  Nat \subseteq S
<1>. SUFFICES ASSUME Nat \ S # {} PROVE FALSE
  OBVIOUS
<1> DEFINE R == OpToRel(<, Nat)
           T == Nat \ S
<1>1. IsWellFoundedOn(R, Nat)
  BY NatLessThanWellFounded
<1>2. \A x, y \in Nat : y < x => <<y, x>> \in R
  BY DEF OpToRel
<1>. HIDE DEF R
<1>3. PICK x \in T : \A y \in T : ~(<<y, x>> \in R)
  <2>. HIDE DEF T
  <2>1. T \subseteq Nat /\ T # {}
    BY DEF T
  <2>. QED BY <1>1, <2>1, WFMin
<1>4. x # 0 /\ x - 1 \in Nat /\ x - 1 < x
  OBVIOUS
<1>5. x - 1 \in S
  BY <1>2, <1>3, <1>4
<1>. QED BY <1>4, <1>5

\* A set of numbers up to n has a greatest one.
LEMMA MaxUpto ==
  ASSUME NEW n \in Nat, NEW T \in SUBSET (1 .. n), T # {}
  PROVE  Max(T) \in T /\ \A x \in T : x <= Max(T)
<1> DEFINE R == OpToRel(<, Nat)
           V == {n - x : x \in T}
<1>1. IsWellFoundedOn(R, Nat)
  BY NatLessThanWellFounded
<1>2. \A x, y \in Nat : y < x => <<y, x>> \in R
  BY DEF OpToRel
<1>. HIDE DEF R
<1>3. V \subseteq Nat /\ V # {} /\ \A x \in T : n - x \in V
  <2>1. \A x \in T : x \in 1 .. n /\ n - x \in Nat
    OBVIOUS
  <2>. QED BY <2>1
<1>4. PICK v \in V : \A y \in V : ~(<<y, v>> \in R)
  <2>. HIDE DEF V
  <2>. QED BY <1>1, <1>3, WFMin
<1>5. PICK m \in T : v = n - m
  OBVIOUS
<1>6. \A x \in T : x <= m
  <2>. TAKE x \in T
  <2>1. n - x \in Nat /\ n - m \in Nat /\ x \in Int /\ m \in Int /\ n \in Int
    OBVIOUS
  <2>2. ~(<<n - x, n - m>> \in R)
    BY <1>3, <1>4, <1>5
  <2>3. ~(n - x < n - m)
    BY <1>2, <2>1, <2>2
  <2>. QED BY <2>1, <2>3
<1>. QED BY <1>6 DEF Max

\* h takes sets of places, and makes the step of the greatest one last.
Folding(kind, a, base, n, h) ==
    h = [T \in SUBSET (1 .. n) |->
            IF T = {} THEN base ELSE Step(kind, a, h[T \ {Max(T)}], Max(T))]

\* There is a function like that.
LEMMA FoldExists ==
  ASSUME NEW kind, NEW a, NEW base, NEW n \in Nat
  PROVE  \E h : Folding(kind, a, base, n, h)
<1> DEFINE Op(x, k) == Step(kind, a, x, k)
           Follows(k, g) ==
               /\ g = [T \in SUBSET (1 .. k) |-> g[T]] /\ g[{}] = base
               /\ \A T \in SUBSET (1 .. k) : T # {} => g[T] = Op(g[T \ {Max(T)}], Max(T))
           N == {k \in Nat : \E g : Follows(k, g)}
<1>. HIDE DEF Op
<1>1. 0 \in N
  <2> DEFINE g == [T \in SUBSET (1 .. 0) |-> base]
  <2>1. 1 .. 0 = {}
    OBVIOUS
  <2>2. Follows(0, g)
    BY <2>1
  <2>. QED BY <2>2
<1>2. ASSUME NEW k \in Nat, NEW g, Follows(k, g)
      PROVE  \E h : Follows(k + 1, h)
  <2> DEFINE h == [T \in SUBSET (1 .. k + 1) |->
                       IF k + 1 \in T THEN Op(g[T \ {k + 1}], k + 1) ELSE g[T]]
  <2>1. \A T \in SUBSET (1 .. k + 1) : /\ k + 1 \notin T => T \in SUBSET (1 .. k)
                                       /\ T \ {k + 1} \in SUBSET (1 .. k)
    OBVIOUS
  <2>2. h = [T \in SUBSET (1 .. k + 1) |-> h[T]]
    OBVIOUS
  <2>3. \A T \in SUBSET (1 .. k) : h[T] = g[T]
    <3>1. \A T \in SUBSET (1 .. k) : T \in SUBSET (1 .. k + 1) /\ k + 1 \notin T
      OBVIOUS
    <3>. QED BY <3>1
  <2>4. ASSUME NEW T \in SUBSET (1 .. k + 1), T # {}
        PROVE  h[T] = Op(h[T \ {Max(T)}], Max(T))
    <3>1. Max(T) \in T /\ \A x \in T : x <= Max(T)
      <4>1. k + 1 \in Nat
        OBVIOUS
      <4>. QED BY <2>4, <4>1, MaxUpto
    <3>2. CASE k + 1 \in T
      <4>1. Max(T) = k + 1
        <5>. DEFINE m == Max(T)
        <5>1. m \in 1 .. k + 1 /\ k + 1 <= m
          BY <3>1, <3>2
        <5>. HIDE DEF m
        <5>2. m = k + 1
          BY <5>1
        <5>. QED BY <5>2 DEF m
      <4>2. h[T] = Op(g[T \ {k + 1}], k + 1)
        BY <3>2
      <4>. QED BY <2>1, <2>3, <4>1, <4>2
    <3>3. CASE k + 1 \notin T
      <4>1. T \in SUBSET (1 .. k) /\ T \ {Max(T)} \in SUBSET (1 .. k)
        BY <2>1, <3>3
      <4>2. g[T] = Op(g[T \ {Max(T)}], Max(T))
        BY <1>2, <2>4, <4>1
      <4>. QED BY <2>3, <4>1, <4>2
    <3>. QED BY <3>2, <3>3
  <2>5. h[{}] = base
    <3>1. {} \in SUBSET (1 .. k)
      OBVIOUS
    <3>. HIDE DEF h
    <3>. QED BY <1>2, <2>3, <3>1
  <2>. HIDE DEF h
  <2>. QED BY <2>2, <2>4, <2>5
<1>3. \A k \in N : k + 1 \in N
  <2>1. ASSUME NEW k \in N PROVE k + 1 \in N
    <3>. HIDE DEF Follows
    <3>1. k \in Nat /\ \E g : Follows(k, g)
      OBVIOUS
    <3>2. PICK g : Follows(k, g)
      BY <3>1
    <3>. QED BY <1>2, <3>1, <3>2
  <2>. QED BY <2>1
<1>4. n \in N
  <2>. HIDE DEF N
  <2>1. N \in SUBSET Nat
    BY DEF N
  <2>. QED BY <1>1, <1>3, <2>1, SetInduction
<1>5. PICK g : Follows(n, g)
  <2>. HIDE DEF Follows
  <2>. QED BY <1>4
<1> DEFINE G == [T \in SUBSET (1 .. n) |-> IF T = {} THEN base ELSE Op(g[T \ {Max(T)}], Max(T))]
<1>6. \A T \in SUBSET (1 .. n) : g[T] = G[T]
  BY <1>5
<1>7. g = G
  BY <1>5, <1>6
<1>. QED BY <1>7 DEF Folding, Op

\* v is reached from base in the n steps of a call over the places 1 .. n
Reached(kind, a, base, n, v) ==
  \E st : /\ st[0] = base /\ v = st[n]
          /\ \A k \in 1 .. n : st[k] = Step(kind, a, st[k - 1], k)

\* The states after each place
LEMMA FoldStates ==
  ASSUME NEW kind, NEW a, NEW base, NEW n \in Nat, NEW h, Folding(kind, a, base, n, h)
  PROVE  Reached(kind, a, base, n, h[1 .. n])
<1> DEFINE Op(x, k) == Step(kind, a, x, k)
           st == [k \in 0 .. n |-> h[1 .. k]]
<1>. HIDE DEF Op
<1>1. /\ h[{}] = base
      /\ \A T \in SUBSET (1 .. n) : T # {} => h[T] = Op(h[T \ {Max(T)}], Max(T))
  BY DEF Folding, Op
<1>2. ASSUME NEW k \in 1 .. n
      PROVE  h[1 .. k] = Op(h[1 .. k - 1], k)
  <2>1. (1 .. k) \in SUBSET (1 .. n) /\ (1 .. k) # {}
    OBVIOUS
  <2>2. Max(1 .. k) \in 1 .. k /\ \A x \in 1 .. k : x <= Max(1 .. k)
    BY <2>1, MaxUpto
  <2>3. Max(1 .. k) = k
    BY <2>2
  <2>4. (1 .. k) \ {k} = 1 .. k - 1
    OBVIOUS
  <2>. QED BY <1>1, <2>1, <2>3, <2>4
<1>3. 1 .. 0 = {} /\ 0 \in 0 .. n /\ n \in 0 .. n
  OBVIOUS
<1>4. st[0] = base /\ h[1 .. n] = st[n]
  BY <1>1, <1>3
<1>5. ASSUME NEW k \in 1 .. n PROVE st[k] = Op(st[k - 1], k)
  <2>1. k - 1 \in 0 .. n /\ k \in 0 .. n
    OBVIOUS
  <2>. QED BY <1>2, <2>1
<1>. HIDE DEF st
<1>. QED BY <1>4, <1>5 DEF Op, Reached

-----------------------------------------------------------------------------
(* The folds of the actions *)

\* Induction along such states
LEMMA AlongStates ==
  ASSUME NEW n \in Nat, NEW S, 0 \in S, \A k \in 1 .. n : k - 1 \in S => k \in S
  PROVE  n \in S
<1> DEFINE N == {k \in Nat : k <= n => k \in S}
<1>1. 0 \in N
  OBVIOUS
<1>2. ASSUME NEW k \in N PROVE k + 1 \in N
  <2>1. CASE k + 1 <= n
    <3>1. k + 1 \in 1 .. n /\ (k + 1) - 1 = k /\ k \in S
      BY <2>1
    <3>2. k + 1 \in S
      BY <3>1
    <3>. QED BY <3>2
  <2>2. CASE ~(k + 1 <= n)
    BY <2>2
  <2>. QED BY <2>1, <2>2
<1>3. Nat \subseteq N
  <2>. HIDE DEF N
  <2>1. N \in SUBSET Nat
    BY DEF N
  <2>. QED BY <1>1, <1>2, <2>1, SetInduction
<1>. QED BY <1>3

\* The number of combinations of the parents' classes, parent by parent
LEMMA SizeSteps ==
  ASSUME NEW parents, NEW n \in Nat, DOMAIN parents = 1 .. n
  PROVE  \E st : /\ st[0] = 1 /\ ChunkSize(parents) = st[n]
                 /\ \A k \in 1 .. n : st[k] = st[k - 1] * MaxId(parents[k])
<1> DEFINE Rec(h) == h = [T \in SUBSET DOMAIN parents |->
                             IF T = {} THEN 1 ELSE h[T \ {Max(T)}] * MaxId(parents[Max(T)])]
           F == CHOOSE h : Rec(h)
<1>1. \A x, k : Step("size", parents, x, k) = x * MaxId(parents[k])
  BY DEF Step
<1>2. \A h : Rec(h) <=> Folding("size", parents, 1, n, h)
  <2>1. ASSUME NEW h, NEW T
        PROVE  (IF T = {} THEN 1 ELSE h[T \ {Max(T)}] * MaxId(parents[Max(T)]))
                  = IF T = {} THEN 1 ELSE Step("size", parents, h[T \ {Max(T)}], Max(T))
    BY <1>1
  <2>2. ASSUME NEW h PROVE Rec(h) <=> Folding("size", parents, 1, n, h)
    <3>1. [T \in SUBSET DOMAIN parents |-> IF T = {} THEN 1 ELSE h[T \ {Max(T)}] * MaxId(parents[Max(T)])]
             = [T \in SUBSET (1 .. n) |->
                  IF T = {} THEN 1 ELSE Step("size", parents, h[T \ {Max(T)}], Max(T))]
      BY <2>1, Zenon
    <3>. QED BY <3>1, Zenon DEF Folding
  <2>. QED BY <2>2
<1>3. ChunkSize(parents) = F[DOMAIN parents]
  BY Zenon DEF ChunkSize, FoldLeft, MapThenFoldSet
<1>. HIDE DEF Rec
<1>4. Folding("size", parents, 1, n, F)
  <2>1. \E h : Rec(h)
    BY <1>2, FoldExists
  <2>. QED BY <1>2, <2>1
<1>. HIDE DEF F
<1>5. ChunkSize(parents) = F[1 .. n]
  BY <1>3, Zenon
<1>6. Reached("size", parents, 1, n, F[1 .. n])
  BY <1>4, FoldStates, Zenon
<1>7. PICK st : /\ st[0] = 1 /\ F[1 .. n] = st[n]
                /\ \A k \in 1 .. n : st[k] = Step("size", parents, st[k - 1], k)
  BY <1>6, Zenon DEF Reached
<1>8. \A k \in 1 .. n : st[k] = st[k - 1] * MaxId(parents[k])
  BY <1>1, <1>7, Zenon
<1>. QED BY <1>5, <1>7, <1>8, Zenon

\* The lines that filters name
LEMMA FilterLinesSteps ==
  ASSUME NEW lines, NEW filters, NEW backward, NEW n \in Nat, DOMAIN filters = 1 .. n
  PROVE  Reached("filter line", <<filters, backward>>, lines, n, FilterLines(lines, filters, backward))
<1> DEFINE Rec(h) == h = [T \in SUBSET DOMAIN filters |->
                             IF T = {} THEN lines ELSE FindOrAdd(h[T \ {Max(T)}], Place(filters[Max(T)], backward))]
           F == CHOOSE h : Rec(h)
<1>1. \A x, k : Step("filter line", <<filters, backward>>, x, k) = FindOrAdd(x, Place(filters[k], backward))
  BY DEF Step
<1>2. \A h : Rec(h) <=> Folding("filter line", <<filters, backward>>, lines, n, h)
  <2>1. ASSUME NEW h, NEW T
        PROVE  (IF T = {} THEN lines ELSE FindOrAdd(h[T \ {Max(T)}], Place(filters[Max(T)], backward)))
                  = IF T = {} THEN lines ELSE Step("filter line", <<filters, backward>>, h[T \ {Max(T)}], Max(T))
    BY <1>1
  <2>2. ASSUME NEW h PROVE Rec(h) <=> Folding("filter line", <<filters, backward>>, lines, n, h)
    <3>1. [T \in SUBSET DOMAIN filters |-> IF T = {} THEN lines ELSE FindOrAdd(h[T \ {Max(T)}], Place(filters[Max(T)], backward))]
             = [T \in SUBSET (1 .. n) |->
                  IF T = {} THEN lines ELSE Step("filter line", <<filters, backward>>, h[T \ {Max(T)}], Max(T))]
      BY <2>1, Zenon
    <3>. QED BY <3>1, Zenon DEF Folding
  <2>. QED BY <2>2
<1>3. FilterLines(lines, filters, backward) = F[DOMAIN filters]
  BY Zenon DEF FilterLines, FoldLeft, MapThenFoldSet
<1>. HIDE DEF Rec
<1>4. Folding("filter line", <<filters, backward>>, lines, n, F)
  <2>1. \E h : Rec(h)
    BY <1>2, FoldExists
  <2>. QED BY <1>2, <2>1
<1>. HIDE DEF F
<1>5. FilterLines(lines, filters, backward) = F[1 .. n]
  BY <1>3, Zenon
<1>6. Reached("filter line", <<filters, backward>>, lines, n, F[1 .. n])
  BY <1>4, FoldStates, Zenon
<1>. QED BY <1>5, <1>6, Zenon

\* The lines that a rule names in each of its directions
LEMMA RuleLinesSteps ==
  ASSUME NEW lines, NEW r, NEW n \in Nat, DOMAIN DirectionsWithSpec(r) = 1 .. n
  PROVE  Reached("direction line", r, lines, n, RuleLines(lines, r))
<1> DEFINE Rec(h) == h = [T \in SUBSET DOMAIN DirectionsWithSpec(r) |->
                             IF T = {} THEN lines ELSE FilterLines(h[T \ {Max(T)}], r.filters, DirectionsWithSpec(r)[Max(T)])]
           F == CHOOSE h : Rec(h)
<1>1. \A x, k : Step("direction line", r, x, k) = FilterLines(x, r.filters, DirectionsWithSpec(r)[k])
  BY DEF Step
<1>2. \A h : Rec(h) <=> Folding("direction line", r, lines, n, h)
  <2>1. ASSUME NEW h, NEW T
        PROVE  (IF T = {} THEN lines ELSE FilterLines(h[T \ {Max(T)}], r.filters, DirectionsWithSpec(r)[Max(T)]))
                  = IF T = {} THEN lines ELSE Step("direction line", r, h[T \ {Max(T)}], Max(T))
    BY <1>1
  <2>2. ASSUME NEW h PROVE Rec(h) <=> Folding("direction line", r, lines, n, h)
    <3>1. [T \in SUBSET DOMAIN DirectionsWithSpec(r) |-> IF T = {} THEN lines ELSE FilterLines(h[T \ {Max(T)}], r.filters, DirectionsWithSpec(r)[Max(T)])]
             = [T \in SUBSET (1 .. n) |->
                  IF T = {} THEN lines ELSE Step("direction line", r, h[T \ {Max(T)}], Max(T))]
      BY <2>1, Zenon
    <3>. QED BY <3>1, Zenon DEF Folding
  <2>. QED BY <2>2
<1>3. RuleLines(lines, r) = F[DOMAIN DirectionsWithSpec(r)]
  BY Zenon DEF RuleLines, FoldLeft, MapThenFoldSet
<1>. HIDE DEF Rec
<1>4. Folding("direction line", r, lines, n, F)
  <2>1. \E h : Rec(h)
    BY <1>2, FoldExists
  <2>. QED BY <1>2, <2>1
<1>. HIDE DEF F
<1>5. RuleLines(lines, r) = F[1 .. n]
  BY <1>3, Zenon
<1>6. Reached("direction line", r, lines, n, F[1 .. n])
  BY <1>4, FoldStates, Zenon
<1>. QED BY <1>5, <1>6, Zenon

\* The lines that a batch of rules names
LEMMA AddLinesSteps ==
  ASSUME NEW lines, NEW batch, NEW n \in Nat, DOMAIN batch = 1 .. n
  PROVE  Reached("rule line", batch, lines, n, AddLines(lines, batch))
<1> DEFINE Rec(h) == h = [T \in SUBSET DOMAIN batch |->
                             IF T = {} THEN lines ELSE RuleLines(h[T \ {Max(T)}], batch[Max(T)])]
           F == CHOOSE h : Rec(h)
<1>1. \A x, k : Step("rule line", batch, x, k) = RuleLines(x, batch[k])
  BY DEF Step
<1>2. \A h : Rec(h) <=> Folding("rule line", batch, lines, n, h)
  <2>1. ASSUME NEW h, NEW T
        PROVE  (IF T = {} THEN lines ELSE RuleLines(h[T \ {Max(T)}], batch[Max(T)]))
                  = IF T = {} THEN lines ELSE Step("rule line", batch, h[T \ {Max(T)}], Max(T))
    BY <1>1
  <2>2. ASSUME NEW h PROVE Rec(h) <=> Folding("rule line", batch, lines, n, h)
    <3>1. [T \in SUBSET DOMAIN batch |-> IF T = {} THEN lines ELSE RuleLines(h[T \ {Max(T)}], batch[Max(T)])]
             = [T \in SUBSET (1 .. n) |->
                  IF T = {} THEN lines ELSE Step("rule line", batch, h[T \ {Max(T)}], Max(T))]
      BY <2>1, Zenon
    <3>. QED BY <3>1, Zenon DEF Folding
  <2>. QED BY <2>2
<1>3. AddLines(lines, batch) = F[DOMAIN batch]
  BY Zenon DEF AddLines, FoldLeft, MapThenFoldSet
<1>. HIDE DEF Rec
<1>4. Folding("rule line", batch, lines, n, F)
  <2>1. \E h : Rec(h)
    BY <1>2, FoldExists
  <2>. QED BY <1>2, <2>1
<1>. HIDE DEF F
<1>5. AddLines(lines, batch) = F[1 .. n]
  BY <1>3, Zenon
<1>6. Reached("rule line", batch, lines, n, F[1 .. n])
  BY <1>4, FoldStates, Zenon
<1>. QED BY <1>5, <1>6, Zenon

\* The scan of a line
LEMMA ScanSteps ==
  ASSUME NEW marks, NEW n \in Nat, DOMAIN Points = 1 .. n
  PROVE  \E st : /\ st[0] = NothingScanned /\ Scanned(marks) = st[n]
                 /\ \A k \in 1 .. n : st[k] = ScanPoint(marks, st[k - 1], Points[k])
<1> DEFINE Rec(h) == h = [T \in SUBSET DOMAIN Points |->
                             IF T = {} THEN NothingScanned ELSE ScanPoint(marks, h[T \ {Max(T)}], Points[Max(T)])]
           F == CHOOSE h : Rec(h)
<1>1. \A x, k : Step("scan", marks, x, k) = ScanPoint(marks, x, Points[k])
  BY DEF Step
<1>2. \A h : Rec(h) <=> Folding("scan", marks, NothingScanned, n, h)
  <2>1. ASSUME NEW h, NEW T
        PROVE  (IF T = {} THEN NothingScanned ELSE ScanPoint(marks, h[T \ {Max(T)}], Points[Max(T)]))
                  = IF T = {} THEN NothingScanned ELSE Step("scan", marks, h[T \ {Max(T)}], Max(T))
    BY <1>1
  <2>2. ASSUME NEW h PROVE Rec(h) <=> Folding("scan", marks, NothingScanned, n, h)
    <3>1. [T \in SUBSET DOMAIN Points |-> IF T = {} THEN NothingScanned ELSE ScanPoint(marks, h[T \ {Max(T)}], Points[Max(T)])]
             = [T \in SUBSET (1 .. n) |->
                  IF T = {} THEN NothingScanned ELSE Step("scan", marks, h[T \ {Max(T)}], Max(T))]
      BY <2>1, Zenon
    <3>. QED BY <3>1, Zenon DEF Folding
  <2>. QED BY <2>2
<1>3. Scanned(marks) = F[DOMAIN Points]
  BY Zenon DEF Scanned, NothingScanned, Points, FoldLeft, MapThenFoldSet
<1>. HIDE DEF Rec
<1>4. Folding("scan", marks, NothingScanned, n, F)
  <2>1. \E h : Rec(h)
    BY <1>2, FoldExists
  <2>. QED BY <1>2, <2>1
<1>. HIDE DEF F
<1>5. Scanned(marks) = F[1 .. n]
  BY <1>3, Zenon
<1>6. Reached("scan", marks, NothingScanned, n, F[1 .. n])
  BY <1>4, FoldStates, Zenon
<1>7. PICK st : /\ st[0] = NothingScanned /\ F[1 .. n] = st[n]
                /\ \A k \in 1 .. n : st[k] = Step("scan", marks, st[k - 1], k)
  BY <1>6, Zenon DEF Reached
<1>8. \A k \in 1 .. n : st[k] = ScanPoint(marks, st[k - 1], Points[k])
  BY <1>1, <1>7, Zenon
<1>. QED BY <1>5, <1>7, <1>8, Zenon

\* The intersection, combination by combination
LEMMA IntersectionSteps ==
  ASSUME NEW parents, NEW c, NEW entries, NEW n \in Nat, DOMAIN Combinations(parents) = 1 .. n
  PROVE  \E st : /\ st[0] = Before(parents, c, entries) /\ DoIntersection(parents, c, entries) = st[n]
                 /\ \A k \in 1 .. n : st[k] = IntersectOne(parents, st[k - 1], Combinations(parents)[k])
<1> DEFINE Rec(h) == h = [T \in SUBSET DOMAIN Combinations(parents) |->
                             IF T = {} THEN Before(parents, c, entries) ELSE IntersectOne(parents, h[T \ {Max(T)}], Combinations(parents)[Max(T)])]
           F == CHOOSE h : Rec(h)
<1>1. \A x, k : Step("intersect", parents, x, k) = IntersectOne(parents, x, Combinations(parents)[k])
  BY DEF Step
<1>2. \A h : Rec(h) <=> Folding("intersect", parents, Before(parents, c, entries), n, h)
  <2>1. ASSUME NEW h, NEW T
        PROVE  (IF T = {} THEN Before(parents, c, entries) ELSE IntersectOne(parents, h[T \ {Max(T)}], Combinations(parents)[Max(T)]))
                  = IF T = {} THEN Before(parents, c, entries) ELSE Step("intersect", parents, h[T \ {Max(T)}], Max(T))
    BY <1>1
  <2>2. ASSUME NEW h PROVE Rec(h) <=> Folding("intersect", parents, Before(parents, c, entries), n, h)
    <3>1. [T \in SUBSET DOMAIN Combinations(parents) |-> IF T = {} THEN Before(parents, c, entries) ELSE IntersectOne(parents, h[T \ {Max(T)}], Combinations(parents)[Max(T)])]
             = [T \in SUBSET (1 .. n) |->
                  IF T = {} THEN Before(parents, c, entries) ELSE Step("intersect", parents, h[T \ {Max(T)}], Max(T))]
      BY <2>1, Zenon
    <3>. QED BY <3>1, Zenon DEF Folding
  <2>. QED BY <2>2
<1>3. DoIntersection(parents, c, entries) = F[DOMAIN Combinations(parents)]
  BY Zenon DEF DoIntersection, Before, Combinations, FoldLeft, MapThenFoldSet
<1>. HIDE DEF Rec
<1>4. Folding("intersect", parents, Before(parents, c, entries), n, F)
  <2>1. \E h : Rec(h)
    BY <1>2, FoldExists
  <2>. QED BY <1>2, <2>1
<1>. HIDE DEF F
<1>5. DoIntersection(parents, c, entries) = F[1 .. n]
  BY <1>3, Zenon
<1>6. Reached("intersect", parents, Before(parents, c, entries), n, F[1 .. n])
  BY <1>4, FoldStates, Zenon
<1>7. PICK st : /\ st[0] = Before(parents, c, entries) /\ F[1 .. n] = st[n]
                /\ \A k \in 1 .. n : st[k] = Step("intersect", parents, st[k - 1], k)
  BY <1>6, Zenon DEF Reached
<1>8. \A k \in 1 .. n : st[k] = IntersectOne(parents, st[k - 1], Combinations(parents)[k])
  BY <1>1, <1>7, Zenon
<1>. QED BY <1>5, <1>7, <1>8, Zenon

\* What several bitmaps have in common
LEMMA MeetSteps ==
  ASSUME NEW bms, NEW n \in Nat, DOMAIN bms = 1 .. n
  PROVE  \E st : /\ st[0] = bms[1] /\ Meet(bms) = st[n]
                 /\ \A k \in 1 .. n : st[k] = st[k - 1] \cap bms[k]
<1> DEFINE Rec(h) == h = [T \in SUBSET DOMAIN bms |->
                             IF T = {} THEN bms[1] ELSE h[T \ {Max(T)}] \cap bms[Max(T)]]
           F == CHOOSE h : Rec(h)
<1>1. \A x, k : Step("meet", bms, x, k) = x \cap bms[k]
  BY DEF Step
<1>2. \A h : Rec(h) <=> Folding("meet", bms, bms[1], n, h)
  <2>1. ASSUME NEW h, NEW T
        PROVE  (IF T = {} THEN bms[1] ELSE h[T \ {Max(T)}] \cap bms[Max(T)])
                  = IF T = {} THEN bms[1] ELSE Step("meet", bms, h[T \ {Max(T)}], Max(T))
    BY <1>1
  <2>2. ASSUME NEW h PROVE Rec(h) <=> Folding("meet", bms, bms[1], n, h)
    <3>1. [T \in SUBSET DOMAIN bms |-> IF T = {} THEN bms[1] ELSE h[T \ {Max(T)}] \cap bms[Max(T)]]
             = [T \in SUBSET (1 .. n) |->
                  IF T = {} THEN bms[1] ELSE Step("meet", bms, h[T \ {Max(T)}], Max(T))]
      BY <2>1, Zenon
    <3>. QED BY <3>1, Zenon DEF Folding
  <2>. QED BY <2>2
<1>3. Meet(bms) = F[DOMAIN bms]
  BY Zenon DEF Meet, FoldLeft, MapThenFoldSet
<1>. HIDE DEF Rec
<1>4. Folding("meet", bms, bms[1], n, F)
  <2>1. \E h : Rec(h)
    BY <1>2, FoldExists
  <2>. QED BY <1>2, <2>1
<1>. HIDE DEF F
<1>5. Meet(bms) = F[1 .. n]
  BY <1>3, Zenon
<1>6. Reached("meet", bms, bms[1], n, F[1 .. n])
  BY <1>4, FoldStates, Zenon
<1>7. PICK st : /\ st[0] = bms[1] /\ F[1 .. n] = st[n]
                /\ \A k \in 1 .. n : st[k] = Step("meet", bms, st[k - 1], k)
  BY <1>6, Zenon DEF Reached
<1>8. \A k \in 1 .. n : st[k] = st[k - 1] \cap bms[k]
  BY <1>1, <1>7, Zenon
<1>. QED BY <1>5, <1>7, <1>8, Zenon

\* The entries from one point to another, in turn
LEMMA RemapSteps ==
  ASSUME NEW s, NEW from, NEW to, NEW rid, NEW n \in Nat, DOMAIN Between(from, to) = 1 .. n
  PROVE  \E st : /\ st[0] = Unmapped(s) /\ RemapIndex(s, from, to, rid) = st[n]
                 /\ \A k \in 1 .. n : st[k] = RemapEntry(st[k - 1], Between(from, to)[k], rid)
<1> DEFINE Rec(h) == h = [T \in SUBSET DOMAIN Between(from, to) |->
                             IF T = {} THEN Unmapped(s) ELSE RemapEntry(h[T \ {Max(T)}], Between(from, to)[Max(T)], rid)]
           F == CHOOSE h : Rec(h)
<1>1. \A x, k : Step("remap", <<from, to, rid>>, x, k) = RemapEntry(x, Between(from, to)[k], rid)
  BY DEF Step
<1>2. \A h : Rec(h) <=> Folding("remap", <<from, to, rid>>, Unmapped(s), n, h)
  <2>1. ASSUME NEW h, NEW T
        PROVE  (IF T = {} THEN Unmapped(s) ELSE RemapEntry(h[T \ {Max(T)}], Between(from, to)[Max(T)], rid))
                  = IF T = {} THEN Unmapped(s) ELSE Step("remap", <<from, to, rid>>, h[T \ {Max(T)}], Max(T))
    BY <1>1
  <2>2. ASSUME NEW h PROVE Rec(h) <=> Folding("remap", <<from, to, rid>>, Unmapped(s), n, h)
    <3>1. [T \in SUBSET DOMAIN Between(from, to) |-> IF T = {} THEN Unmapped(s) ELSE RemapEntry(h[T \ {Max(T)}], Between(from, to)[Max(T)], rid)]
             = [T \in SUBSET (1 .. n) |->
                  IF T = {} THEN Unmapped(s) ELSE Step("remap", <<from, to, rid>>, h[T \ {Max(T)}], Max(T))]
      BY <2>1, Zenon
    <3>. QED BY <3>1, Zenon DEF Folding
  <2>. QED BY <2>2
<1>3. RemapIndex(s, from, to, rid) = F[DOMAIN Between(from, to)]
  BY Zenon DEF RemapIndex, Unmapped, Between, FoldLeft, MapThenFoldSet
<1>. HIDE DEF Rec
<1>4. Folding("remap", <<from, to, rid>>, Unmapped(s), n, F)
  <2>1. \E h : Rec(h)
    BY <1>2, FoldExists
  <2>. QED BY <1>2, <2>1
<1>. HIDE DEF F
<1>5. RemapIndex(s, from, to, rid) = F[1 .. n]
  BY <1>3, Zenon
<1>6. Reached("remap", <<from, to, rid>>, Unmapped(s), n, F[1 .. n])
  BY <1>4, FoldStates, Zenon
<1>7. PICK st : /\ st[0] = Unmapped(s) /\ F[1 .. n] = st[n]
                /\ \A k \in 1 .. n : st[k] = Step("remap", <<from, to, rid>>, st[k - 1], k)
  BY <1>6, Zenon DEF Reached
<1>8. \A k \in 1 .. n : st[k] = RemapEntry(st[k - 1], Between(from, to)[k], rid)
  BY <1>1, <1>7, Zenon
<1>. QED BY <1>5, <1>7, <1>8, Zenon

\* The values of a set, in turn
RemappedInTurn(s, on, v, rid, n) ==
  \E st : /\ st[0] = s /\ SetRemap(s, on, v, rid) = st[n]
          /\ \A k \in 1 .. n : st[k] = RemapIndex(st[k - 1], GetIndex(on, v[k])[1], GetIndex(on, v[k])[2], rid)

LEMMA SetRemapSteps ==
  ASSUME NEW s, NEW on, NEW v, NEW rid, NEW n \in Nat, DOMAIN v = 1 .. n
  PROVE  RemappedInTurn(s, on, v, rid, n)
<1> DEFINE Rec(h) == h = [T \in SUBSET DOMAIN v |->
                             IF T = {} THEN s ELSE RemapIndex(h[T \ {Max(T)}], GetIndex(on, v[Max(T)])[1], GetIndex(on, v[Max(T)])[2], rid)]
           F == CHOOSE h : Rec(h)
<1>1. \A x, k : Step("set", <<v, rid, on>>, x, k) = RemapIndex(x, GetIndex(on, v[k])[1], GetIndex(on, v[k])[2], rid)
  BY DEF Step
<1>2. \A h : Rec(h) <=> Folding("set", <<v, rid, on>>, s, n, h)
  <2>1. ASSUME NEW h, NEW T
        PROVE  (IF T = {} THEN s ELSE RemapIndex(h[T \ {Max(T)}], GetIndex(on, v[Max(T)])[1], GetIndex(on, v[Max(T)])[2], rid))
                  = IF T = {} THEN s ELSE Step("set", <<v, rid, on>>, h[T \ {Max(T)}], Max(T))
    BY <1>1
  <2>2. ASSUME NEW h PROVE Rec(h) <=> Folding("set", <<v, rid, on>>, s, n, h)
    <3>1. [T \in SUBSET DOMAIN v |-> IF T = {} THEN s ELSE RemapIndex(h[T \ {Max(T)}], GetIndex(on, v[Max(T)])[1], GetIndex(on, v[Max(T)])[2], rid)]
             = [T \in SUBSET (1 .. n) |->
                  IF T = {} THEN s ELSE Step("set", <<v, rid, on>>, h[T \ {Max(T)}], Max(T))]
      BY <2>1, Zenon
    <3>. QED BY <3>1, Zenon DEF Folding
  <2>. QED BY <2>2
<1>3. SetRemap(s, on, v, rid) = F[DOMAIN v]
  BY Zenon DEF SetRemap, FoldLeft, MapThenFoldSet
<1>. HIDE DEF Rec
<1>4. Folding("set", <<v, rid, on>>, s, n, F)
  <2>1. \E h : Rec(h)
    BY <1>2, FoldExists
  <2>. QED BY <1>2, <2>1
<1>. HIDE DEF F
<1>5. SetRemap(s, on, v, rid) = F[1 .. n]
  BY <1>3, Zenon
<1>6. Reached("set", <<v, rid, on>>, s, n, F[1 .. n])
  BY <1>4, FoldStates, Zenon
<1>7. PICK st : /\ st[0] = s /\ F[1 .. n] = st[n]
                /\ \A k \in 1 .. n : st[k] = Step("set", <<v, rid, on>>, st[k - 1], k)
  BY <1>6, Zenon DEF Reached
<1>8. \A k \in 1 .. n : st[k] = RemapIndex(st[k - 1], GetIndex(on, v[k])[1], GetIndex(on, v[k])[2], rid)
  BY <1>1, <1>7, Zenon
<1>. QED BY <1>5, <1>7, <1>8, Zenon DEF RemappedInTurn

\* The filters of a rule, in turn
FilteredInTurn(s, r, backward, n) ==
  \E st : /\ st[0] = s /\ Filtered(s, r, backward) = st[n]
          /\ \A k \in 1 .. n : st[k] = AddFilter(st[k - 1], r.filters[k], r, backward)

LEMMA FilterSteps ==
  ASSUME NEW s, NEW r, NEW backward, NEW n \in Nat, DOMAIN r.filters = 1 .. n
  PROVE  FilteredInTurn(s, r, backward, n)
<1> DEFINE Rec(h) == h = [T \in SUBSET DOMAIN r.filters |->
                             IF T = {} THEN s ELSE AddFilter(h[T \ {Max(T)}], r.filters[Max(T)], r, backward)]
           F == CHOOSE h : Rec(h)
<1>1. \A x, k : Step("filter", <<r, backward>>, x, k) = AddFilter(x, r.filters[k], r, backward)
  BY DEF Step
<1>2. \A h : Rec(h) <=> Folding("filter", <<r, backward>>, s, n, h)
  <2>1. ASSUME NEW h, NEW T
        PROVE  (IF T = {} THEN s ELSE AddFilter(h[T \ {Max(T)}], r.filters[Max(T)], r, backward))
                  = IF T = {} THEN s ELSE Step("filter", <<r, backward>>, h[T \ {Max(T)}], Max(T))
    BY <1>1
  <2>2. ASSUME NEW h PROVE Rec(h) <=> Folding("filter", <<r, backward>>, s, n, h)
    <3>1. [T \in SUBSET DOMAIN r.filters |-> IF T = {} THEN s ELSE AddFilter(h[T \ {Max(T)}], r.filters[Max(T)], r, backward)]
             = [T \in SUBSET (1 .. n) |->
                  IF T = {} THEN s ELSE Step("filter", <<r, backward>>, h[T \ {Max(T)}], Max(T))]
      BY <2>1, Zenon
    <3>. QED BY <3>1, Zenon DEF Folding
  <2>. QED BY <2>2
<1>3. Filtered(s, r, backward) = F[DOMAIN r.filters]
  BY Zenon DEF Filtered, FoldLeft, MapThenFoldSet
<1>. HIDE DEF Rec
<1>4. Folding("filter", <<r, backward>>, s, n, F)
  <2>1. \E h : Rec(h)
    BY <1>2, FoldExists
  <2>. QED BY <1>2, <2>1
<1>. HIDE DEF F
<1>5. Filtered(s, r, backward) = F[1 .. n]
  BY <1>3, Zenon
<1>6. Reached("filter", <<r, backward>>, s, n, F[1 .. n])
  BY <1>4, FoldStates, Zenon
<1>7. PICK st : /\ st[0] = s /\ F[1 .. n] = st[n]
                /\ \A k \in 1 .. n : st[k] = Step("filter", <<r, backward>>, st[k - 1], k)
  BY <1>6, Zenon DEF Reached
<1>8. \A k \in 1 .. n : st[k] = AddFilter(st[k - 1], r.filters[k], r, backward)
  BY <1>1, <1>7, Zenon
<1>. QED BY <1>5, <1>7, <1>8, Zenon DEF FilteredInTurn

\* The directions of a rule, in turn
DirectedInTurn(t, r, n) ==
  \E st : /\ st[0] = Unused(t) /\ Directed(t, r) = st[n]
          /\ \A k \in 1 .. n : st[k] = AddDirection(st[k - 1], r, DirectionsWithSpec(r)[k])

LEMMA DirectionSteps ==
  ASSUME NEW t, NEW r, NEW n \in Nat, DOMAIN DirectionsWithSpec(r) = 1 .. n
  PROVE  DirectedInTurn(t, r, n)
<1> DEFINE Rec(h) == h = [T \in SUBSET DOMAIN DirectionsWithSpec(r) |->
                             IF T = {} THEN Unused(t) ELSE AddDirection(h[T \ {Max(T)}], r, DirectionsWithSpec(r)[Max(T)])]
           F == CHOOSE h : Rec(h)
<1>1. \A x, k : Step("direction", r, x, k) = AddDirection(x, r, DirectionsWithSpec(r)[k])
  BY DEF Step
<1>2. \A h : Rec(h) <=> Folding("direction", r, Unused(t), n, h)
  <2>1. ASSUME NEW h, NEW T
        PROVE  (IF T = {} THEN Unused(t) ELSE AddDirection(h[T \ {Max(T)}], r, DirectionsWithSpec(r)[Max(T)]))
                  = IF T = {} THEN Unused(t) ELSE Step("direction", r, h[T \ {Max(T)}], Max(T))
    BY <1>1
  <2>2. ASSUME NEW h PROVE Rec(h) <=> Folding("direction", r, Unused(t), n, h)
    <3>1. [T \in SUBSET DOMAIN DirectionsWithSpec(r) |-> IF T = {} THEN Unused(t) ELSE AddDirection(h[T \ {Max(T)}], r, DirectionsWithSpec(r)[Max(T)])]
             = [T \in SUBSET (1 .. n) |->
                  IF T = {} THEN Unused(t) ELSE Step("direction", r, h[T \ {Max(T)}], Max(T))]
      BY <2>1, Zenon
    <3>. QED BY <3>1, Zenon DEF Folding
  <2>. QED BY <2>2
<1>3. Directed(t, r) = F[DOMAIN DirectionsWithSpec(r)]
  BY Zenon DEF Directed, Unused, FoldLeft, MapThenFoldSet
<1>. HIDE DEF Rec
<1>4. Folding("direction", r, Unused(t), n, F)
  <2>1. \E h : Rec(h)
    BY <1>2, FoldExists
  <2>. QED BY <1>2, <2>1
<1>. HIDE DEF F
<1>5. Directed(t, r) = F[1 .. n]
  BY <1>3, Zenon
<1>6. Reached("direction", r, Unused(t), n, F[1 .. n])
  BY <1>4, FoldStates, Zenon
<1>7. PICK st : /\ st[0] = Unused(t) /\ F[1 .. n] = st[n]
                /\ \A k \in 1 .. n : st[k] = Step("direction", r, st[k - 1], k)
  BY <1>6, Zenon DEF Reached
<1>8. \A k \in 1 .. n : st[k] = AddDirection(st[k - 1], r, DirectionsWithSpec(r)[k])
  BY <1>1, <1>7, Zenon
<1>. QED BY <1>5, <1>7, <1>8, Zenon DEF DirectedInTurn

\* The rules of a later batch, in turn
LEMMA AddBatchSteps ==
  ASSUME NEW t, NEW batch, NEW n \in Nat, DOMAIN batch = 1 .. n
  PROVE  Reached("rule", batch, t, n, AddedInTurn(t, batch))
<1> DEFINE Rec(h) == h = [T \in SUBSET DOMAIN batch |->
                             IF T = {} THEN t ELSE AddRule(h[T \ {Max(T)}], batch[Max(T)])]
           F == CHOOSE h : Rec(h)
<1>1. \A x, k : Step("rule", batch, x, k) = AddRule(x, batch[k])
  BY DEF Step
<1>2. \A h : Rec(h) <=> Folding("rule", batch, t, n, h)
  <2>1. ASSUME NEW h, NEW T
        PROVE  (IF T = {} THEN t ELSE AddRule(h[T \ {Max(T)}], batch[Max(T)]))
                  = IF T = {} THEN t ELSE Step("rule", batch, h[T \ {Max(T)}], Max(T))
    BY <1>1
  <2>2. ASSUME NEW h PROVE Rec(h) <=> Folding("rule", batch, t, n, h)
    <3>1. [T \in SUBSET DOMAIN batch |-> IF T = {} THEN t ELSE AddRule(h[T \ {Max(T)}], batch[Max(T)])]
             = [T \in SUBSET (1 .. n) |->
                  IF T = {} THEN t ELSE Step("rule", batch, h[T \ {Max(T)}], Max(T))]
      BY <2>1, Zenon
    <3>. QED BY <3>1, Zenon DEF Folding
  <2>. QED BY <2>2
<1>3. AddedInTurn(t, batch) = F[DOMAIN batch]
  BY Zenon DEF AddedInTurn, FoldLeft, MapThenFoldSet
<1>. HIDE DEF Rec
<1>4. Folding("rule", batch, t, n, F)
  <2>1. \E h : Rec(h)
    BY <1>2, FoldExists
  <2>. QED BY <1>2, <2>1
<1>. HIDE DEF F
<1>5. AddedInTurn(t, batch) = F[1 .. n]
  BY <1>3, Zenon
<1>6. Reached("rule", batch, t, n, F[1 .. n])
  BY <1>4, FoldStates, Zenon
<1>. QED BY <1>5, <1>6, Zenon

\* The classes that may lose a rule's bit, in turn
LEMMA DropRuleSteps ==
  ASSUME NEW c, NEW rid, NEW n \in Nat, DOMAIN Ids(c) = 1 .. n
  PROVE  Reached("bit", <<c, rid>>, c, n, DropRule(c, rid))
<1> DEFINE Rec(h) == h = [T \in SUBSET DOMAIN Ids(c) |->
                             IF T = {} THEN c ELSE DropBit(h[T \ {Max(T)}], Ids(c)[Max(T)], rid)]
           F == CHOOSE h : Rec(h)
<1>1. \A x, k : Step("bit", <<c, rid>>, x, k) = DropBit(x, Ids(c)[k], rid)
  BY DEF Step
<1>2. \A h : Rec(h) <=> Folding("bit", <<c, rid>>, c, n, h)
  <2>1. ASSUME NEW h, NEW T
        PROVE  (IF T = {} THEN c ELSE DropBit(h[T \ {Max(T)}], Ids(c)[Max(T)], rid))
                  = IF T = {} THEN c ELSE Step("bit", <<c, rid>>, h[T \ {Max(T)}], Max(T))
    BY <1>1
  <2>2. ASSUME NEW h PROVE Rec(h) <=> Folding("bit", <<c, rid>>, c, n, h)
    <3>1. [T \in SUBSET DOMAIN Ids(c) |-> IF T = {} THEN c ELSE DropBit(h[T \ {Max(T)}], Ids(c)[Max(T)], rid)]
             = [T \in SUBSET (1 .. n) |->
                  IF T = {} THEN c ELSE Step("bit", <<c, rid>>, h[T \ {Max(T)}], Max(T))]
      BY <2>1, Zenon
    <3>. QED BY <3>1, Zenon DEF Folding
  <2>. QED BY <2>2
<1>3. DropRule(c, rid) = F[DOMAIN Ids(c)]
  BY Zenon DEF DropRule, Ids, FoldLeft, MapThenFoldSet
<1>. HIDE DEF Rec
<1>4. Folding("bit", <<c, rid>>, c, n, F)
  <2>1. \E h : Rec(h)
    BY <1>2, FoldExists
  <2>. QED BY <1>2, <2>1
<1>. HIDE DEF F
<1>5. DropRule(c, rid) = F[1 .. n]
  BY <1>3, Zenon
<1>6. Reached("bit", <<c, rid>>, c, n, F[1 .. n])
  BY <1>4, FoldStates, Zenon
<1>. QED BY <1>5, <1>6, Zenon

\* The bits of a rule, in turn
LEMMA DropRulesSteps ==
  ASSUME NEW c, NEW rids, NEW n \in Nat, DOMAIN rids = 1 .. n
  PROVE  Reached("drop", rids, c, n, DroppedInTurn(c, rids))
<1> DEFINE Rec(h) == h = [T \in SUBSET DOMAIN rids |->
                             IF T = {} THEN c ELSE DropRule(h[T \ {Max(T)}], rids[Max(T)])]
           F == CHOOSE h : Rec(h)
<1>1. \A x, k : Step("drop", rids, x, k) = DropRule(x, rids[k])
  BY DEF Step
<1>2. \A h : Rec(h) <=> Folding("drop", rids, c, n, h)
  <2>1. ASSUME NEW h, NEW T
        PROVE  (IF T = {} THEN c ELSE DropRule(h[T \ {Max(T)}], rids[Max(T)]))
                  = IF T = {} THEN c ELSE Step("drop", rids, h[T \ {Max(T)}], Max(T))
    BY <1>1
  <2>2. ASSUME NEW h PROVE Rec(h) <=> Folding("drop", rids, c, n, h)
    <3>1. [T \in SUBSET DOMAIN rids |-> IF T = {} THEN c ELSE DropRule(h[T \ {Max(T)}], rids[Max(T)])]
             = [T \in SUBSET (1 .. n) |->
                  IF T = {} THEN c ELSE Step("drop", rids, h[T \ {Max(T)}], Max(T))]
      BY <2>1, Zenon
    <3>. QED BY <3>1, Zenon DEF Folding
  <2>. QED BY <2>2
<1>3. DroppedInTurn(c, rids) = F[DOMAIN rids]
  BY Zenon DEF DroppedInTurn, FoldLeft, MapThenFoldSet
<1>. HIDE DEF Rec
<1>4. Folding("drop", rids, c, n, F)
  <2>1. \E h : Rec(h)
    BY <1>2, FoldExists
  <2>. QED BY <1>2, <2>1
<1>. HIDE DEF F
<1>5. DroppedInTurn(c, rids) = F[1 .. n]
  BY <1>3, Zenon
<1>6. Reached("drop", rids, c, n, F[1 .. n])
  BY <1>4, FoldStates, Zenon
<1>. QED BY <1>5, <1>6, Zenon

\* The rules that are removed, in turn
LEMMA DelBatchSteps ==
  ASSUME NEW t, NEW batch, NEW n \in Nat, DOMAIN batch = 1 .. n
  PROVE  Reached("del", batch, t, n, RfcDelRules(t, batch))
<1> DEFINE Rec(h) == h = [T \in SUBSET DOMAIN batch |->
                             IF T = {} THEN t ELSE RfcDelRule(h[T \ {Max(T)}], batch[Max(T)])]
           F == CHOOSE h : Rec(h)
<1>1. \A x, k : Step("del", batch, x, k) = RfcDelRule(x, batch[k])
  BY DEF Step
<1>2. \A h : Rec(h) <=> Folding("del", batch, t, n, h)
  <2>1. ASSUME NEW h, NEW T
        PROVE  (IF T = {} THEN t ELSE RfcDelRule(h[T \ {Max(T)}], batch[Max(T)]))
                  = IF T = {} THEN t ELSE Step("del", batch, h[T \ {Max(T)}], Max(T))
    BY <1>1
  <2>2. ASSUME NEW h PROVE Rec(h) <=> Folding("del", batch, t, n, h)
    <3>1. [T \in SUBSET DOMAIN batch |-> IF T = {} THEN t ELSE RfcDelRule(h[T \ {Max(T)}], batch[Max(T)])]
             = [T \in SUBSET (1 .. n) |->
                  IF T = {} THEN t ELSE Step("del", batch, h[T \ {Max(T)}], Max(T))]
      BY <2>1, Zenon
    <3>. QED BY <3>1, Zenon DEF Folding
  <2>. QED BY <2>2
<1>3. RfcDelRules(t, batch) = F[DOMAIN batch]
  BY Zenon DEF RfcDelRules, FoldLeft, MapThenFoldSet
<1>. HIDE DEF Rec
<1>4. Folding("del", batch, t, n, F)
  <2>1. \E h : Rec(h)
    BY <1>2, FoldExists
  <2>. QED BY <1>2, <2>1
<1>. HIDE DEF F
<1>5. RfcDelRules(t, batch) = F[1 .. n]
  BY <1>3, Zenon
<1>6. Reached("del", batch, t, n, F[1 .. n])
  BY <1>4, FoldStates, Zenon
<1>. QED BY <1>5, <1>6, Zenon

-----------------------------------------------------------------------------
(* Equivalence classes *)

IsSeq(s) == Len(s) \in Nat /\ s = [i \in 1 .. Len(s) |-> s[i]]

\* What every operation keeps of a chunk's classes
IsClasses(c) == DOMAIN c = {"eids", "bms", "freeList"} /\ IsSeq(c.eids)

\* The classes of phases 1 and 2, which are never given back: the first k ids
\* are in use, for a bitmap each, and the others are free in their order.
Taken(c, k) ==
    /\ IsClasses(c) /\ k \in 0 .. MaxId(c)
    /\ \A i \in 1 .. MaxId(c) :
          /\ DOMAIN c.eids[i] = {"bm", "refc"}
          /\ c.eids[i].refc \in Nat /\ (c.eids[i].refc > 0 <=> i <= k)
    /\ c.bms = 0 .. k - 1
    /\ c.freeList = [i \in 1 .. MaxId(c) - k |-> k + i - 1]
    /\ \A i, j \in 1 .. k : c.eids[i].bm = c.eids[j].bm => i = j

Bitmaps(c, k) == {c.eids[i].bm : i \in 1 .. k}

LEMMA SeqMade ==
  ASSUME NEW n \in Nat, NEW s, s = [i \in 1 .. n |-> s[i]]
  PROVE  IsSeq(s) /\ Len(s) = n /\ DOMAIN s = 1 .. n
<1> DEFINE S == {s[i] : i \in 1 .. n}
<1>1. s \in [1 .. n -> S]
  OBVIOUS
<1>2. s \in Seq(S)
  BY <1>1, SeqDef
<1>3. Len(s) \in Nat /\ DOMAIN s = 1 .. Len(s)
  BY <1>2, LenProperties
<1>4. DOMAIN s = 1 .. n
  BY <1>1
<1>5. Len(s) = n
  BY <1>3, <1>4
<1>. QED BY <1>3, <1>4, <1>5 DEF IsSeq

LEMMA SeqAppended ==
  ASSUME NEW s, IsSeq(s), NEW x
  PROVE  /\ IsSeq(Append(s, x)) /\ Len(Append(s, x)) = Len(s) + 1
         /\ \A i \in 1 .. Len(s) + 1 : Append(s, x)[i] = IF i <= Len(s) THEN s[i] ELSE x
<1>1. PICK n \in Nat : n = Len(s) /\ s = [i \in 1 .. n |-> s[i]]
  BY DEF IsSeq
<1> DEFINE S == {s[i] : i \in 1 .. n} \cup {x}
<1>2. s \in [1 .. n -> S]
  BY <1>1
<1>3. s \in Seq(S) /\ x \in S
  BY <1>2, SeqDef
<1>4. Append(s, x) \in Seq(S) /\ Len(Append(s, x)) = n + 1
  BY <1>1, <1>3
<1>5. Append(s, x) = [i \in 1 .. n + 1 |-> Append(s, x)[i]]
  BY <1>4, LenProperties
<1>6. \A i \in 1 .. n + 1 : Append(s, x)[i] = IF i <= n THEN s[i] ELSE x
  BY <1>1, <1>3
<1>7. IsSeq(Append(s, x)) /\ Len(Append(s, x)) = n + 1
  <2>1. n + 1 \in Nat
    OBVIOUS
  <2>. QED BY <1>5, <2>1, SeqMade, Zenon
<1>. QED BY <1>1, <1>6, <1>7

LEMMA SeqChanged ==
  ASSUME NEW s, IsSeq(s), NEW t, DOMAIN t = DOMAIN s, t = [i \in DOMAIN t |-> t[i]]
  PROVE  IsSeq(t) /\ Len(t) = Len(s)
<1>1. PICK n \in Nat : n = Len(s) /\ s = [i \in 1 .. n |-> s[i]]
  BY DEF IsSeq
<1>2. DOMAIN s = 1 .. n
  BY <1>1
<1>3. t = [i \in 1 .. n |-> t[i]]
  BY <1>2
<1>. QED BY <1>1, <1>3, SeqMade

\* Classes with other fields
LEMMA ClassesChanged ==
  ASSUME NEW c, DOMAIN c = {"eids", "bms", "freeList"}, NEW e, NEW b, NEW l, NEW d,
         \/ d = [c EXCEPT !.eids = e] /\ b = c.bms /\ l = c.freeList
         \/ d = [c EXCEPT !.bms = b] /\ e = c.eids /\ l = c.freeList
         \/ d = [c EXCEPT !.freeList = l] /\ e = c.eids /\ b = c.bms
         \/ d = [c EXCEPT !.eids = e, !.bms = b] /\ l = c.freeList
         \/ d = [c EXCEPT !.eids = e, !.freeList = l] /\ b = c.bms
         \/ d = [eids |-> e, bms |-> b, freeList |-> l]
  PROVE  /\ DOMAIN d = {"eids", "bms", "freeList"}
         /\ d.eids = e /\ d.bms = b /\ d.freeList = l
<1>1. CASE d = [c EXCEPT !.eids = e] /\ b = c.bms /\ l = c.freeList
  BY <1>1
<1>2. CASE d = [c EXCEPT !.bms = b] /\ e = c.eids /\ l = c.freeList
  BY <1>2
<1>3. CASE d = [c EXCEPT !.freeList = l] /\ e = c.eids /\ b = c.bms
  BY <1>3
<1>4. CASE d = [c EXCEPT !.eids = e, !.bms = b] /\ l = c.freeList
  BY <1>4
<1>5. CASE d = [c EXCEPT !.eids = e, !.freeList = l] /\ b = c.bms
  BY <1>5
<1>6. CASE d = [eids |-> e, bms |-> b, freeList |-> l]
  BY <1>6
<1>. QED BY <1>1, <1>2, <1>3, <1>4, <1>5, <1>6

\* A class more, or one more reference to it
Found(c, bm, d, eq, new) ==
    /\ DOMAIN d = {"eids", "bms", "freeList"}
    /\ Find(c, bm) # {} =>
          /\ eq \in Find(c, bm)
          /\ d.eids = [c.eids EXCEPT ![eq + 1].refc = @ + 1]
          /\ d.bms = c.bms /\ d.freeList = c.freeList
    /\ Find(c, bm) = {} =>
          /\ eq = IF c.freeList # <<>> THEN Head(c.freeList) ELSE MaxId(c)
          /\ d.bms = c.bms \cup {eq}
          /\ eq < MaxId(c) => d.eids = [c.eids EXCEPT ![eq + 1] = new] /\ d.freeList = Tail(c.freeList)
          /\ ~(eq < MaxId(c)) => d.eids = Append(c.eids, new) /\ d.freeList = c.freeList

LEMMA FindECCases ==
  ASSUME NEW c, IsClasses(c), NEW bm
  PROVE  Found(c, bm, FindEC(c, bm).c, FindEC(c, bm).eq, [bm |-> bm, refc |-> 1])
<1> DEFINE f == FindEC(c, bm)
           eq == IF Find(c, bm) # {} THEN CHOOSE e \in Find(c, bm) : TRUE
                 ELSE IF c.freeList # <<>> THEN Head(c.freeList) ELSE MaxId(c)
           new == [bm |-> bm, refc |-> 1]
           E1 == [c.eids EXCEPT ![eq + 1].refc = @ + 1]
           E2 == [c.eids EXCEPT ![eq + 1] = new]
           E3 == Append(c.eids, new)
<1>1. DOMAIN c = {"eids", "bms", "freeList"}
  BY DEF IsClasses
<1>2. f.eq = eq
  BY DEF FindEC
<1>3. f.c = IF Find(c, bm) # {} THEN [c EXCEPT !.eids[eq + 1].refc = @ + 1]
            ELSE IF eq < MaxId(c) THEN [eids |-> E2, bms |-> c.bms \cup {eq}, freeList |-> Tail(c.freeList)]
            ELSE [c EXCEPT !.eids = Append(@, new), !.bms = @ \cup {eq}]
  BY DEF FindEC
<1>4. [c EXCEPT !.eids[eq + 1].refc = @ + 1] = [c EXCEPT !.eids = E1]
  BY <1>1
<1>5. [c EXCEPT !.eids = Append(@, new), !.bms = @ \cup {eq}] = [c EXCEPT !.eids = E3, !.bms = c.bms \cup {eq}]
  BY <1>1
<1>6. Find(c, bm) # {} => eq \in Find(c, bm)
  <2>1. Find(c, bm) # {} => eq = CHOOSE e \in Find(c, bm) : TRUE
    OBVIOUS
  <2>2. Find(c, bm) # {} => \E e : e \in Find(c, bm)
    OBVIOUS
  <2>. HIDE DEF eq
  <2>. QED BY <2>1, <2>2, Zenon
<1>7. Find(c, bm) = {} => eq = IF c.freeList # <<>> THEN Head(c.freeList) ELSE MaxId(c)
  OBVIOUS
<1>. HIDE DEF f, eq, E1, E2, E3
<1>8. CASE Find(c, bm) # {}
  <2>1. f.c = [c EXCEPT !.eids = E1]
    BY <1>3, <1>4, <1>8
  <2>2. DOMAIN f.c = {"eids", "bms", "freeList"} /\ f.c.eids = E1 /\ f.c.bms = c.bms /\ f.c.freeList = c.freeList
    BY <1>1, <2>1, ClassesChanged, Zenon
  <2>. QED BY <1>2, <1>6, <1>8, <2>2 DEF E1, f, Found
<1>9. CASE Find(c, bm) = {} /\ eq < MaxId(c)
  <2>1. f.c = [eids |-> E2, bms |-> c.bms \cup {eq}, freeList |-> Tail(c.freeList)]
    BY <1>3, <1>9
  <2>2. DOMAIN f.c = {"eids", "bms", "freeList"} /\ f.c.eids = E2 /\ f.c.bms = c.bms \cup {eq}
          /\ f.c.freeList = Tail(c.freeList)
    BY <2>1
  <2>. QED BY <1>2, <1>7, <1>9, <2>2 DEF E2, new, f, Found
<1>10. CASE Find(c, bm) = {} /\ ~(eq < MaxId(c))
  <2>1. f.c = [c EXCEPT !.eids = E3, !.bms = c.bms \cup {eq}]
    BY <1>3, <1>5, <1>10
  <2>2. DOMAIN f.c = {"eids", "bms", "freeList"} /\ f.c.eids = E3 /\ f.c.bms = c.bms \cup {eq}
          /\ f.c.freeList = c.freeList
    BY <1>1, <2>1, ClassesChanged, Zenon
  <2>. QED BY <1>2, <1>7, <1>10, <2>2 DEF E3, new, f, Found
<1>. QED BY <1>8, <1>9, <1>10 DEF f

LEMMA FindECKeeps ==
  ASSUME NEW c, IsClasses(c), NEW bm
  PROVE  IsClasses(FindEC(c, bm).c)
<1> DEFINE f == FindEC(c, bm)
           new == [bm |-> bm, refc |-> 1]
<1>1. /\ DOMAIN f.c = {"eids", "bms", "freeList"}
      /\ \/ f.c.eids = [c.eids EXCEPT ![f.eq + 1].refc = @ + 1]
         \/ f.c.eids = [c.eids EXCEPT ![f.eq + 1] = new]
         \/ f.c.eids = Append(c.eids, new)
  <2>1. Found(c, bm, f.c, f.eq, new)
    BY FindECCases, Zenon
  <2>. QED BY <2>1, Zenon DEF Found
<1>2. IsSeq(c.eids)
  BY DEF IsClasses
<1>. HIDE DEF f, new
<1>3. CASE f.c.eids = [c.eids EXCEPT ![f.eq + 1].refc = @ + 1]
  <2>1. DOMAIN f.c.eids = DOMAIN c.eids /\ f.c.eids = [i \in DOMAIN f.c.eids |-> f.c.eids[i]]
    BY <1>3
  <2>. QED BY <1>1, <1>2, <2>1, SeqChanged DEF IsClasses, f
<1>4. CASE f.c.eids = [c.eids EXCEPT ![f.eq + 1] = new]
  <2>1. DOMAIN f.c.eids = DOMAIN c.eids /\ f.c.eids = [i \in DOMAIN f.c.eids |-> f.c.eids[i]]
    BY <1>4
  <2>. QED BY <1>1, <1>2, <2>1, SeqChanged DEF IsClasses, f
<1>5. CASE f.c.eids = Append(c.eids, new)
  BY <1>1, <1>2, <1>5, SeqAppended DEF IsClasses, f
<1>. QED BY <1>1, <1>3, <1>4, <1>5

\* The free ids in their order
LEMMA FreeIds ==
  ASSUME NEW n \in Nat, NEW k \in Nat, NEW l, l = [i \in 1 .. n |-> k + i - 1]
  PROVE  /\ n = 0 => l = <<>>
         /\ n > 0 => l # <<>> /\ Head(l) = k /\ Tail(l) = [i \in 1 .. n - 1 |-> (k + 1) + i - 1]
<1>1. IsSeq(l) /\ Len(l) = n /\ DOMAIN l = 1 .. n
  BY SeqMade
<1>2. CASE n = 0
  <2>1. l = <<>>
    BY <1>2, SMT
  <2>. QED BY <1>2, <2>1
<1>3. CASE n > 0
  <2>1. l \in [1 .. n -> Nat]
    OBVIOUS
  <2>2. l \in Seq(Nat) /\ l # <<>>
    BY <1>1, <1>3, <2>1, SeqDef
  <2>3. Head(l) = k
    BY <1>3, <2>2
  <2>4. Len(Tail(l)) = n - 1 /\ \A i \in 1 .. n - 1 : Tail(l)[i] = l[i + 1]
    BY <1>1, <2>2, HeadTailProperties
  <2>5. Tail(l) \in Seq(Nat)
    BY <2>2
  <2>6. Tail(l) = [i \in 1 .. n - 1 |-> Tail(l)[i]]
    BY <2>4, <2>5, LenProperties
  <2>7. \A i \in 1 .. n - 1 : Tail(l)[i] = (k + 1) + i - 1
    <3>. TAKE i \in 1 .. n - 1
    <3>1. i + 1 \in 1 .. n /\ Tail(l)[i] = l[i + 1]
      BY <2>4
    <3>. QED BY <3>1
  <2>8. Tail(l) = [i \in 1 .. n - 1 |-> (k + 1) + i - 1]
    BY <2>6, <2>7
  <2>. QED BY <1>3, <2>2, <2>3, <2>8
<1>. QED BY <1>2, <1>3

\* A bitmap is among those of the classes in use from then on
LEMMA FindECTaken ==
  ASSUME NEW c, NEW k, Taken(c, k), NEW bm
  PROVE  \E m : /\ Taken(FindEC(c, bm).c, m)
                /\ Bitmaps(FindEC(c, bm).c, m) = Bitmaps(c, k) \cup {bm}
<1>1. PICK d, eq, new : /\ Found(c, bm, d, eq, new) /\ d = FindEC(c, bm).c /\ new = [bm |-> bm, refc |-> 1]
  BY FindECCases, Zenon DEF Taken
<1>2. IsClasses(d) /\ IsSeq(d.eids)
  <2>1. IsClasses(d)
    BY <1>1, FindECKeeps, Zenon DEF Taken
  <2>. QED BY <2>1 DEF IsClasses
<1>3. PICK n \in Nat : n = MaxId(c) /\ n = Len(c.eids) /\ c.eids = [i \in 1 .. n |-> c.eids[i]] /\ k \in 0 .. n
  BY DEF Taken, IsClasses, IsSeq, MaxId
<1>4. /\ \A i \in 1 .. n : /\ DOMAIN c.eids[i] = {"bm", "refc"}
                           /\ c.eids[i].refc \in Nat /\ (c.eids[i].refc > 0 <=> i <= k)
      /\ c.bms = 0 .. k - 1 /\ c.freeList = [i \in 1 .. n - k |-> k + i - 1]
      /\ \A i, j \in 1 .. k : c.eids[i].bm = c.eids[j].bm => i = j
  BY <1>3 DEF Taken
<1>5. \A e : e \in Find(c, bm) <=> e \in 0 .. k - 1 /\ c.eids[e + 1].bm = bm
  BY <1>4 DEF Find, Class
<1>6. CASE Find(c, bm) # {}
  <2>1. eq \in 0 .. k - 1 /\ c.eids[eq + 1].bm = bm /\ eq + 1 \in 1 .. n
    <3>1. eq \in Find(c, bm)
      BY <1>1, <1>6 DEF Found
    <3>2. eq \in 0 .. k - 1 /\ c.eids[eq + 1].bm = bm
      BY <1>5, <3>1
    <3>. QED BY <1>3, <3>2
  <2>2. d.eids = [c.eids EXCEPT ![eq + 1].refc = @ + 1] /\ d.bms = c.bms /\ d.freeList = c.freeList
    BY <1>1, <1>6 DEF Found
  <2>3. DOMAIN d.eids = 1 .. n /\ d.eids = [i \in 1 .. n |-> d.eids[i]]
    BY <1>3, <2>2
  <2>4. \A i \in 1 .. n : /\ DOMAIN d.eids[i] = {"bm", "refc"} /\ d.eids[i].bm = c.eids[i].bm
                          /\ d.eids[i].refc = IF i = eq + 1 THEN c.eids[i].refc + 1 ELSE c.eids[i].refc
    <3>. TAKE i \in 1 .. n
    <3>1. DOMAIN c.eids[i] = {"bm", "refc"} /\ i \in DOMAIN c.eids
      BY <1>3, <1>4
    <3>2. CASE i = eq + 1
      <4>1. d.eids[i] = [c.eids[i] EXCEPT !.refc = @ + 1]
        BY <2>2, <3>1, <3>2
      <4>. QED BY <3>1, <3>2, <4>1
    <3>3. CASE i # eq + 1
      <4>1. d.eids[i] = c.eids[i]
        BY <2>2, <3>1, <3>3
      <4>. QED BY <3>1, <3>3, <4>1
    <3>. QED BY <3>2, <3>3
  <2>5. MaxId(d) = n
    BY <2>3, SeqMade DEF MaxId
  <2>6. Taken(d, k)
    <3>1. \A i \in 1 .. n : d.eids[i].refc \in Nat /\ (d.eids[i].refc > 0 <=> i <= k)
      <4>. TAKE i \in 1 .. n
      <4>1. c.eids[i].refc \in Nat /\ (c.eids[i].refc > 0 <=> i <= k)
        BY <1>4
      <4>2. d.eids[i].refc = IF i = eq + 1 THEN c.eids[i].refc + 1 ELSE c.eids[i].refc
        BY <2>4
      <4>3. i = eq + 1 => i <= k
        BY <1>3, <2>1
      <4>. QED BY <4>1, <4>2, <4>3
    <3>2. \A i, j \in 1 .. k : d.eids[i].bm = d.eids[j].bm => i = j
      <4>1. ASSUME NEW i \in 1 .. k PROVE d.eids[i].bm = c.eids[i].bm
        <5>1. i \in 1 .. n
          BY <1>3
        <5>. QED BY <2>4, <5>1
      <4>. QED BY <1>4, <4>1
    <3>. QED BY <1>2, <1>3, <1>4, <2>2, <2>4, <2>5, <3>1, <3>2 DEF Taken
  <2>7. Bitmaps(d, k) = Bitmaps(c, k) \cup {bm}
    <3>1. ASSUME NEW i \in 1 .. k PROVE d.eids[i].bm = c.eids[i].bm
      <4>1. i \in 1 .. n
        BY <1>3
      <4>. QED BY <2>4, <4>1
    <3>2. bm \in Bitmaps(c, k)
      BY <1>3, <2>1 DEF Bitmaps
    <3>. QED BY <3>1, <3>2 DEF Bitmaps
  <2>. QED BY <1>1, <2>6, <2>7
<1>7. CASE Find(c, bm) = {}
  <2>1. \A i \in 1 .. k : c.eids[i].bm # bm
    <3>. TAKE i \in 1 .. k
    <3>1. i - 1 \in 0 .. k - 1 /\ (i - 1) + 1 = i
      BY <1>3
    <3>. QED BY <1>5, <1>7, <3>1
  <2>2. eq = k /\ d.bms = 0 .. k /\ d.freeList = [i \in 1 .. (IF k < n THEN n ELSE n + 1) - (k + 1) |-> (k + 1) + i - 1]
    <3>1. n - k \in Nat /\ k \in Nat
      BY <1>3
    <3>2. /\ n - k = 0 => c.freeList = <<>>
          /\ n - k > 0 => c.freeList # <<>> /\ Head(c.freeList) = k
                            /\ Tail(c.freeList) = [i \in 1 .. (n - k) - 1 |-> (k + 1) + i - 1]
      BY <1>4, <3>1, FreeIds
    <3>3. eq = k
      BY <1>1, <1>3, <1>7, <3>2 DEF Found
    <3>4. d.bms = 0 .. k
      <4>1. d.bms = c.bms \cup {eq}
        BY <1>1, <1>7 DEF Found
      <4>2. d.bms = (0 .. k - 1) \cup {k}
        BY <1>4, <3>3, <4>1
      <4>3. k \in Nat /\ \A e : e \in 0 .. k <=> e \in 0 .. k - 1 \/ e = k
        BY <1>3
      <4>. QED BY <4>2, <4>3
    <3>5. CASE k < n
      <4>1. d.freeList = Tail(c.freeList) /\ n - k > 0 /\ (n - k) - 1 = n - (k + 1)
        BY <1>1, <1>3, <1>7, <3>3, <3>5 DEF Found
      <4>. QED BY <3>2, <3>3, <3>4, <3>5, <4>1
    <3>6. CASE ~(k < n)
      <4>1. d.freeList = c.freeList /\ k = n /\ 1 .. n - k = {} /\ 1 .. (n + 1) - (k + 1) = {}
        BY <1>1, <1>3, <1>7, <3>3, <3>6 DEF Found
      <4>2. c.freeList = [i \in {} |-> k + i - 1] /\ [i \in {} |-> k + i - 1] = [i \in {} |-> (k + 1) + i - 1]
        BY <1>4, <4>1
      <4>. QED BY <3>3, <3>4, <3>6, <4>1, <4>2
    <3>. QED BY <3>5, <3>6
  <2> DEFINE m == IF k < n THEN n ELSE n + 1
  <2>3. MaxId(d) = m /\ \A i \in 1 .. m : d.eids[i] = IF i = k + 1 THEN new ELSE c.eids[i]
    <3>1. CASE k < n
      <4>1. d.eids = [c.eids EXCEPT ![k + 1] = new]
        BY <1>1, <1>3, <1>7, <2>2, <3>1 DEF Found
      <4>2. d.eids = [i \in 1 .. n |-> d.eids[i]] /\ \A i \in 1 .. n : d.eids[i] = IF i = k + 1 THEN new ELSE c.eids[i]
        BY <1>3, <3>1, <4>1
      <4>3. Len(d.eids) = n
        BY <4>2, SeqMade
      <4>. QED BY <3>1, <4>2, <4>3 DEF MaxId
    <3>2. CASE ~(k < n)
      <4>1. d.eids = Append(c.eids, new) /\ k = n
        <5>1. k = n /\ ~(eq < MaxId(c))
          BY <1>3, <2>2, <3>2
        <5>. QED BY <1>1, <1>7, <5>1 DEF Found
      <4>2. IsSeq(c.eids)
        BY DEF Taken, IsClasses
      <4>3. /\ Len(Append(c.eids, new)) = n + 1
            /\ \A i \in 1 .. n + 1 : Append(c.eids, new)[i] = IF i <= n THEN c.eids[i] ELSE new
        BY <1>3, <4>2, SeqAppended
      <4>4. \A i \in 1 .. n + 1 : d.eids[i] = IF i = k + 1 THEN new ELSE c.eids[i]
        BY <4>1, <4>3
      <4>. QED BY <3>2, <4>1, <4>3, <4>4 DEF MaxId
    <3>. QED BY <3>1, <3>2
  <2>4. m \in Nat /\ k + 1 \in 0 .. m /\ n <= m /\ (\A i \in 1 .. m : i # k + 1 => i \in 1 .. n) /\ k \in 0 .. n
    BY <1>3
  <2>5. DOMAIN new = {"bm", "refc"} /\ new.bm = bm /\ new.refc = 1
    BY <1>1
  <2>6. \A i \in 1 .. m : /\ DOMAIN d.eids[i] = {"bm", "refc"}
                          /\ d.eids[i].refc \in Nat /\ (d.eids[i].refc > 0 <=> i <= k + 1)
    <3>. TAKE i \in 1 .. m
    <3>1. CASE i = k + 1
      BY <2>3, <2>5, <3>1
    <3>2. CASE i # k + 1
      <4>1. i \in 1 .. n /\ d.eids[i] = c.eids[i] /\ (i <= k <=> i <= k + 1)
        BY <2>3, <2>4, <3>2
      <4>. QED BY <1>4, <4>1
    <3>. QED BY <3>1, <3>2
  <2>7. \A i \in 1 .. k + 1 : d.eids[i].bm = IF i = k + 1 THEN bm ELSE c.eids[i].bm
    BY <2>3, <2>4, <2>5
  <2>8. \A i, j \in 1 .. k + 1 : d.eids[i].bm = d.eids[j].bm => i = j
    <3>. SUFFICES ASSUME NEW i \in 1 .. k + 1, NEW j \in 1 .. k + 1, d.eids[i].bm = d.eids[j].bm
                  PROVE  i = j
      OBVIOUS
    <3>1. (i = k + 1 \/ i \in 1 .. k) /\ (j = k + 1 \/ j \in 1 .. k)
      BY <2>4
    <3>2. (i \in 1 .. k => i # k + 1) /\ (j \in 1 .. k => j # k + 1)
      BY <2>4
    <3>. QED BY <1>4, <2>1, <2>7, <3>1, <3>2
  <2>9. Taken(d, k + 1)
    <3>1. d.bms = 0 .. (k + 1) - 1 /\ d.freeList = [i \in 1 .. m - (k + 1) |-> (k + 1) + i - 1]
      BY <2>2, <2>4
    <3>. HIDE DEF m
    <3>. QED BY <1>2, <2>3, <2>4, <2>6, <2>8, <3>1 DEF Taken
  <2>10. Bitmaps(d, k + 1) = Bitmaps(c, k) \cup {bm}
    <3>1. \A i : i \in 1 .. k + 1 <=> i \in 1 .. k \/ i = k + 1
      BY <2>4
    <3>2. \A i \in 1 .. k : i # k + 1
      BY <2>4
    <3>3. k + 1 \in 1 .. k + 1
      BY <2>4
    <3>4. ASSUME NEW b PROVE b \in Bitmaps(d, k + 1) <=> b \in Bitmaps(c, k) \cup {bm}
      BY <2>7, <3>1, <3>2, <3>3 DEF Bitmaps
    <3>. QED BY <3>4
  <2>. QED BY <1>1, <2>9, <2>10
<1>. QED BY <1>6, <1>7

\* One sequence after another
LEMMA SeqJoined ==
  ASSUME NEW s, IsSeq(s), NEW t, IsSeq(t)
  PROVE  /\ IsSeq(s \o t) /\ Len(s \o t) = Len(s) + Len(t)
         /\ \A i \in 1 .. Len(s) + Len(t) : (s \o t)[i] = IF i <= Len(s) THEN s[i] ELSE t[i - Len(s)]
<1>1. PICK n \in Nat : n = Len(s) /\ s = [i \in 1 .. n |-> s[i]]
  BY DEF IsSeq
<1>2. PICK m \in Nat : m = Len(t) /\ t = [i \in 1 .. m |-> t[i]]
  BY DEF IsSeq
<1> DEFINE S == {s[i] : i \in 1 .. n} \cup {t[i] : i \in 1 .. m}
<1>3. s \in [1 .. n -> S] /\ t \in [1 .. m -> S]
  BY <1>1, <1>2
<1>4. s \in Seq(S) /\ t \in Seq(S)
  BY <1>3, SeqDef
<1>. HIDE DEF S
<1>5. /\ s \o t \in Seq(S) /\ Len(s \o t) = n + m
      /\ \A i \in 1 .. n + m : (s \o t)[i] = IF i <= n THEN s[i] ELSE t[i - n]
  BY <1>1, <1>2, <1>4, ConcatProperties
<1>6. s \o t = [i \in 1 .. n + m |-> (s \o t)[i]]
  BY <1>5, LenProperties
<1>7. IsSeq(s \o t)
  BY <1>6, SeqMade
<1>. QED BY <1>1, <1>2, <1>5, <1>7

\* Unused classes more
LEMMA Preallocated ==
  ASSUME NEW c, IsClasses(c)
  PROVE  /\ IsClasses(AddPreAllocEC(c))
         /\ \A k : Taken(c, k) => /\ Taken(AddPreAllocEC(c), k)
                                  /\ Bitmaps(AddPreAllocEC(c), k) = Bitmaps(c, k)
<1> DEFINE free == [bm |-> {}, refc |-> 0]
           P == PREALLOC_CLASSES
           more == [i \in 1 .. P |-> free]
           ids == [i \in 1 .. P |-> MaxId(c) + i - 1]
           E == c.eids \o more
           L == c.freeList \o ids
           d == AddPreAllocEC(c)
<1>1. P \in Nat
  BY Zenon, ClassifiersAssumption
<1>2. DOMAIN c = {"eids", "bms", "freeList"} /\ IsSeq(c.eids)
  BY DEF IsClasses
<1>3. d = [c EXCEPT !.eids = E, !.freeList = L]
  BY <1>2 DEF AddPreAllocEC
<1>. HIDE DEF E, L, d
<1>4. DOMAIN d = {"eids", "bms", "freeList"} /\ d.eids = E /\ d.bms = c.bms /\ d.freeList = L
  BY <1>2, <1>3, ClassesChanged, Zenon
<1>5. IsSeq(more) /\ Len(more) = P
  BY <1>1, SeqMade
<1>6. IsSeq(ids) /\ Len(ids) = P
  BY <1>1, SeqMade
<1>7. /\ IsSeq(E) /\ Len(E) = Len(c.eids) + P
      /\ \A i \in 1 .. Len(c.eids) + P : E[i] = IF i <= Len(c.eids) THEN c.eids[i] ELSE more[i - Len(c.eids)]
  <2>. HIDE DEF more
  <2>. QED BY <1>2, <1>5, SeqJoined DEF E
<1>8. IsClasses(d)
  BY <1>4, <1>7 DEF IsClasses
<1>9. ASSUME NEW k, Taken(c, k)
      PROVE  Taken(d, k) /\ Bitmaps(d, k) = Bitmaps(c, k)
  <2>1. PICK n \in Nat : n = MaxId(c) /\ n = Len(c.eids) /\ k \in 0 .. n
    BY <1>9, <1>2 DEF Taken, IsSeq, MaxId
  <2>2. /\ \A i \in 1 .. n : /\ DOMAIN c.eids[i] = {"bm", "refc"}
                             /\ c.eids[i].refc \in Nat /\ (c.eids[i].refc > 0 <=> i <= k)
        /\ c.bms = 0 .. k - 1 /\ c.freeList = [i \in 1 .. n - k |-> k + i - 1]
        /\ \A i, j \in 1 .. k : c.eids[i].bm = c.eids[j].bm => i = j
    BY <1>9, <2>1 DEF Taken
  <2>3. MaxId(d) = n + P /\ k \in 0 .. n + P
    BY <1>1, <1>4, <1>7, <2>1 DEF MaxId
  <2>4. \A i \in 1 .. n + P : /\ i <= n => d.eids[i] = c.eids[i]
                              /\ i > n => d.eids[i] = free
    <3>. TAKE i \in 1 .. n + P
    <3>1. i > n => i - n \in 1 .. P
      BY <1>1, <2>1
    <3>2. i > n => more[i - n] = free
      BY <3>1
    <3>. HIDE DEF more, free
    <3>. QED BY <1>4, <1>7, <2>1, <3>2
  <2>5. \A i \in 1 .. n + P : /\ DOMAIN d.eids[i] = {"bm", "refc"}
                              /\ d.eids[i].refc \in Nat /\ (d.eids[i].refc > 0 <=> i <= k)
    <3>. TAKE i \in 1 .. n + P
    <3>1. CASE i <= n
      <4>1. i \in 1 .. n /\ d.eids[i] = c.eids[i]
        BY <2>4, <3>1
      <4>. QED BY <2>2, <4>1
    <3>2. CASE i > n
      <4>1. d.eids[i] = free /\ ~(i <= k)
        BY <2>1, <2>4, <3>2
      <4>2. DOMAIN free = {"bm", "refc"} /\ free.refc = 0
        OBVIOUS
      <4>. HIDE DEF free
      <4>. QED BY <4>1, <4>2
    <3>. QED BY <2>1, <3>1, <3>2
  <2>6. \A i \in 1 .. k : d.eids[i] = c.eids[i]
    BY <1>1, <2>1, <2>4
  <2>7. d.freeList = [i \in 1 .. (n + P) - k |-> k + i - 1]
    <3> DEFINE old == c.freeList
    <3>1. n - k \in Nat /\ old = [i \in 1 .. n - k |-> old[i]] /\ \A i \in 1 .. n - k : old[i] = k + i - 1
      BY <2>1, <2>2
    <3>2. IsSeq(old) /\ Len(old) = n - k
      <4>. HIDE DEF old
      <4>. QED BY <3>1, SeqMade
    <3>. HIDE DEF old
    <3>3. /\ IsSeq(L) /\ Len(L) = (n - k) + P
          /\ \A i \in 1 .. (n - k) + P : L[i] = IF i <= n - k THEN old[i] ELSE ids[i - (n - k)]
      <4>. HIDE DEF ids
      <4>1. L = old \o ids
        BY DEF L, old
      <4>. QED BY <1>6, <3>2, <4>1, SeqJoined
    <3>4. \A i \in 1 .. (n - k) + P : L[i] = k + i - 1
      <4>. TAKE i \in 1 .. (n - k) + P
      <4>1. CASE i <= n - k
        <5>1. i \in 1 .. n - k
          BY <3>1, <4>1
        <5>. QED BY <3>1, <3>3, <4>1, <5>1
      <4>2. CASE ~(i <= n - k)
        <5>1. i - (n - k) \in 1 .. P
          BY <1>1, <3>1, <4>2
        <5>2. ids[i - (n - k)] = n + (i - (n - k)) - 1
          BY <2>1, <5>1
        <5>3. L[i] = ids[i - (n - k)]
          BY <3>3, <4>2
        <5>. HIDE DEF ids
        <5>. QED BY <2>1, <5>2, <5>3
      <4>. QED BY <4>1, <4>2
    <3>5. (n - k) + P = (n + P) - k
      BY <1>1, <2>1
    <3>6. L = [i \in 1 .. (n + P) - k |-> L[i]]
      BY <3>3, <3>5 DEF IsSeq
    <3>. QED BY <1>4, <3>4, <3>5, <3>6
  <2>. HIDE DEF P
  <2>8. Taken(d, k)
    <3>1. \A i, j \in 1 .. k : d.eids[i].bm = d.eids[j].bm => i = j
      BY <2>2, <2>6
    <3>. QED BY <1>4, <1>8, <2>2, <2>3, <2>5, <2>7, <3>1 DEF Taken
  <2>9. Bitmaps(d, k) = Bitmaps(c, k)
    BY <2>6 DEF Bitmaps
  <2>. QED BY <2>8, <2>9
<1>. QED BY <1>8, <1>9 DEF d

\* The classes of several parents
IsParents(parents) ==
    IsSeq(parents) /\ \A i \in 1 .. Len(parents) : IsClasses(parents[i])

LEMMA SizeIsNat ==
  ASSUME NEW parents, IsParents(parents)
  PROVE  ChunkSize(parents) \in Nat
<1>1. PICK n \in Nat : n = Len(parents) /\ DOMAIN parents = 1 .. n
  BY DEF IsParents, IsSeq
<1>2. PICK st : /\ st[0] = 1 /\ ChunkSize(parents) = st[n]
                /\ \A k \in 1 .. n : st[k] = st[k - 1] * MaxId(parents[k])
  BY <1>1, SizeSteps, Zenon
<1> DEFINE S == {k \in 0 .. n : st[k] \in Nat}
<1>3. 0 \in S
  BY <1>2
<1>4. ASSUME NEW k \in 1 .. n, k - 1 \in S PROVE k \in S
  <2>1. MaxId(parents[k]) \in Nat
    BY <1>1 DEF IsParents, IsClasses, IsSeq, MaxId
  <2>2. st[k] = st[k - 1] * MaxId(parents[k]) /\ st[k - 1] \in Nat
    BY <1>2, <1>4
  <2>. QED BY <2>1, <2>2
<1>. HIDE DEF S
<1>5. n \in S
  BY <1>3, <1>4, AlongStates
<1>. QED BY <1>2, <1>5 DEF S

\* Only the number of classes of each parent counts.
LEMMA SizeSame ==
  ASSUME NEW parents, IsParents(parents), NEW others, DOMAIN others = DOMAIN parents,
         \A i \in DOMAIN parents : MaxId(others[i]) = MaxId(parents[i])
  PROVE  ChunkSize(others) = ChunkSize(parents)
<1>1. PICK n \in Nat : n = Len(parents) /\ DOMAIN parents = 1 .. n
  BY DEF IsParents, IsSeq
<1>2. PICK st : /\ st[0] = 1 /\ ChunkSize(parents) = st[n]
                /\ \A k \in 1 .. n : st[k] = st[k - 1] * MaxId(parents[k])
  BY <1>1, SizeSteps, Zenon
<1>3. PICK su : /\ su[0] = 1 /\ ChunkSize(others) = su[n]
                /\ \A k \in 1 .. n : su[k] = su[k - 1] * MaxId(others[k])
  BY <1>1, SizeSteps, Zenon
<1> DEFINE S == {k \in 0 .. n : su[k] = st[k]}
<1>4. 0 \in S
  BY <1>2, <1>3
<1>5. ASSUME NEW k \in 1 .. n, k - 1 \in S PROVE k \in S
  <2>1. MaxId(others[k]) = MaxId(parents[k]) /\ su[k - 1] = st[k - 1]
    BY <1>1, <1>5
  <2>2. st[k] = st[k - 1] * MaxId(parents[k]) /\ su[k] = su[k - 1] * MaxId(others[k])
    BY <1>2, <1>3
  <2>. QED BY <2>1, <2>2
<1>. HIDE DEF S
<1>6. n \in S
  BY <1>4, <1>5, AlongStates
<1>. QED BY <1>2, <1>3, <1>6 DEF S

\* A phase with one parent
LEMMA SizeOfOne ==
  ASSUME NEW c, IsClasses(c)
  PROVE  ChunkSize(<<c>>) = MaxId(c)
<1>1. DOMAIN <<c>> = 1 .. 1 /\ <<c>>[1] = c /\ 1 \in Nat /\ 1 \in 1 .. 1 /\ 1 - 1 = 0
  OBVIOUS
<1>2. PICK st : /\ st[0] = 1 /\ ChunkSize(<<c>>) = st[1]
                /\ \A k \in 1 .. 1 : st[k] = st[k - 1] * MaxId(<<c>>[k])
  BY <1>1, SizeSteps, Zenon
<1>3. st[1] = 1 * MaxId(c)
  BY <1>1, <1>2
<1>4. MaxId(c) \in Nat
  BY DEF IsClasses, IsSeq, MaxId
<1>. QED BY <1>2, <1>3, <1>4

Common(parents, indx) ==
    Meet([k \in DOMAIN parents |-> Class(parents[k], Digits(parents, indx)[k]).bm])
Combined(parents, indx) ==
    \A k \in DOMAIN parents : Digits(parents, indx)[k] \in InUse(parents[k])

LEMMA CommonOfOne ==
  ASSUME NEW c, NEW k, Taken(c, k), NEW indx, Combined(<<c>>, indx)
  PROVE  Common(<<c>>, indx) \in Bitmaps(c, k)
<1> DEFINE b == Class(c, indx).bm
           bms == [i \in DOMAIN <<c>> |-> Class(<<c>>[i], Digits(<<c>>, indx)[i]).bm]
<1>1. DOMAIN <<c>> = 1 .. 1 /\ <<c>>[1] = c /\ 1 \in Nat /\ 1 \in 1 .. 1 /\ 1 - 1 = 0 /\ Len(<<c>>) = 1
  OBVIOUS
<1>2. Digits(<<c>>, indx)[1] = indx
  BY <1>1 DEF Digits
<1>3. indx \in InUse(c)
  BY <1>1, <1>2, Zenon DEF Combined
<1>4. DOMAIN bms = 1 .. 1 /\ bms[1] = b
  BY <1>1, <1>2
<1>. HIDE DEF b, bms
<1>5. PICK st : /\ st[0] = bms[1] /\ Meet(bms) = st[1]
                /\ \A i \in 1 .. 1 : st[i] = st[i - 1] \cap bms[i]
  BY <1>1, <1>4, MeetSteps, Zenon
<1>6. Meet(bms) = b
  BY <1>1, <1>4, <1>5
<1>7. MaxId(c) \in Nat
  BY DEF Taken, IsClasses, IsSeq, MaxId
<1>8. indx \in 0 .. MaxId(c) - 1 /\ c.eids[indx + 1].refc > 0
  BY <1>3 DEF InUse, Class
<1>9. indx + 1 \in 1 .. MaxId(c)
  BY <1>7, <1>8
<1>10. indx + 1 \in 1 .. k
  BY <1>7, <1>8, <1>9 DEF Taken
<1>11. b \in Bitmaps(c, k)
  BY <1>10 DEF b, Class, Bitmaps
<1>12. Common(<<c>>, indx) = Meet(bms)
  BY DEF Common, bms
<1>. QED BY <1>6, <1>11, <1>12

\* What the intersection builds: classes with the bitmaps of A and
\* others of B, n entries
Built(s, n, A, B) ==
    /\ \E k : Taken(s.c, k) /\ A \subseteq Bitmaps(s.c, k) /\ Bitmaps(s.c, k) \subseteq B
    /\ IsSeq(s.entries) /\ Len(s.entries) = n

LEMMA IntersectOneBuilt ==
  ASSUME NEW parents, NEW s, NEW n, NEW A, NEW B, Built(s, n, A, B), NEW indx,
         Combined(parents, indx) => Common(parents, indx) \in B
  PROVE  Built(IntersectOne(parents, s, indx), n, A, B)
<1> DEFINE bm == Common(parents, indx)
           f == FindEC(s.c, bm)
           E == [s.entries EXCEPT ![indx + 1] = f.eq]
<1>1. IntersectOne(parents, s, indx) = IF Combined(parents, indx) THEN [c |-> f.c, entries |-> E] ELSE s
  BY Zenon DEF IntersectOne, Combined, Common, Meet
<1>2. CASE ~Combined(parents, indx)
  BY <1>1, <1>2
<1>3. CASE Combined(parents, indx)
  <2>1. PICK k : Taken(s.c, k) /\ A \subseteq Bitmaps(s.c, k) /\ Bitmaps(s.c, k) \subseteq B
    BY DEF Built
  <2>2. PICK m : Taken(f.c, m) /\ Bitmaps(f.c, m) = Bitmaps(s.c, k) \cup {bm}
    BY <2>1, FindECTaken
  <2>3. A \subseteq Bitmaps(f.c, m) /\ Bitmaps(f.c, m) \subseteq B
    BY <1>3, <2>1, <2>2
  <2>4. DOMAIN E = DOMAIN s.entries /\ E = [i \in DOMAIN E |-> E[i]]
    OBVIOUS
  <2>. HIDE DEF f, E
  <2>5. IsSeq(E) /\ Len(E) = n
    BY <2>4, SeqChanged DEF Built
  <2> DEFINE u == [c |-> f.c, entries |-> E]
  <2>6. u.c = f.c /\ u.entries = E
    OBVIOUS
  <2>. HIDE DEF u
  <2>7. Built(u, n, A, B)
    BY <2>2, <2>3, <2>5, <2>6 DEF Built
  <2>. QED BY <1>1, <1>3, <2>7 DEF u
<1>. QED BY <1>2, <1>3

LEMMA IntersectionBuilt ==
  ASSUME NEW parents, IsParents(parents), NEW c, NEW k, Taken(c, k), NEW entries,
         NEW B, Bitmaps(c, k) \subseteq B,
         \A indx \in 0 .. ChunkSize(parents) - 1 : Combined(parents, indx) => Common(parents, indx) \in B
  PROVE  Built(DoIntersection(parents, c, entries), ChunkSize(parents), Bitmaps(c, k), B)
<1>1. PICK n \in Nat : n = ChunkSize(parents)
  BY SizeIsNat
<1>2. DOMAIN Combinations(parents) = 1 .. n /\ \A i \in 1 .. n : Combinations(parents)[i] = i - 1
  BY <1>1 DEF Combinations
<1>3. PICK st : /\ st[0] = Before(parents, c, entries) /\ DoIntersection(parents, c, entries) = st[n]
                /\ \A i \in 1 .. n : st[i] = IntersectOne(parents, st[i - 1], Combinations(parents)[i])
  <2>1. DOMAIN Combinations(parents) = 1 .. n
    BY <1>2
  <2>. QED BY <2>1, IntersectionSteps
<1> DEFINE S == {i \in 0 .. n : Built(st[i], n, Bitmaps(c, k), B)}
<1>4. 0 \in S
  <2> DEFINE E == Resized(entries, n)
             b == [c |-> c, entries |-> E]
  <2>1. st[0] = b
    BY <1>1, <1>3 DEF Before
  <2>2. E = [i \in 1 .. n |-> E[i]]
    BY DEF Resized
  <2>3. b.c = c /\ b.entries = E
    OBVIOUS
  <2>. HIDE DEF E, b
  <2>4. IsSeq(E) /\ Len(E) = n
    BY <2>2, SeqMade
  <2>5. Built(b, n, Bitmaps(c, k), B)
    BY <2>3, <2>4 DEF Built
  <2>. QED BY <2>1, <2>5
<1>5. ASSUME NEW i \in 1 .. n, i - 1 \in S PROVE i \in S
  <2>1. Built(st[i - 1], n, Bitmaps(c, k), B)
    BY <1>5
  <2>2. Combinations(parents)[i] = i - 1 /\ i - 1 \in 0 .. n - 1
    BY <1>2
  <2>3. Combined(parents, i - 1) => Common(parents, i - 1) \in B
    BY <1>1, <2>2
  <2>4. Built(IntersectOne(parents, st[i - 1], i - 1), n, Bitmaps(c, k), B)
    BY <2>1, <2>3, IntersectOneBuilt, Zenon
  <2>5. Built(st[i], n, Bitmaps(c, k), B)
    BY <1>3, <2>2, <2>4
  <2>. QED BY <2>5
<1>. HIDE DEF S
<1>6. n \in S
  BY <1>4, <1>5, AlongStates
<1>. QED BY <1>1, <1>3, <1>6 DEF S

LEMMA InUseAreTaken ==
  ASSUME NEW c, NEW k, Taken(c, k)
  PROVE  MaxId(c) \in Nat /\ k \in Nat /\ k <= MaxId(c) /\ \A e \in InUse(c) : e \in Nat /\ e < k
<1>1. MaxId(c) \in Nat /\ k \in 0 .. MaxId(c)
  BY DEF Taken, IsClasses, IsSeq, MaxId
<1>2. ASSUME NEW e \in InUse(c) PROVE e \in Nat /\ e < k
  <2>1. e \in 0 .. MaxId(c) - 1 /\ c.eids[e + 1].refc > 0
    BY DEF InUse, Class
  <2>2. e + 1 \in 1 .. MaxId(c)
    BY <1>1, <2>1
  <2>3. e + 1 <= k
    BY <2>1, <2>2 DEF Taken
  <2>. QED BY <1>1, <2>1, <2>3
<1>. QED BY <1>1, <1>2

\* Classes have different bitmaps.
LEMMA FewerClasses ==
  ASSUME NEW c, NEW k, Taken(c, k), NEW d, NEW m, Taken(d, m), Bitmaps(d, m) \subseteq Bitmaps(c, k)
  PROVE  m <= k
<1>1. k \in Nat /\ m \in Nat
  BY InUseAreTaken
<1> DEFINE f == [i \in 1 .. m |-> CHOOSE j \in 1 .. k : c.eids[j].bm = d.eids[i].bm]
<1>2. ASSUME NEW i \in 1 .. m PROVE f[i] \in 1 .. k /\ c.eids[f[i]].bm = d.eids[i].bm
  <2>1. d.eids[i].bm \in Bitmaps(c, k)
    BY DEF Bitmaps
  <2>2. \E j \in 1 .. k : c.eids[j].bm = d.eids[i].bm
    BY <2>1 DEF Bitmaps
  <2>. QED BY <2>2
<1>3. f \in [1 .. m -> 1 .. k]
  BY <1>2
<1>4. \A i, j \in 1 .. m : d.eids[i].bm = d.eids[j].bm => i = j
  BY DEF Taken
<1>5. ASSUME NEW i \in 1 .. m, NEW j \in 1 .. m, f[i] = f[j] PROVE i = j
  <2>. HIDE DEF f
  <2>1. d.eids[i].bm = d.eids[j].bm
    BY <1>2, <1>5
  <2>. QED BY <1>4, <2>1
<1>. HIDE DEF f
<1>6. f \in Injection(1 .. m, 1 .. k)
  BY <1>3, <1>5 DEF Injection, IsInjective
<1>7. /\ IsFiniteSet(1 .. m) /\ Cardinality(1 .. m) = m
      /\ IsFiniteSet(1 .. k) /\ Cardinality(1 .. k) = k
  BY <1>1, FS_Interval
<1>8. Cardinality(1 .. m) <= Cardinality(1 .. k)
  BY <1>6, <1>7, FS_Injection
<1>. QED BY <1>7, <1>8

-----------------------------------------------------------------------------
(* The tables of ClassifierRFC *)

TableFields == {"lines", "eqcl", "chunks", "eq1", "chunk1", "eq2", "chunk2", "rmap", "extra", "allrules", "rules"}

\* The classes of each phase; phase 2 has no bitmap that phase 1 does not.
Layered(t) ==
    /\ DOMAIN t = TableFields /\ IsParents(t.eqcl) /\ IsSeq(t.rmap)
    /\ \E k1, k2 : Taken(t.eq1, k1) /\ Taken(t.eq2, k2) /\ Bitmaps(t.eq2, k2) \subseteq Bitmaps(t.eq1, k1)

\* A table's size follows from the classes before it.
Sized(t) ==
    /\ Len(t.chunk1) = ChunkSize(t.eqcl) /\ Len(t.chunk2) = MaxId(t.eq1) /\ Len(t.rmap) = MaxId(t.eq1)

\* Nothing was added yet, or everything was removed.
Blank(t) == t.lines = <<>> /\ Taken(t.eq2, 0)

TablesInv(t) == Layered(t) /\ (Blank(t) \/ Sized(t))

LEMMA MaybePreallocated ==
  ASSUME NEW c, NEW k, Taken(c, k), NEW prealloc \in BOOLEAN
  PROVE  /\ Taken(IF prealloc THEN AddPreAllocEC(c) ELSE c, k)
         /\ Bitmaps(IF prealloc THEN AddPreAllocEC(c) ELSE c, k) = Bitmaps(c, k)
<1>1. IsClasses(c)
  BY Zenon DEF Taken
<1>. QED BY <1>1, Preallocated, Zenon

LEMMA Combining ==
  ASSUME NEW t, Layered(t), NEW prealloc \in BOOLEAN, NEW u, u = Combine(t, prealloc)
  PROVE  /\ Layered(u) /\ Sized(u)
         /\ u.lines = t.lines /\ u.eqcl = t.eqcl /\ u.rules = t.rules
<1> DEFINE p1 == DoIntersection(t.eqcl, t.eq1, t.chunk1)
           e1 == IF prealloc THEN AddPreAllocEC(p1.c) ELSE p1.c
           p2 == DoIntersection(<<e1>>, t.eq2, t.chunk2)
           e2 == IF prealloc THEN AddPreAllocEC(p2.c) ELSE p2.c
           map == GenFinalMap(t.rmap, e2, Len(p2.entries))
<1>1. u = [t EXCEPT !.eq1 = e1, !.chunk1 = p1.entries, !.eq2 = e2, !.chunk2 = p2.entries, !.rmap = map]
  <2>1. DOMAIN t = TableFields
    BY DEF Layered
  <2>2. u = [t EXCEPT !.eq1 = e1, !.chunk1 = p1.entries, !.eq2 = e2, !.chunk2 = p2.entries,
                      !.rmap = GenFinalMap(@, e2, Len(p2.entries))]
    BY Zenon DEF Combine
  <2>. HIDE DEF p1, e1, p2, e2
  <2>. QED BY <2>1, <2>2 DEF TableFields
<1>2. PICK k1, k2 : Taken(t.eq1, k1) /\ Taken(t.eq2, k2) /\ Bitmaps(t.eq2, k2) \subseteq Bitmaps(t.eq1, k1)
  BY DEF Layered
<1>3. IsParents(t.eqcl)
  BY DEF Layered
<1>4. PICK m1 : Taken(e1, m1) /\ Bitmaps(t.eq1, k1) \subseteq Bitmaps(e1, m1)
                /\ IsSeq(p1.entries) /\ Len(p1.entries) = ChunkSize(t.eqcl)
  <2> DEFINE B == Bitmaps(t.eq1, k1) \cup {Common(t.eqcl, i) : i \in 0 .. ChunkSize(t.eqcl) - 1}
  <2>. HIDE DEF p1, e1, p2, e2, map
  <2>1. /\ Bitmaps(t.eq1, k1) \subseteq B
        /\ \A i \in 0 .. ChunkSize(t.eqcl) - 1 : Combined(t.eqcl, i) => Common(t.eqcl, i) \in B
    OBVIOUS
  <2>. HIDE DEF B
  <2>2. Built(p1, ChunkSize(t.eqcl), Bitmaps(t.eq1, k1), B)
    BY <1>2, <1>3, <2>1, IntersectionBuilt, Zenon DEF p1
  <2>3. PICK m : Taken(p1.c, m) /\ Bitmaps(t.eq1, k1) \subseteq Bitmaps(p1.c, m)
    BY <2>2, Zenon DEF Built
  <2>4. Taken(e1, m) /\ Bitmaps(e1, m) = Bitmaps(p1.c, m)
    BY <2>3, MaybePreallocated, Zenon DEF e1
  <2>. QED BY <2>2, <2>3, <2>4 DEF Built
<1>5. PICK m2 : Taken(e2, m2) /\ Bitmaps(e2, m2) \subseteq Bitmaps(e1, m1)
                /\ IsSeq(p2.entries) /\ Len(p2.entries) = MaxId(e1)
  <2> DEFINE B == Bitmaps(e1, m1)
             A == Bitmaps(t.eq2, k2)
  <2>. HIDE DEF p1, e1, p2, e2, map
  <2>1. A \subseteq B
    BY <1>2, <1>4
  <2>2. ChunkSize(<<e1>>) = MaxId(e1)
    BY <1>4, SizeOfOne DEF Taken
  <2>3. \A i \in 0 .. ChunkSize(<<e1>>) - 1 : Combined(<<e1>>, i) => Common(<<e1>>, i) \in B
    BY <1>4, CommonOfOne
  <2>4. IsParents(<<e1>>)
    <3>1. IsSeq(<<e1>>) /\ Len(<<e1>>) = 1 /\ <<e1>>[1] = e1
      BY SMT DEF IsSeq
    <3>. QED BY <1>4, <3>1 DEF IsParents, Taken
  <2>. HIDE DEF B
  <2>5. Built(p2, ChunkSize(<<e1>>), A, B)
    BY <1>2, <2>1, <2>3, <2>4, IntersectionBuilt, Zenon DEF p2
  <2>6. PICK m : Taken(p2.c, m) /\ Bitmaps(p2.c, m) \subseteq B
    BY <2>5, Zenon DEF Built
  <2>7. Taken(e2, m) /\ Bitmaps(e2, m) = Bitmaps(p2.c, m)
    BY <2>6, MaybePreallocated, Zenon DEF e2
  <2>. QED BY <2>2, <2>5, <2>6, <2>7 DEF Built, B
<1>6. IsSeq(map) /\ Len(map) = MaxId(e1)
  <2>. HIDE DEF p1, e1, p2, e2
  <2>1. MaxId(e1) \in Nat
    BY <1>4, InUseAreTaken
  <2>2. map = [i \in 1 .. MaxId(e1) |-> map[i]]
    <3> DEFINE map2 == GenFinalMap(t.rmap, e2, MaxId(e1))
    <3>1. map2 = [i \in 1 .. MaxId(e1) |-> map2[i]]
      BY DEF GenFinalMap
    <3>. HIDE DEF map2
    <3>2. map = map2
      BY <1>5 DEF map2
    <3>. HIDE DEF map
    <3>. QED BY <3>1, <3>2
  <2>. HIDE DEF map
  <2>. QED BY <2>1, <2>2, SeqMade
<1>. HIDE DEF p1, e1, p2, e2, map
<1>7. /\ DOMAIN u = TableFields /\ u.eq1 = e1 /\ u.chunk1 = p1.entries /\ u.eq2 = e2
      /\ u.chunk2 = p2.entries /\ u.rmap = map /\ u.lines = t.lines /\ u.eqcl = t.eqcl /\ u.rules = t.rules
  <2>1. DOMAIN t = TableFields
    BY DEF Layered
  <2>. QED BY <1>1, <2>1 DEF TableFields
<1>8. Layered(u)
  BY <1>3, <1>4, <1>5, <1>6, <1>7 DEF Layered
<1>9. Sized(u)
  BY <1>4, <1>5, <1>6, <1>7 DEF Sized
<1>. QED BY <1>7, <1>8, <1>9

-----------------------------------------------------------------------------
(* The classes of phase 0 *)

LEMMA ClassesRecounted ==
  ASSUME NEW c, IsClasses(c), NEW E, DOMAIN E = DOMAIN c.eids, E = [i \in DOMAIN E |-> E[i]],
         NEW d, d = [c EXCEPT !.eids = E]
  PROVE  IsClasses(d) /\ MaxId(d) = MaxId(c) /\ d.eids = E
<1>1. DOMAIN c = {"eids", "bms", "freeList"} /\ IsSeq(c.eids)
  BY DEF IsClasses
<1>2. DOMAIN d = {"eids", "bms", "freeList"} /\ d.eids = E
  BY <1>1
<1>3. IsSeq(E) /\ Len(E) = Len(c.eids)
  BY <1>1, SeqChanged
<1>. QED BY <1>2, <1>3 DEF IsClasses, MaxId

LEMMA ClassesRekept ==
  ASSUME NEW c, IsClasses(c), NEW b, NEW d, d = [c EXCEPT !.bms = b] \/ d = [c EXCEPT !.freeList = b]
  PROVE  IsClasses(d) /\ MaxId(d) = MaxId(c) /\ d.eids = c.eids
<1>1. DOMAIN c = {"eids", "bms", "freeList"} /\ IsSeq(c.eids)
  BY DEF IsClasses
<1>2. DOMAIN d = {"eids", "bms", "freeList"} /\ d.eids = c.eids
  BY <1>1
<1>. QED BY <1>1, <1>2 DEF IsClasses, MaxId

LEMMA ReferredKeeps ==
  ASSUME NEW c, IsClasses(c), NEW e
  PROVE  IsClasses(Referred(c, e))
<1> DEFINE E == [c.eids EXCEPT ![e + 1].refc = @ + 1]
<1>1. Referred(c, e) = [c EXCEPT !.eids = E]
  BY DEF Referred, IsClasses
<1>2. DOMAIN E = DOMAIN c.eids /\ E = [i \in DOMAIN E |-> E[i]]
  OBVIOUS
<1>. HIDE DEF E
<1>. QED BY <1>1, <1>2, ClassesRecounted

LEMMA DroppedKeeps ==
  ASSUME NEW c, IsClasses(c), NEW e
  PROVE  IsClasses(Dropped(c, e))
<1> DEFINE E == [c.eids EXCEPT ![e + 1].refc = @ - 1]
           d == [c EXCEPT !.eids[e + 1].refc = @ - 1]
           g == [d EXCEPT !.freeList = Append(@, e)]
           bm == Class(d, e).bm
<1>1. Dropped(c, e) \in {c, d, Erase(g, bm)}
  BY DEF Dropped
<1>2. d = [c EXCEPT !.eids = E]
  BY DEF IsClasses
<1>3. DOMAIN E = DOMAIN c.eids /\ E = [i \in DOMAIN E |-> E[i]]
  OBVIOUS
<1>. HIDE DEF E, d
<1>4. IsClasses(d)
  BY <1>2, <1>3, ClassesRecounted
<1>5. g = [d EXCEPT !.freeList = Append(d.freeList, e)]
  BY <1>4 DEF IsClasses
<1>. HIDE DEF g, bm
<1>6. IsClasses(g)
  BY <1>4, <1>5, ClassesRekept
<1>7. Erase(g, bm) = [g EXCEPT !.bms = g.bms \ Find(g, bm)]
  BY <1>6 DEF Erase, IsClasses
<1>8. IsClasses(Erase(g, bm))
  BY <1>6, <1>7, ClassesRekept
<1>. QED BY <1>1, <1>4, <1>8

LEMMA SetEverywhereKeeps ==
  ASSUME NEW c, IsClasses(c), NEW rid
  PROVE  IsClasses(SetEverywhere(c, rid))
<1> DEFINE E == [i \in DOMAIN c.eids |->
                    IF c.eids[i].refc > 0 THEN [c.eids[i] EXCEPT !.bm = @ \cup {rid}] ELSE c.eids[i]]
<1>1. SetEverywhere(c, rid) = [c EXCEPT !.eids = E]
  BY Zenon DEF SetEverywhere
<1>2. DOMAIN E = DOMAIN c.eids /\ E = [i \in DOMAIN E |-> E[i]]
  OBVIOUS
<1>. HIDE DEF E
<1>. QED BY <1>1, <1>2, ClassesRecounted

LEMMA RemapEntryKeeps ==
  ASSUME NEW s, IsClasses(s.c), NEW i, NEW rid
  PROVE  IsClasses(RemapEntry(s, i, rid).c)
<1> DEFINE oeq == s.entries[i + 1]
           same == s.remap[oeq] = oeq
           f == FindEC(s.c, Class(s.c, oeq).bm \cup {rid})
           eq == IF same THEN f.eq ELSE s.remap[oeq]
           c == IF same THEN f.c ELSE Referred(s.c, eq)
<1>1. RemapEntry(s, i, rid).c = Dropped(c, oeq)
  BY DEF RemapEntry
<1>2. IsClasses(f.c)
  BY FindECKeeps, Zenon
<1>3. IsClasses(Referred(s.c, eq))
  BY ReferredKeeps, Zenon
<1>4. IsClasses(c)
  <2>. HIDE DEF f, eq, same
  <2>. QED BY <1>2, <1>3
<1>. HIDE DEF c, oeq
<1>. QED BY <1>1, <1>4, DroppedKeeps

LEMMA RemapIndexKeeps ==
  ASSUME NEW s, IsClasses(s.c), NEW from \in Int, NEW to \in Int, NEW rid
  PROVE  IsClasses(RemapIndex(s, from, to, rid).c)
<1>1. PICK n \in Nat : n = IF to > from THEN to - from ELSE 0
  OBVIOUS
<1>2. DOMAIN Between(from, to) = 1 .. n
  BY <1>1 DEF Between
<1>3. PICK st : /\ st[0] = Unmapped(s) /\ RemapIndex(s, from, to, rid) = st[n]
                /\ \A k \in 1 .. n : st[k] = RemapEntry(st[k - 1], Between(from, to)[k], rid)
  BY <1>2, RemapSteps
<1> DEFINE S == {k \in 0 .. n : IsClasses(st[k].c)}
<1>4. 0 \in S
  <2>1. st[0].c = s.c
    BY <1>3 DEF Unmapped
  <2>. QED BY <2>1
<1>5. ASSUME NEW k \in 1 .. n, k - 1 \in S PROVE k \in S
  <2>1. IsClasses(st[k - 1].c)
    BY <1>5
  <2>2. IsClasses(RemapEntry(st[k - 1], Between(from, to)[k], rid).c)
    BY <2>1, RemapEntryKeeps, Zenon
  <2>3. IsClasses(st[k].c)
    BY <1>3, <2>2, Zenon
  <2>. QED BY <2>3
<1>. HIDE DEF S
<1>6. n \in S
  BY <1>4, <1>5, AlongStates
<1>. QED BY <1>3, <1>6 DEF S

\* The filters that rules have
IsFilter(f) ==
    /\ f.vals \in Seq(Values) /\ f.type \in {"exact", "range", "set", "wild"}
    /\ (f.type = "exact" => f.vals # <<>>) /\ (f.type = "range" => Len(f.vals) = 2)

LEMMA IndexFacts ==
  ASSUME NEW on, NEW v \in Values
  PROVE  GetIndex(on, v)[1] \in Int /\ GetIndex(on, v)[2] \in Int
<1>1. NumberLineSize \in Nat \ {0}
  BY Zenon, ClassifiersAssumption
<1>2. v \in Int /\ v + 1 \in Int /\ (v + 1) % NumberLineSize \in Int
  BY <1>1 DEF Values
<1>. QED BY <1>2 DEF GetIndex

LEMMA ProjMatchRemapKeeps ==
  ASSUME NEW s, DOMAIN s = {"c", "entries"}, IsClasses(s.c), NEW f, IsFilter(f), NEW rid
  PROVE  IsClasses(ProjMatchRemap(s, f, rid).c)
<1> DEFINE v == f.vals
<1>1. PICK n \in Nat : n = Len(v) /\ DOMAIN v = 1 .. n /\ \A i \in 1 .. n : v[i] \in Values
  <2>1. v \in Seq(Values)
    BY DEF IsFilter
  <2>. HIDE DEF v
  <2>. QED BY <2>1, LenProperties, ElementOfSeq
<1>2. \A i, j \in 1 .. n : IsClasses(RemapIndex(s, GetIndex(f.on, v[i])[1], GetIndex(f.on, v[j])[2], rid).c)
  <2>. TAKE i, j \in 1 .. n
  <2>. HIDE DEF v
  <2>1. GetIndex(f.on, v[i])[1] \in Int /\ GetIndex(f.on, v[j])[2] \in Int
    BY <1>1, IndexFacts
  <2>. QED BY <2>1, RemapIndexKeeps
<1>3. CASE f.type = "exact"
  <2>1. 1 \in 1 .. n
    <3>1. v # <<>> /\ v \in Seq(Values)
      BY <1>3 DEF IsFilter
    <3>. HIDE DEF v
    <3>. QED BY <1>1, <3>1, EmptySeq
  <2>2. ProjMatchRemap(s, f, rid) = RemapIndex(s, GetIndex(f.on, v[1])[1], GetIndex(f.on, v[1])[2], rid)
    BY <1>3 DEF ProjMatchRemap
  <2>. HIDE DEF v
  <2>. QED BY <1>2, <2>1, <2>2
<1>4. CASE f.type = "range"
  <2>1. 1 \in 1 .. n /\ 2 \in 1 .. n
    <3>1. Len(v) = 2
      BY <1>4, Zenon DEF IsFilter
    <3>. HIDE DEF v
    <3>. QED BY <1>1, <3>1
  <2>2. ProjMatchRemap(s, f, rid) = RemapIndex(s, GetIndex(f.on, v[1])[1], GetIndex(f.on, v[2])[2], rid)
    BY <1>4 DEF ProjMatchRemap
  <2>. HIDE DEF v
  <2>. QED BY <1>2, <2>1, <2>2
<1>5. CASE f.type = "set"
  <2>1. ProjMatchRemap(s, f, rid) = SetRemap(s, f.on, v, rid)
    BY <1>5 DEF ProjMatchRemap, SetRemap
  <2>. HIDE DEF v
  <2>2. PICK st : /\ st[0] = s /\ SetRemap(s, f.on, v, rid) = st[n]
                  /\ \A k \in 1 .. n : st[k] = RemapIndex(st[k - 1], GetIndex(f.on, v[k])[1], GetIndex(f.on, v[k])[2], rid)
    <3>1. n \in Nat /\ DOMAIN v = 1 .. n
      BY <1>1
    <3>2. RemappedInTurn(s, f.on, v, rid, n)
      BY <3>1, SetRemapSteps
    <3>. QED BY <3>2, Zenon DEF RemappedInTurn
  <2> DEFINE S == {k \in 0 .. n : IsClasses(st[k].c)}
  <2>3. 0 \in S
    BY <2>2
  <2>4. ASSUME NEW k \in 1 .. n, k - 1 \in S PROVE k \in S
    <3>1. IsClasses(st[k - 1].c)
      BY <2>4
    <3>2. GetIndex(f.on, v[k])[1] \in Int /\ GetIndex(f.on, v[k])[2] \in Int
      BY <1>1, IndexFacts
    <3>3. IsClasses(RemapIndex(st[k - 1], GetIndex(f.on, v[k])[1], GetIndex(f.on, v[k])[2], rid).c)
      BY <3>1, <3>2, RemapIndexKeeps
    <3>4. IsClasses(st[k].c)
      BY <2>2, <3>3, Zenon
    <3>. QED BY <3>4
  <2>. HIDE DEF S
  <2>5. n \in S
    BY <2>3, <2>4, AlongStates
  <2>. QED BY <2>1, <2>2, <2>5 DEF S
<1>6. CASE f.type = "wild"
  <2>1. ProjMatchRemap(s, f, rid) = [s EXCEPT !.c = SetEverywhere(@, rid)]
    BY <1>6 DEF ProjMatchRemap
  <2>2. ProjMatchRemap(s, f, rid).c = SetEverywhere(s.c, rid)
    BY <2>1
  <2>. QED BY <2>2, SetEverywhereKeeps
<1>. QED BY <1>3, <1>4, <1>5, <1>6 DEF IsFilter

-----------------------------------------------------------------------------
(* Rules that are added *)

LEMMA LayeredKept ==
  ASSUME NEW t, Layered(t), NEW u, DOMAIN u = TableFields, IsParents(u.eqcl), IsSeq(u.rmap),
         u.eq1 = t.eq1, u.eq2 = t.eq2
  PROVE  Layered(u)
BY DEF Layered

LEMMA ParentsChanged ==
  ASSUME NEW p, IsParents(p), NEW ps, DOMAIN ps = DOMAIN p, ps = [i \in DOMAIN ps |-> ps[i]],
         \A i \in DOMAIN p : IsClasses(p[i]) => IsClasses(ps[i])
  PROVE  IsParents(ps)
<1>1. IsSeq(ps) /\ Len(ps) = Len(p)
  BY SeqChanged DEF IsParents
<1>2. DOMAIN p = 1 .. Len(p)
  BY DEF IsParents, IsSeq
<1>3. \A i \in 1 .. Len(p) : IsClasses(ps[i])
  BY <1>2 DEF IsParents
<1>. QED BY <1>1, <1>3 DEF IsParents

IsRule(r) == IsSeq(r.filters) /\ \A k \in 1 .. Len(r.filters) : IsFilter(r.filters[k])

\* The tables a rule is being added to
Working(s) == DOMAIN s = {"t", "nlused"} /\ Layered(s.t)

LEMMA AddFilterKeeps ==
  ASSUME NEW s, Working(s), NEW f, IsFilter(f), NEW r, NEW backward
  PROVE  Working(AddFilter(s, f, r, backward))
<1> DEFINE place == Place(f, backward)
           i == CHOOSE k \in DOMAIN s.t.lines : s.t.lines[k] = place
           chunk == [c |-> s.t.eqcl[i], entries |-> s.t.chunks[i]]
           done == ProjMatchRemap(chunk, f, Rid(r, backward))
           E == [s.t.eqcl EXCEPT ![i] = done.c]
           C == [s.t.chunks EXCEPT ![i] = done.entries]
           t1 == [s.t EXCEPT !.extra = place]
           t2 == [s.t EXCEPT !.eqcl = E, !.chunks = C]
           s1 == [s EXCEPT !.t = t1]
           s2 == [t |-> t2, nlused |-> s.nlused \cup {i}]
<1>1. DOMAIN s = {"t", "nlused"} /\ Layered(s.t) /\ DOMAIN s.t = TableFields
  BY DEF Working, Layered
<1>2. AddFilter(s, f, r, backward) \in {s1, s2}
  <2>1. AddFilter(s, f, r, backward) = IF ~Contains(s.t.lines, place) THEN [s EXCEPT !.t.extra = place]
            ELSE [t |-> [s.t EXCEPT !.eqcl[i] = done.c, !.chunks[i] = done.entries], nlused |-> s.nlused \cup {i}]
    BY Zenon DEF AddFilter
  <2>2. [s EXCEPT !.t.extra = place] = s1
    BY <1>1
  <2>3. [s.t EXCEPT !.eqcl[i] = done.c, !.chunks[i] = done.entries] = t2
    <3>. HIDE DEF i, done
    <3>. QED BY <1>1 DEF TableFields
  <2>. HIDE DEF s1, t2, place, i, done
  <2>. QED BY <2>1, <2>2, <2>3
<1>3. Working(s1)
  <2>. HIDE DEF place
  <2>1. DOMAIN s1 = {"t", "nlused"} /\ s1.t = t1
    BY <1>1
  <2>2. DOMAIN t1 = TableFields /\ t1.eqcl = s.t.eqcl /\ t1.rmap = s.t.rmap /\ t1.eq1 = s.t.eq1 /\ t1.eq2 = s.t.eq2
    BY <1>1 DEF TableFields
  <2>. HIDE DEF t1, s1
  <2>3. Layered(t1)
    BY <1>1, <2>2, LayeredKept DEF Layered
  <2>. QED BY <2>1, <2>3 DEF Working
<1>4. Working(s2)
  <2>1. DOMAIN s2 = {"t", "nlused"} /\ s2.t = t2
    OBVIOUS
  <2>2. IsClasses(s.t.eqcl[i]) => IsClasses(done.c)
    <3>1. DOMAIN chunk = {"c", "entries"} /\ chunk.c = s.t.eqcl[i]
      OBVIOUS
    <3>. HIDE DEF i, chunk
    <3>. QED BY <3>1, ProjMatchRemapKeeps
  <2>. HIDE DEF i, done
  <2>3. IsParents(E)
    <3>1. IsParents(s.t.eqcl)
      BY <1>1 DEF Layered
    <3>2. DOMAIN E = DOMAIN s.t.eqcl /\ E = [j \in DOMAIN E |-> E[j]]
      OBVIOUS
    <3>3. \A j \in DOMAIN s.t.eqcl : IsClasses(s.t.eqcl[j]) => IsClasses(E[j])
      BY <2>2
    <3>. HIDE DEF E
    <3>. QED BY <3>1, <3>2, <3>3, ParentsChanged
  <2>. HIDE DEF E, C
  <2>4. DOMAIN t2 = TableFields /\ t2.eqcl = E /\ t2.rmap = s.t.rmap /\ t2.eq1 = s.t.eq1 /\ t2.eq2 = s.t.eq2
    BY <1>1 DEF TableFields
  <2>. HIDE DEF t2, s2
  <2>5. Layered(t2)
    BY <1>1, <2>3, <2>4, LayeredKept DEF Layered
  <2>. QED BY <2>1, <2>5 DEF Working
<1>. HIDE DEF s1, s2
<1>. QED BY <1>2, <1>3, <1>4

LEMMA FilteredKeeps ==
  ASSUME NEW s, Working(s), NEW r, IsRule(r), NEW backward
  PROVE  Working(Filtered(s, r, backward))
<1>1. PICK n \in Nat : n = Len(r.filters) /\ DOMAIN r.filters = 1 .. n /\ \A k \in 1 .. n : IsFilter(r.filters[k])
  BY DEF IsRule, IsSeq
<1>2. PICK st : /\ st[0] = s /\ Filtered(s, r, backward) = st[n]
                /\ \A k \in 1 .. n : st[k] = AddFilter(st[k - 1], r.filters[k], r, backward)
  <2>1. n \in Nat /\ DOMAIN r.filters = 1 .. n
    BY <1>1
  <2>2. FilteredInTurn(s, r, backward, n)
    BY <2>1, FilterSteps
  <2>. QED BY <2>2, Zenon DEF FilteredInTurn
<1> DEFINE S == {k \in 0 .. n : Working(st[k])}
<1>3. 0 \in S
  BY <1>2
<1>4. ASSUME NEW k \in 1 .. n, k - 1 \in S PROVE k \in S
  <2>1. Working(st[k - 1]) /\ IsFilter(r.filters[k])
    BY <1>1, <1>4
  <2>2. Working(AddFilter(st[k - 1], r.filters[k], r, backward))
    BY <2>1, AddFilterKeeps
  <2>3. Working(st[k])
    BY <1>2, <2>2, Zenon
  <2>. QED BY <2>3
<1>. HIDE DEF S
<1>5. n \in S
  BY <1>3, <1>4, AlongStates
<1>. QED BY <1>2, <1>5 DEF S

LEMMA AddDirectionKeeps ==
  ASSUME NEW s, Working(s), NEW r, IsRule(r), NEW b
  PROVE  Working(AddDirection(s, r, b))
<1> DEFINE a == Filtered(s, r, b)
           E == [i \in DOMAIN a.t.eqcl |-> IF i \in a.nlused THEN a.t.eqcl[i]
                                           ELSE SetEverywhere(a.t.eqcl[i], Rid(r, b))]
           u == [a.t EXCEPT !.eqcl = E]
           s1 == [a EXCEPT !.t = u]
<1>1. Working(a)
  BY FilteredKeeps
<1>2. DOMAIN a = {"t", "nlused"} /\ Layered(a.t) /\ DOMAIN a.t = TableFields
  BY <1>1 DEF Working, Layered
<1>3. AddDirection(s, r, b) = s1
  <2>1. AddDirection(s, r, b) = [a EXCEPT !.t.eqcl = E]
    BY Zenon DEF AddDirection, Filtered
  <2>. HIDE DEF a, E
  <2>. QED BY <1>2, <2>1
<1>. HIDE DEF a
<1>4. IsParents(E)
  <2>1. IsParents(a.t.eqcl)
    BY <1>2 DEF Layered
  <2>2. DOMAIN E = DOMAIN a.t.eqcl /\ E = [j \in DOMAIN E |-> E[j]]
    OBVIOUS
  <2>3. \A j \in DOMAIN a.t.eqcl : IsClasses(a.t.eqcl[j]) => IsClasses(E[j])
    <3>1. \A j : IsClasses(a.t.eqcl[j]) => IsClasses(SetEverywhere(a.t.eqcl[j], Rid(r, b)))
      BY SetEverywhereKeeps
    <3>. QED BY <3>1
  <2>. HIDE DEF E
  <2>. QED BY <2>1, <2>2, <2>3, ParentsChanged
<1>. HIDE DEF E
<1>5. DOMAIN u = TableFields /\ u.eqcl = E /\ u.rmap = a.t.rmap /\ u.eq1 = a.t.eq1 /\ u.eq2 = a.t.eq2
  BY <1>2 DEF TableFields
<1>6. DOMAIN s1 = {"t", "nlused"} /\ s1.t = u
  BY <1>2
<1>. HIDE DEF u, s1
<1>7. Layered(u)
  BY <1>2, <1>4, <1>5, LayeredKept DEF Layered
<1>. QED BY <1>3, <1>6, <1>7 DEF Working

LEMMA DirectionsNumbered ==
  ASSUME NEW r
  PROVE  \E n \in Nat : DOMAIN DirectionsWithSpec(r) = 1 .. n
<1> DEFINE dirs == DirectionsWithSpec(r)
<1>1. dirs = <<0>> \/ dirs = <<0, 1>>
  BY DEF DirectionsWithSpec, Bidirs
<1>2. DOMAIN <<0>> = 1 .. 1 /\ DOMAIN <<0, 1>> = 1 .. 2
  OBVIOUS
<1>. HIDE DEF dirs
<1>3. \E n \in Nat : DOMAIN dirs = 1 .. n
  BY <1>1, <1>2
<1>. QED BY <1>3 DEF dirs

\* The number of rules is not looked at.
LEMMA TablesRecounted ==
  ASSUME NEW t, TablesInv(t), NEW n, NEW u, u = [t EXCEPT !.rules = n]
  PROVE  TablesInv(u)
<1>1. /\ DOMAIN u = TableFields /\ u.eqcl = t.eqcl /\ u.rmap = t.rmap /\ u.eq1 = t.eq1 /\ u.eq2 = t.eq2
      /\ u.chunk1 = t.chunk1 /\ u.chunk2 = t.chunk2 /\ u.lines = t.lines
  <2>1. DOMAIN t = TableFields
    BY DEF TablesInv, Layered
  <2>. QED BY <2>1 DEF TableFields
<1>2. Layered(u)
  BY <1>1, LayeredKept DEF TablesInv, Layered
<1>. QED BY <1>1, <1>2 DEF TablesInv, Blank, Sized

LEMMA AddRuleKeeps ==
  ASSUME NEW t, Layered(t), NEW r, IsRule(r)
  PROVE  Layered(AddRule(t, r)) /\ Sized(AddRule(t, r))
<1> DEFINE dirs == DirectionsWithSpec(r)
           s == Directed(t, r)
           u == Combine(s.t, FALSE)
           A == u.allrules \cup {Rid(r, Last(dirs))}
           v == [u EXCEPT !.allrules = A]
<1>1. PICK n \in Nat : DOMAIN dirs = 1 .. n
  BY DirectionsNumbered
<1>2. PICK st : /\ st[0] = Unused(t) /\ Directed(t, r) = st[n]
                /\ \A k \in 1 .. n : st[k] = AddDirection(st[k - 1], r, DirectionsWithSpec(r)[k])
  <2>1. DirectedInTurn(t, r, n)
    BY <1>1, DirectionSteps, Zenon
  <2>. QED BY <2>1, Zenon DEF DirectedInTurn
<1> DEFINE S == {k \in 0 .. n : Working(st[k])}
<1>3. 0 \in S
  <2>1. DOMAIN Unused(t) = {"t", "nlused"} /\ Unused(t).t = t
    BY DEF Unused
  <2>. QED BY <1>2, <2>1 DEF Working
<1>4. ASSUME NEW k \in 1 .. n, k - 1 \in S PROVE k \in S
  <2>1. Working(st[k - 1])
    BY <1>4
  <2>2. Working(AddDirection(st[k - 1], r, DirectionsWithSpec(r)[k]))
    BY <2>1, AddDirectionKeeps
  <2>3. Working(st[k])
    BY <1>2, <2>2, Zenon
  <2>. QED BY <2>3
<1>. HIDE DEF S
<1>5. n \in S
  BY <1>3, <1>4, AlongStates
<1>6. Layered(s.t)
  BY <1>2, <1>5 DEF S, Working
<1>. HIDE DEF s
<1>7. Layered(u) /\ Sized(u)
  <2>1. FALSE \in BOOLEAN
    OBVIOUS
  <2>. QED BY <1>6, <2>1, Combining, Zenon
<1>8. AddRule(t, r) = v
  BY Zenon DEF AddRule, Directed, Unused, s
<1>. HIDE DEF u, A
<1>9. /\ DOMAIN v = TableFields /\ v.eqcl = u.eqcl /\ v.rmap = u.rmap /\ v.eq1 = u.eq1 /\ v.eq2 = u.eq2
      /\ v.chunk1 = u.chunk1 /\ v.chunk2 = u.chunk2
  <2>1. DOMAIN u = TableFields
    BY <1>7 DEF Layered
  <2>. QED BY <2>1 DEF TableFields
<1>. HIDE DEF v
<1>10. Layered(v)
  BY <1>7, <1>9, LayeredKept DEF Layered
<1>11. Sized(v)
  BY <1>7, <1>9 DEF Sized
<1>. QED BY <1>8, <1>10, <1>11

\* The number lines of a batch are numbered from 1.
LEMMA FilterLinesKeep ==
  ASSUME NEW lines, IsSeq(lines), NEW r, IsRule(r), NEW b
  PROVE  IsSeq(FilterLines(lines, r.filters, b))
<1>1. PICK n \in Nat : DOMAIN r.filters = 1 .. n
  BY DEF IsRule, IsSeq
<1>2. PICK st : /\ st[0] = lines /\ FilterLines(lines, r.filters, b) = st[n]
                /\ \A k \in 1 .. n : st[k] = Step("filter line", <<r.filters, b>>, st[k - 1], k)
  <2>1. Reached("filter line", <<r.filters, b>>, lines, n, FilterLines(lines, r.filters, b))
    BY <1>1, FilterLinesSteps, Zenon
  <2>. QED BY <2>1, Zenon DEF Reached
<1> DEFINE S == {k \in 0 .. n : IsSeq(st[k])}
<1>3. 0 \in S
  <2>1. st[0] = lines
    BY <1>2, Zenon
  <2>. QED BY <2>1
<1>4. ASSUME NEW k \in 1 .. n, k - 1 \in S PROVE k \in S
  <2>1. IsSeq(st[k - 1])
    BY <1>4
  <2>2. FindOrAdd(st[k - 1], Place(r.filters[k], b)) \in {st[k - 1], Append(st[k - 1], Place(r.filters[k], b))}
    BY DEF FindOrAdd
  <2>3. IsSeq(Append(st[k - 1], Place(r.filters[k], b)))
    BY <2>1, SeqAppended
  <2>4. IsSeq(st[k])
    <3>1. Step("filter line", <<r.filters, b>>, st[k - 1], k) = FindOrAdd(st[k - 1], Place(r.filters[k], b))
      BY DEF Step
    <3>. QED BY <1>2, <2>1, <2>2, <2>3, <3>1
  <2>. QED BY <2>4
<1>. HIDE DEF S
<1>5. n \in S
  BY <1>3, <1>4, AlongStates
<1>6. IsSeq(st[n])
  BY <1>5 DEF S
<1>. QED BY <1>2, <1>6, Zenon

LEMMA RuleLinesKeep ==
  ASSUME NEW lines, IsSeq(lines), NEW r, IsRule(r)
  PROVE  IsSeq(RuleLines(lines, r))
<1>1. PICK n \in Nat : DOMAIN DirectionsWithSpec(r) = 1 .. n
  BY DirectionsNumbered
<1>2. PICK st : /\ st[0] = lines /\ RuleLines(lines, r) = st[n]
                /\ \A k \in 1 .. n : st[k] = Step("direction line", r, st[k - 1], k)
  <2>1. Reached("direction line", r, lines, n, RuleLines(lines, r))
    BY <1>1, RuleLinesSteps, Zenon
  <2>. QED BY <2>1, Zenon DEF Reached
<1> DEFINE S == {k \in 0 .. n : IsSeq(st[k])}
<1>3. 0 \in S
  <2>1. st[0] = lines
    BY <1>2, Zenon
  <2>. QED BY <2>1
<1>4. ASSUME NEW k \in 1 .. n, k - 1 \in S PROVE k \in S
  <2>1. IsSeq(st[k - 1])
    BY <1>4
  <2>2. IsSeq(FilterLines(st[k - 1], r.filters, DirectionsWithSpec(r)[k]))
    BY <2>1, FilterLinesKeep
  <2>3. IsSeq(st[k])
    <3>1. Step("direction line", r, st[k - 1], k) = FilterLines(st[k - 1], r.filters, DirectionsWithSpec(r)[k])
      BY DEF Step
    <3>. QED BY <1>2, <2>2, <3>1, Zenon
  <2>. QED BY <2>3
<1>. HIDE DEF S
<1>5. n \in S
  BY <1>3, <1>4, AlongStates
<1>6. IsSeq(st[n])
  BY <1>5 DEF S
<1>. QED BY <1>2, <1>6, Zenon

IsBatch(batch, n) == DOMAIN batch = 1 .. n /\ \A k \in 1 .. n : IsRule(batch[k])

LEMMA AddLinesKeep ==
  ASSUME NEW lines, IsSeq(lines), NEW n \in Nat, NEW batch, IsBatch(batch, n)
  PROVE  IsSeq(AddLines(lines, batch))
<1>1. DOMAIN batch = 1 .. n /\ \A k \in 1 .. n : IsRule(batch[k])
  BY DEF IsBatch
<1>2. PICK st : /\ st[0] = lines /\ AddLines(lines, batch) = st[n]
                /\ \A k \in 1 .. n : st[k] = Step("rule line", batch, st[k - 1], k)
  <2>1. DOMAIN batch = 1 .. n
    BY <1>1
  <2>2. Reached("rule line", batch, lines, n, AddLines(lines, batch))
    BY <2>1, AddLinesSteps, Zenon
  <2>. QED BY <2>2, Zenon DEF Reached
<1> DEFINE S == {k \in 0 .. n : IsSeq(st[k])}
<1>3. 0 \in S
  <2>1. st[0] = lines
    BY <1>2, Zenon
  <2>. QED BY <2>1
<1>4. ASSUME NEW k \in 1 .. n, k - 1 \in S PROVE k \in S
  <2>1. IsSeq(st[k - 1]) /\ IsRule(batch[k])
    BY <1>1, <1>4
  <2>2. IsSeq(RuleLines(st[k - 1], batch[k]))
    BY <2>1, RuleLinesKeep
  <2>3. IsSeq(st[k])
    <3>1. Step("rule line", batch, st[k - 1], k) = RuleLines(st[k - 1], batch[k])
      BY DEF Step
    <3>. QED BY <1>2, <2>2, <3>1, Zenon
  <2>. QED BY <2>3
<1>. HIDE DEF S
<1>5. n \in S
  BY <1>3, <1>4, AlongStates
<1>6. IsSeq(st[n])
  BY <1>5 DEF S
<1>. QED BY <1>2, <1>6, Zenon

\* A line that is scanned gets its classes.
LEMMA ScanLineMakes ==
  ASSUME NEW marks
  PROVE  IsClasses(ScanLine(marks).c)
<1>1. PICK n \in Nat : n = NumberLineSize
  BY Zenon, ClassifiersAssumption
<1>2. DOMAIN Points = 1 .. n
  BY <1>1 DEF Points
<1>3. PICK st : /\ st[0] = NothingScanned /\ Scanned(marks) = st[n]
                /\ \A k \in 1 .. n : st[k] = ScanPoint(marks, st[k - 1], Points[k])
  BY <1>2, ScanSteps
<1> DEFINE S == {k \in 0 .. n : DOMAIN st[k] = {"c", "eq", "bmp", "entries"} /\ IsClasses(st[k].c)}
<1>4. 0 \in S
  <2>1. st[0].c = NoClasses /\ DOMAIN st[0] = {"c", "eq", "bmp", "entries"}
    BY <1>3 DEF NothingScanned
  <2>2. IsClasses(NoClasses)
    <3>1. DOMAIN NoClasses = {"eids", "bms", "freeList"} /\ NoClasses.eids = <<>>
      BY DEF NoClasses
    <3>2. IsSeq(<<>>)
      BY SMT DEF IsSeq
    <3>. QED BY <3>1, <3>2 DEF IsClasses
  <2>. QED BY <2>1, <2>2
<1>5. ASSUME NEW k \in 1 .. n, k - 1 \in S PROVE k \in S
  <2> DEFINE s == st[k - 1]
             u == ScanPoint(marks, s, Points[k])
  <2>1. DOMAIN s = {"c", "eq", "bmp", "entries"} /\ IsClasses(s.c)
    BY <1>5
  <2>2. DOMAIN u = {"c", "eq", "bmp", "entries"} /\ IsClasses(u.c)
    <3> DEFINE here == SelectSeq(marks, LAMBDA m : m.at = Points[k])
               bmp == FoldLeft(LAMBDA b, m : IF m.type = "start" THEN b \cup {m.rid} ELSE b \ {m.rid}, s.bmp, here)
               f == FindEC(s.c, bmp)
               u1 == [s EXCEPT !.entries = Append(@, s.eq)]
               u2 == [c |-> f.c, eq |-> f.eq, bmp |-> bmp, entries |-> Append(s.entries, f.eq)]
    <3>1. u = IF here = <<>> THEN u1 ELSE u2
      BY Zenon DEF ScanPoint
    <3>. HIDE DEF u, here, s, bmp
    <3>2. DOMAIN u1 = {"c", "eq", "bmp", "entries"} /\ u1.c = s.c
      BY <2>1
    <3>3. DOMAIN u2 = {"c", "eq", "bmp", "entries"} /\ u2.c = f.c
      OBVIOUS
    <3>4. IsClasses(f.c)
      BY <2>1, FindECKeeps
    <3>. HIDE DEF u1, u2, f
    <3>. QED BY <2>1, <3>1, <3>2, <3>3, <3>4
  <2>3. st[k] = u
    BY <1>3
  <2>. HIDE DEF u
  <2>. QED BY <2>2, <2>3
<1>. HIDE DEF S
<1>6. n \in S
  BY <1>4, <1>5, AlongStates
<1>7. IsClasses(Scanned(marks).c)
  BY <1>3, <1>6 DEF S
<1>8. ScanLine(marks) = [c |-> AddPreAllocEC(Scanned(marks).c), entries |-> Scanned(marks).entries]
  BY Zenon DEF ScanLine, Scanned, NothingScanned, Points
<1>9. ScanLine(marks).c = AddPreAllocEC(Scanned(marks).c)
  BY <1>8
<1>. QED BY <1>7, <1>9, Preallocated

LEMMA FirstRulesKeep ==
  ASSUME NEW t, Layered(t), NEW n \in Nat, NEW batch, IsBatch(batch, n)
  PROVE  Layered(AddInitialRules(t, batch)) /\ Sized(AddInitialRules(t, batch))
<1> DEFINE lines == AddLines(<<>>, batch)
           scans == [i \in DOMAIN lines |-> ScanLine(Marks(batch, lines[i]))]
           E == [i \in DOMAIN scans |-> scans[i].c]
           C == [i \in DOMAIN scans |-> scans[i].entries]
           A == t.allrules \cup {Rid(p[1], p[2]) : p \in ToSet(Projected(batch))}
           u == [t EXCEPT !.lines = lines, !.eqcl = E, !.chunks = C, !.allrules = A]
<1>1. IsSeq(<<>>)
  BY SMT DEF IsSeq
<1>2. IsSeq(lines)
  BY <1>1, AddLinesKeep
<1>3. AddInitialRules(t, batch) = Combine(u, TRUE)
  BY Zenon DEF AddInitialRules
<1>. HIDE DEF lines
<1>4. IsParents(E)
  <2>1. PICK m \in Nat : m = Len(lines) /\ DOMAIN lines = 1 .. m
    BY <1>2 DEF IsSeq
  <2>2. E = [i \in 1 .. m |-> E[i]] /\ \A i \in 1 .. m : E[i] = ScanLine(Marks(batch, lines[i])).c
    BY <2>1
  <2>. HIDE DEF E
  <2>3. IsSeq(E) /\ Len(E) = m
    BY <2>2, SeqMade
  <2>4. \A i \in 1 .. m : IsClasses(E[i])
    BY <2>2, ScanLineMakes
  <2>. QED BY <2>3, <2>4 DEF IsParents
<1>. HIDE DEF E, C, A, scans
<1>5. DOMAIN t = TableFields
  BY DEF Layered
<1>6. DOMAIN u = TableFields /\ u.eqcl = E /\ u.rmap = t.rmap /\ u.eq1 = t.eq1 /\ u.eq2 = t.eq2
  BY <1>5 DEF TableFields
<1>. HIDE DEF u
<1>7. Layered(u)
  BY <1>4, <1>6, LayeredKept DEF Layered
<1>8. TRUE \in BOOLEAN
  OBVIOUS
<1>. QED BY <1>3, <1>7, <1>8, Combining, Zenon

LEMMA RfcAddRulesKeeps ==
  ASSUME NEW t, TablesInv(t), NEW n \in Nat, NEW batch, IsBatch(batch, n)
  PROVE  TablesInv(RfcAddRules(t, batch))
<1> DEFINE u == IF t.rules = 0 THEN AddInitialRules(t, batch) ELSE AddedInTurn(t, batch)
           v == [u EXCEPT !.rules = u.rules + Len(batch)]
<1>1. TablesInv(u)
  <2>1. CASE t.rules = 0
    <3>1. Layered(t)
      BY DEF TablesInv
    <3>2. TablesInv(AddInitialRules(t, batch))
      BY <3>1, FirstRulesKeep DEF TablesInv
    <3>. QED BY <2>1, <3>2
  <2>2. CASE t.rules # 0
    <3>1. DOMAIN batch = 1 .. n /\ \A k \in 1 .. n : IsRule(batch[k])
      BY DEF IsBatch
    <3>2. PICK st : /\ st[0] = t /\ AddedInTurn(t, batch) = st[n]
                    /\ \A k \in 1 .. n : st[k] = Step("rule", batch, st[k - 1], k)
      <4>1. DOMAIN batch = 1 .. n
        BY <3>1
      <4>2. Reached("rule", batch, t, n, AddedInTurn(t, batch))
        BY <4>1, AddBatchSteps, Zenon
      <4>. QED BY <4>2, Zenon DEF Reached
    <3> DEFINE S == {k \in 0 .. n : TablesInv(st[k])}
    <3>3. 0 \in S
      <4>1. st[0] = t
        BY <3>2, Zenon
      <4>. QED BY <4>1
    <3>4. ASSUME NEW k \in 1 .. n, k - 1 \in S PROVE k \in S
      <4>1. Layered(st[k - 1]) /\ IsRule(batch[k])
        BY <3>1, <3>4 DEF TablesInv
      <4>2. TablesInv(AddRule(st[k - 1], batch[k]))
        BY <4>1, AddRuleKeeps DEF TablesInv
      <4>3. TablesInv(st[k])
        <5>1. Step("rule", batch, st[k - 1], k) = AddRule(st[k - 1], batch[k])
          BY DEF Step
        <5>. QED BY <3>2, <4>2, <5>1, Zenon
      <4>. QED BY <4>3
    <3>. HIDE DEF S
    <3>5. n \in S
      BY <3>3, <3>4, AlongStates
    <3>6. TablesInv(st[n])
      BY <3>5 DEF S
    <3>7. u = st[n]
      BY <2>2, <3>2, Zenon
    <3>. QED BY <3>6, <3>7
  <2>. QED BY <2>1, <2>2
<1>2. RfcAddRules(t, batch) = v
  BY Zenon DEF RfcAddRules, AddedInTurn
<1>. HIDE DEF u
<1>3. TablesInv(v)
  BY <1>1, TablesRecounted
<1>. QED BY <1>2, <1>3

-----------------------------------------------------------------------------
(* Rules that are removed *)

\* The classes stay, whatever becomes of their bitmaps.
Stay(c, d) == IsClasses(c) => IsClasses(d) /\ MaxId(d) = MaxId(c)

LEMMA DropBitKeeps ==
  ASSUME NEW c, NEW eq, NEW rid
  PROVE  Stay(c, DropBit(c, eq, rid))
<1>. SUFFICES ASSUME IsClasses(c)
              PROVE  IsClasses(DropBit(c, eq, rid)) /\ MaxId(DropBit(c, eq, rid)) = MaxId(c)
  BY DEF Stay
<1> DEFINE bm == Class(c, eq).bm
           o == Erase(c, bm)
           d == [o EXCEPT !.eids[eq + 1].bm = @ \ {rid}]
           E == [o.eids EXCEPT ![eq + 1].bm = @ \ {rid}]
           g == [d EXCEPT !.bms = @ \cup {eq}]
<1>1. DropBit(c, eq, rid) \in {c, d, g}
  BY DEF DropBit
<1>2. o = [c EXCEPT !.bms = c.bms \ Find(c, bm)]
  BY DEF Erase, IsClasses
<1>. HIDE DEF o, bm
<1>3. IsClasses(o) /\ MaxId(o) = MaxId(c)
  BY <1>2, ClassesRekept
<1>4. d = [o EXCEPT !.eids = E]
  BY <1>3 DEF IsClasses
<1>5. DOMAIN E = DOMAIN o.eids /\ E = [i \in DOMAIN E |-> E[i]]
  OBVIOUS
<1>. HIDE DEF d, E
<1>6. IsClasses(d) /\ MaxId(d) = MaxId(c)
  BY <1>3, <1>4, <1>5, ClassesRecounted
<1>7. g = [d EXCEPT !.bms = d.bms \cup {eq}]
  BY <1>6 DEF IsClasses
<1>. HIDE DEF g
<1>8. IsClasses(g) /\ MaxId(g) = MaxId(c)
  BY <1>6, <1>7, ClassesRekept
<1>. QED BY <1>1, <1>6, <1>8

LEMMA DropRuleKeeps ==
  ASSUME NEW c, IsClasses(c), NEW rid
  PROVE  Stay(c, DropRule(c, rid))
<1>1. PICK n \in Nat : DOMAIN Ids(c) = 1 .. n
  BY DEF IsClasses, IsSeq, MaxId, Ids
<1>2. PICK st : /\ st[0] = c /\ DropRule(c, rid) = st[n]
                /\ \A k \in 1 .. n : st[k] = Step("bit", <<c, rid>>, st[k - 1], k)
  <2>1. Reached("bit", <<c, rid>>, c, n, DropRule(c, rid))
    BY <1>1, DropRuleSteps, Zenon
  <2>. QED BY <2>1, Zenon DEF Reached
<1> DEFINE S == {k \in 0 .. n : IsClasses(st[k]) /\ MaxId(st[k]) = MaxId(c)}
<1>3. 0 \in S
  <2>1. st[0] = c
    BY <1>2, Zenon
  <2>. QED BY <2>1
<1>4. ASSUME NEW k \in 1 .. n, k - 1 \in S PROVE k \in S
  <2>1. Step("bit", <<c, rid>>, st[k - 1], k) = DropBit(st[k - 1], Ids(c)[k], rid)
    BY DEF Step
  <2>2. st[k] = DropBit(st[k - 1], Ids(c)[k], rid)
    BY <1>2, <2>1, Zenon
  <2>3. Stay(st[k - 1], DropBit(st[k - 1], Ids(c)[k], rid))
    BY DropBitKeeps, Zenon
  <2>. QED BY <1>4, <2>2, <2>3 DEF Stay
<1>. HIDE DEF S
<1>5. n \in S
  BY <1>3, <1>4, AlongStates
<1>6. IsClasses(st[n]) /\ MaxId(st[n]) = MaxId(c)
  BY <1>5 DEF S
<1>7. DropRule(c, rid) = st[n]
  BY <1>2, Zenon
<1>. QED BY <1>6, <1>7 DEF Stay

LEMMA DropRulesKeep ==
  ASSUME NEW c, NEW n \in Nat, NEW rids, DOMAIN rids = 1 .. n
  PROVE  Stay(c, DroppedInTurn(c, rids))
<1>1. CASE ~IsClasses(c)
  BY <1>1 DEF Stay
<1>2. CASE IsClasses(c)
  <2>2. PICK st : /\ st[0] = c /\ DroppedInTurn(c, rids) = st[n]
                  /\ \A k \in 1 .. n : st[k] = Step("drop", rids, st[k - 1], k)
    <3>1. Reached("drop", rids, c, n, DroppedInTurn(c, rids))
      BY DropRulesSteps, Zenon
    <3>. QED BY <3>1, Zenon DEF Reached
  <2> DEFINE S == {k \in 0 .. n : IsClasses(st[k]) /\ MaxId(st[k]) = MaxId(c)}
  <2>3. 0 \in S
    <3>1. st[0] = c
      BY <2>2, Zenon
    <3>. QED BY <1>2, <3>1
  <2>4. ASSUME NEW k \in 1 .. n, k - 1 \in S PROVE k \in S
    <3>1. Step("drop", rids, st[k - 1], k) = DropRule(st[k - 1], rids[k])
      BY DEF Step
    <3>2. st[k] = DropRule(st[k - 1], rids[k])
      BY <2>2, <3>1, Zenon
    <3>3. IsClasses(st[k - 1]) /\ MaxId(st[k - 1]) = MaxId(c)
      BY <2>4
    <3>4. Stay(st[k - 1], DropRule(st[k - 1], rids[k]))
      BY <3>3, DropRuleKeeps, Zenon
    <3>. QED BY <3>2, <3>3, <3>4 DEF Stay
  <2>. HIDE DEF S
  <2>5. n \in S
    BY <2>3, <2>4, AlongStates
  <2>6. IsClasses(st[n]) /\ MaxId(st[n]) = MaxId(c)
    BY <2>5 DEF S
  <2>7. DroppedInTurn(c, rids) = st[n]
    BY <2>2, Zenon
  <2>. QED BY <2>6, <2>7 DEF Stay
<1>. QED BY <1>1, <1>2

LEMMA NoTablesInv ==
  TablesInv(NoTables)
<1> DEFINE t == NoTables
<1>1. /\ DOMAIN t = TableFields /\ t.eqcl = <<>> /\ t.rmap = <<>> /\ t.lines = <<>>
      /\ t.eq1 = NoClasses /\ t.eq2 = NoClasses
  BY DEF NoTables, TableFields
<1>2. IsSeq(<<>>) /\ Len(<<>>) = 0
  BY SMT DEF IsSeq
<1>3. /\ DOMAIN NoClasses = {"eids", "bms", "freeList"} /\ NoClasses.eids = <<>>
      /\ NoClasses.bms = {} /\ NoClasses.freeList = <<>>
  BY DEF NoClasses
<1>4. MaxId(NoClasses) = 0 /\ IsClasses(NoClasses)
  BY <1>2, <1>3 DEF MaxId, IsClasses
<1>5. Taken(NoClasses, 0)
  <2>1. NoClasses.freeList = [i \in 1 .. 0 - 0 |-> 0 + i - 1]
    BY <1>3, FreeIds
  <2>2. 1 .. 0 = {} /\ 0 .. 0 - 1 = {} /\ 0 \in 0 .. 0
    OBVIOUS
  <2>. QED BY <1>3, <1>4, <2>1, <2>2 DEF Taken
<1>. HIDE DEF t
<1>6. IsParents(t.eqcl) /\ IsSeq(t.rmap)
  BY <1>1, <1>2 DEF IsParents
<1>7. Bitmaps(NoClasses, 0) \subseteq Bitmaps(NoClasses, 0)
  OBVIOUS
<1>8. Layered(t)
  BY <1>1, <1>5, <1>6, <1>7 DEF Layered
<1>9. Blank(t)
  BY <1>1, <1>5 DEF Blank
<1>. QED BY <1>8, <1>9 DEF TablesInv, t

LEMMA RfcDelRuleKeeps ==
  ASSUME NEW t, TablesInv(t), NEW r
  PROVE  TablesInv(RfcDelRule(t, r))
<1> DEFINE rids == [d \in DOMAIN Bidirs(r) |-> Rid(r, d - 1)]
           M == [i \in DOMAIN t.rmap |-> SelectSeq(t.rmap[i], LAMBDA n : n # 0)]
           E == [i \in DOMAIN t.eqcl |-> DroppedInTurn(t.eqcl[i], rids)]
           A == t.allrules \ ToSet(rids)
           c == t.rules - Len(rids)
           u == [t EXCEPT !.rmap = M, !.eqcl = E, !.allrules = A, !.rules = c]
<1>1. DOMAIN t = TableFields /\ Layered(t)
  BY DEF TablesInv, Layered
<1>2. PICK n \in Nat : DOMAIN rids = 1 .. n
  <2>1. Bidirs(r) = <<0>> \/ Bidirs(r) = <<0, 1>>
    BY DEF Bidirs
  <2>2. DOMAIN <<0>> = 1 .. 1 /\ DOMAIN <<0, 1>> = 1 .. 2
    OBVIOUS
  <2>. QED BY <2>1, <2>2
<1>3. RfcDelRule(t, r) = IF u.rules = 0 THEN NoTables ELSE u
  BY Zenon DEF RfcDelRule, DroppedInTurn
<1>4. IsSeq(M) /\ Len(M) = Len(t.rmap)
  <2>1. DOMAIN M = DOMAIN t.rmap /\ M = [i \in DOMAIN M |-> M[i]] /\ IsSeq(t.rmap)
    BY <1>1 DEF Layered
  <2>. HIDE DEF M
  <2>. QED BY <2>1, SeqChanged
<1>. HIDE DEF rids, M
<1>5. /\ DOMAIN E = DOMAIN t.eqcl /\ E = [i \in DOMAIN E |-> E[i]] /\ IsParents(t.eqcl)
      /\ \A i \in DOMAIN t.eqcl : Stay(t.eqcl[i], E[i])
  <2>1. \A i : Stay(t.eqcl[i], DroppedInTurn(t.eqcl[i], rids))
    BY <1>2, DropRulesKeep
  <2>. QED BY <1>1, <2>1 DEF Layered
<1>. HIDE DEF E, A, c
<1>6. \A i \in DOMAIN t.eqcl : IsClasses(t.eqcl[i])
  BY <1>5 DEF IsParents, IsSeq
<1>7. IsParents(E) /\ ChunkSize(E) = ChunkSize(t.eqcl)
  BY <1>5, <1>6, ParentsChanged, SizeSame DEF Stay
<1>8. /\ DOMAIN u = TableFields /\ u.eqcl = E /\ u.rmap = M /\ u.eq1 = t.eq1 /\ u.eq2 = t.eq2
      /\ u.chunk1 = t.chunk1 /\ u.chunk2 = t.chunk2 /\ u.lines = t.lines
  BY <1>1 DEF TableFields
<1>. HIDE DEF u
<1>9. Layered(u)
  BY <1>1, <1>4, <1>7, <1>8, LayeredKept DEF Layered
<1>10. TablesInv(u)
  BY <1>4, <1>7, <1>8, <1>9 DEF TablesInv, Blank, Sized
<1>. QED BY <1>3, <1>10, NoTablesInv

LEMMA RfcDelRulesKeeps ==
  ASSUME NEW t, TablesInv(t), NEW n \in Nat, NEW batch, DOMAIN batch = 1 .. n
  PROVE  TablesInv(RfcDelRules(t, batch))
<1>2. PICK st : /\ st[0] = t /\ RfcDelRules(t, batch) = st[n]
                /\ \A k \in 1 .. n : st[k] = Step("del", batch, st[k - 1], k)
  <2>1. Reached("del", batch, t, n, RfcDelRules(t, batch))
    BY DelBatchSteps, Zenon
  <2>. QED BY <2>1, Zenon DEF Reached
<1> DEFINE S == {k \in 0 .. n : TablesInv(st[k])}
<1>3. 0 \in S
  <2>1. st[0] = t
    BY <1>2, Zenon
  <2>. QED BY <2>1
<1>4. ASSUME NEW k \in 1 .. n, k - 1 \in S PROVE k \in S
  <2>1. Step("del", batch, st[k - 1], k) = RfcDelRule(st[k - 1], batch[k])
    BY DEF Step
  <2>2. TablesInv(st[k - 1])
    BY <1>4
  <2>3. TablesInv(RfcDelRule(st[k - 1], batch[k]))
    BY <2>2, RfcDelRuleKeeps, Zenon
  <2>4. TablesInv(st[k])
    BY <1>2, <2>1, <2>3, Zenon
  <2>. QED BY <2>4
<1>. HIDE DEF S
<1>5. n \in S
  BY <1>3, <1>4, AlongStates
<1>6. TablesInv(st[n])
  BY <1>5 DEF S
<1>. QED BY <1>2, <1>6, Zenon

-----------------------------------------------------------------------------
(* The theorems about the classifiers *)

ClassifierInv == TablesInv(rfc) /\ IsFiniteSet(DOMAIN rules)

\* The rules of a task are what the parsers make.
LEMMA ShapesAreRules ==
  ASSUME NEW a \in Shapes, NEW r, r.filters = a.filters
  PROVE  IsRule(r)
<1> DEFINE fs == a.filters
<1>1. /\ fs \in Seq(Filters)
      /\ \A k \in DOMAIN fs : (fs[k].type = "exact" => fs[k].vals # <<>>) /\ (fs[k].type = "range" => Len(fs[k].vals) = 2)
  BY Zenon, ClassifiersAssumption
<1>. HIDE DEF fs
<1>2. PICK n \in Nat : n = Len(fs) /\ fs = [i \in 1 .. n |-> fs[i]] /\ DOMAIN fs = 1 .. n
  BY <1>1, LenProperties
<1>3. IsSeq(fs)
  BY <1>2, SeqMade
<1>4. \A k \in 1 .. n : IsFilter(fs[k])
  <2>. TAKE k \in 1 .. n
  <2>1. fs[k] \in Filters
    BY <1>1, <1>2, ElementOfSeq
  <2>2. fs[k].vals \in Seq(Values) /\ fs[k].type \in {"exact", "range", "set", "wild"}
    BY <2>1 DEF Filters
  <2>3. (fs[k].type = "exact" => fs[k].vals # <<>>) /\ (fs[k].type = "range" => Len(fs[k].vals) = 2)
    BY <1>1, <1>2
  <2>. QED BY <2>2, <2>3 DEF IsFilter
<1>5. r.filters = fs
  BY DEF fs
<1>. QED BY <1>2, <1>3, <1>4, <1>5 DEF IsRule

LEMMA NumberedAreBatch ==
  ASSUME NEW shapes, NEW n \in Nat, DOMAIN shapes = 1 .. n, \A i \in 1 .. n : shapes[i] \in Shapes
  PROVE  IsBatch(Numbered(shapes), n)
<1> DEFINE free == Ascending((0 .. MaxRules - 1) \ DOMAIN rules)
           batch == [i \in DOMAIN shapes |-> [uid |-> free[i], bidir |-> shapes[i].bidir, filters |-> shapes[i].filters]]
<1>1. Numbered(shapes) = batch
  BY Zenon DEF Numbered
<1>2. DOMAIN batch = 1 .. n /\ \A i \in 1 .. n : batch[i].filters = shapes[i].filters
  <2>. HIDE DEF free
  <2>. QED OBVIOUS
<1>. HIDE DEF batch
<1>3. \A i \in 1 .. n : IsRule(batch[i])
  BY <1>2, ShapesAreRules
<1>. QED BY <1>1, <1>2, <1>3 DEF IsBatch

LEMMA AddRulesKeepsInv ==
  ASSUME ClassifierInv, NEW shapes, NEW n \in Nat, DOMAIN shapes = 1 .. n,
         \A i \in 1 .. n : shapes[i] \in Shapes, AddRules(shapes)
  PROVE  ClassifierInv'
<1> DEFINE batch == Numbered(shapes)
<1>1. IsBatch(batch, n)
  BY NumberedAreBatch
<1>2. /\ rules' = With(batch)
      /\ rfc' = IF algorithm = "RFC" THEN RfcAddRules(rfc, batch) ELSE rfc
  BY Zenon DEF AddRules
<1>. HIDE DEF batch
<1>3. TablesInv(rfc')
  <2>1. TablesInv(rfc)
    BY DEF ClassifierInv
  <2>2. TablesInv(RfcAddRules(rfc, batch))
    BY <1>1, <2>1, RfcAddRulesKeeps, Zenon
  <2>. QED BY <1>2, <2>1, <2>2
<1>4. IsFiniteSet(DOMAIN rules')
  <2> DEFINE uids == {r.uid : r \in ToSet(batch)}
             F == [i \in 1 .. n |-> batch[i].uid]
  <2>1. DOMAIN rules' = DOMAIN rules \cup uids
    BY <1>2 DEF With
  <2>2. uids = {F[i] : i \in 1 .. n} /\ F = [i \in 1 .. n |-> F[i]]
    BY <1>1 DEF ToSet, IsBatch
  <2>3. IsFiniteSet(1 .. n)
    BY FS_Interval
  <2>. HIDE DEF uids, F
  <2>4. F \in Surjection(1 .. n, uids)
    BY <2>2 DEF Surjection
  <2>5. IsFiniteSet(uids)
    BY <2>3, <2>4, FS_Surjection
  <2>. QED BY <2>1, <2>5, FS_Union DEF ClassifierInv
<1>. QED BY <1>3, <1>4 DEF ClassifierInv

LEMMA DelRulesKeepsInv ==
  ASSUME ClassifierInv, NEW uids \in SUBSET DOMAIN rules, DelRules(uids)
  PROVE  ClassifierInv'
<1> DEFINE batch == [k \in DOMAIN Ascending(uids) |-> rules[Ascending(uids)[k]]]
<1>1. /\ rules' = Restrict(rules, DOMAIN rules \ uids)
      /\ rfc' = IF algorithm = "RFC" THEN RfcDelRules(rfc, batch) ELSE rfc
  BY Zenon DEF DelRules
<1>2. IsFiniteSet(DOMAIN rules) /\ TablesInv(rfc)
  BY DEF ClassifierInv
<1>3. PICK n \in Nat : DOMAIN batch = 1 .. n
  <2>1. IsFiniteSet(uids)
    BY <1>2, FS_Subset
  <2>2. Cardinality(uids) \in Nat
    BY <2>1, FS_CardinalityType
  <2>3. DOMAIN batch = 1 .. Cardinality(uids)
    BY DEF Ascending
  <2>. HIDE DEF batch
  <2>. QED BY <2>2, <2>3
<1>. HIDE DEF batch
<1>4. TablesInv(RfcDelRules(rfc, batch))
  BY <1>2, <1>3, RfcDelRulesKeeps, Zenon
<1>5. TablesInv(rfc')
  BY <1>1, <1>2, <1>4
<1>6. IsFiniteSet(DOMAIN rules')
  <2>1. DOMAIN rules' = DOMAIN rules \ uids
    BY <1>1 DEF Restrict
  <2>. QED BY <1>2, <2>1, FS_Subset
<1>. QED BY <1>5, <1>6 DEF ClassifierInv

\* However rules come and go, phase 2 of ClassifierRFC has no bitmap that
\* phase 1 does not have, the classes of both have different bitmaps, and
\* every table has the size that the classes before it ask for
\* (doIntersection, genFinalMap).
THEOREM ClassifierInvariant == ClassifierSpec => []ClassifierInv
<1>1. ClassifierInit => ClassifierInv
  <2>. SUFFICES ASSUME ClassifierInit PROVE ClassifierInv
    OBVIOUS
  <2>1. rfc = NoTables /\ rules = <<>>
    BY DEF ClassifierInit
  <2>2. DOMAIN rules = {}
    BY <2>1
  <2>. QED BY <2>1, <2>2, NoTablesInv, FS_EmptySet DEF ClassifierInv
<1>2. ClassifierInv /\ [ClassifierNext]_classifierVars => ClassifierInv'
  <2>. SUFFICES ASSUME ClassifierInv, [ClassifierNext]_classifierVars PROVE ClassifierInv'
    OBVIOUS
  <2>1. ASSUME NEW a \in Shapes, AddRules(<<a>>) PROVE ClassifierInv'
    <3>1. DOMAIN <<a>> = 1 .. 1 /\ 1 \in Nat /\ \A i \in 1 .. 1 : <<a>>[i] \in Shapes
      OBVIOUS
    <3>. QED BY <2>1, <3>1, AddRulesKeepsInv
  <2>2. ASSUME NEW a \in Shapes, NEW b \in Shapes, AddRules(<<a, b>>) PROVE ClassifierInv'
    <3>1. DOMAIN <<a, b>> = 1 .. 2 /\ 2 \in Nat /\ \A i \in 1 .. 2 : <<a, b>>[i] \in Shapes
      OBVIOUS
    <3>. QED BY <2>2, <3>1, AddRulesKeepsInv
  <2>3. ASSUME NEW uids \in SUBSET DOMAIN rules, DelRules(uids) PROVE ClassifierInv'
    BY <2>3, DelRulesKeepsInv
  <2>4. CASE UNCHANGED classifierVars
    BY <2>4 DEF classifierVars, ClassifierInv
  <2>. QED BY <2>1, <2>2, <2>3, <2>4 DEF ClassifierNext
<1>. QED BY <1>1, <1>2, PTL DEF ClassifierSpec

\* Every class of ClassifierRFC's last phase has its place in the final map
\* that genFinalMap writes, and every combination of classes has its place in
\* a chunk, whatever filters the rules have, however long the number lines are
\* and in whatever situation rules are added or removed.
THEOREM TablesAreLargeEnough == ClassifierSpec => []TablesLargeEnough
<1>1. ClassifierInv => TablesLargeEnough
  <2>. SUFFICES ASSUME TablesInv(rfc) PROVE TablesLargeEnough
    BY DEF ClassifierInv
  <2>1. CASE Blank(rfc)
    <3>1. Taken(rfc.eq2, 0) /\ rfc.lines = <<>>
      BY <2>1 DEF Blank
    <3>2. \A e \in InUse(rfc.eq2) : e \in Nat /\ e < 0
      BY <3>1, InUseAreTaken
    <3>3. \A e \in InUse(rfc.eq2) : FALSE
      BY <3>2
    <3>. QED BY <3>1, <3>3 DEF TablesLargeEnough
  <2>2. CASE Sized(rfc)
    <3>1. PICK k1, k2 : Taken(rfc.eq1, k1) /\ Taken(rfc.eq2, k2)
                        /\ Bitmaps(rfc.eq2, k2) \subseteq Bitmaps(rfc.eq1, k1)
      BY DEF TablesInv, Layered
    <3>2. k2 <= k1
      BY <3>1, FewerClasses
    <3>3. k1 \in Nat /\ k2 \in Nat /\ MaxId(rfc.eq1) \in Nat /\ k1 <= MaxId(rfc.eq1)
      BY <3>1, InUseAreTaken
    <3>4. \A e \in InUse(rfc.eq2) : e \in Nat /\ e < k2
      BY <3>1, InUseAreTaken
    <3>5. Len(rfc.rmap) = MaxId(rfc.eq1)
      BY <2>2 DEF Sized
    <3>6. \A e \in InUse(rfc.eq2) : e < Len(rfc.rmap)
      BY <3>2, <3>3, <3>4, <3>5
    <3>. QED BY <2>2, <3>6 DEF TablesLargeEnough, Sized
  <2>. QED BY <2>1, <2>2 DEF TablesInv
<1>. QED BY <1>1, ClassifierInvariant, PTL

-----------------------------------------------------------------------------
(* The queue *)

QueueInv == QueueTypeOK /\ RingLayout

USE QueueAssumption DEF NoBuffer

-----------------------------------------------------------------------------
\* The descriptors from descriptor i on are all different, and going one
\* place further is taking the next index of the ring.
LEMMA SlotFacts ==
    ASSUME NEW i \in 0 .. MaxBuffers - 1
    PROVE  /\ \A k \in 0 .. MaxBuffers : Slot(i, k) \in 0 .. MaxBuffers - 1
           /\ \A j, k \in 0 .. MaxBuffers - 1 : j # k => Slot(i, j) # Slot(i, k)
           /\ \A k \in 0 .. MaxBuffers - 1 : Slot(i, k + 1) = Succ(Slot(i, k))
           /\ \A k \in 0 .. MaxBuffers - 1 : Slot(Succ(i), k) = Slot(i, k + 1)
           /\ Slot(i, 0) = i
  BY DEF QueueAssumption, Slot, Succ

\* The descriptors of the queued packets hold a start and a length.
LEMMA DescriptorFacts ==
    ASSUME QueueInv
    PROVE  /\ Used \in 0 .. MaxBuffers
           /\ \A k \in 0 .. Used - 1 :
                 /\ Slot(nextOutBuf, k) \in 0 .. MaxBuffers - 1
                 /\ Pos(k) \in Nat /\ Size(k) \in 1 .. GuardBufLen
                 /\ Pos(k) + GuardBufLen <= MaxMemory
<1>1. Used \in 0 .. MaxBuffers
  BY DEF QueueAssumption, QueueInv, QueueTypeOK, Used
<1>2. \A k \in 0 .. Used - 1 : Slot(nextOutBuf, k) \in 0 .. MaxBuffers - 1
  <2>1. nextOutBuf \in 0 .. MaxBuffers - 1
    BY DEF QueueInv, QueueTypeOK
  <2>2. \A k \in 0 .. MaxBuffers : Slot(nextOutBuf, k) \in 0 .. MaxBuffers - 1
    BY <2>1, SlotFacts
  <2> QED BY <1>1, <2>2 DEF QueueAssumption
<1>3. \A i \in 0 .. MaxBuffers - 1 : /\ bufRecs[i].pos \in Nat
                                     /\ bufRecs[i].len \in 0 .. GuardBufLen
  BY DEF QueueAssumption, QueueInv, QueueTypeOK
<1>4. \A k \in 0 .. Used - 1 : Pos(k) \in Nat /\ Size(k) \in 0 .. GuardBufLen
  BY <1>2, <1>3 DEF Pos, Size
<1>5. \A k \in 0 .. Used - 1 : Size(k) > 0 /\ Pos(k) + GuardBufLen <= MaxMemory
  BY DEF QueueInv, RingLayout, WithinMemory
<1>6. \A k \in 0 .. Used - 1 : Size(k) \in 1 .. GuardBufLen
  BY <1>4, <1>5 DEF QueueAssumption
<1> QED BY <1>1, <1>2, <1>4, <1>5, <1>6

\* A commit adds a descriptor behind those of the queued packets.
LEMMA CommittedDescriptors ==
    ASSUME QueueInv, NEW len \in Int, lentBuf # NoBuffer, Acceptable(len), SetBufferOccupied(len)
    PROVE  /\ Used' = Used + 1
           /\ \A k \in 0 .. Used : /\ Pos(k)' = IF k = Used THEN curData ELSE Pos(k)
                                   /\ Size(k)' = IF k = Used THEN len ELSE Size(k)
<1> DEFINE n == Used
<1> USE DEF QueueAssumption
<1>1. n \in 0 .. MaxBuffers - 1
  BY DEF QueueInv, QueueTypeOK, Acceptable, Used
<1>2. /\ nextOutBuf' = nextOutBuf /\ freeBuffers' = freeBuffers - 1
      /\ bufRecs' = [bufRecs EXCEPT ![nextInBuf] = [pos |-> curData, len |-> len]]
  BY DEF SetBufferOccupied
<1>3. Used' = n + 1
  BY <1>1, <1>2 DEF Used, QueueInv, QueueTypeOK
<1>4. nextInBuf = Slot(nextOutBuf, n) /\ nextOutBuf \in 0 .. MaxBuffers - 1
  BY DEF QueueInv, QueueTypeOK, RingLayout, IndicesAgree
<1>5. bufRecs'[nextInBuf] = [pos |-> curData, len |-> len]
  BY <1>2 DEF QueueInv, QueueTypeOK
<1>6. \A k \in 0 .. n - 1 : Slot(nextOutBuf, k) # nextInBuf
  BY <1>1, <1>4, SlotFacts
<1>7. \A k \in 0 .. n - 1 : bufRecs'[Slot(nextOutBuf, k)] = bufRecs[Slot(nextOutBuf, k)]
  BY <1>6, <1>1, <1>2, DescriptorFacts DEF QueueInv, QueueTypeOK
<1>8. \A k \in 0 .. n - 1 : Pos(k)' = Pos(k) /\ Size(k)' = Size(k)
  BY <1>2, <1>7 DEF Pos, Size
<1>9. ASSUME NEW k \in 0 .. n, k = n PROVE Pos(k)' = curData /\ Size(k)' = len
  BY <1>2, <1>4, <1>5, <1>9 DEF Pos, Size
<1>10. \A k \in 0 .. n : k # n => k \in 0 .. n - 1
  BY <1>1
<1> QED BY <1>3, <1>8, <1>9, <1>10

\* A release takes the first descriptor away.
LEMMA ReleasedDescriptors ==
    ASSUME QueueInv, ReleaseBuffer
    PROVE  /\ Used \in 1 .. MaxBuffers /\ Used' = Used - 1
           /\ \A k \in 0 .. Used - 2 : Pos(k)' = Pos(k + 1) /\ Size(k)' = Size(k + 1)
<1> USE DEF QueueAssumption
<1>1. Used \in 1 .. MaxBuffers
  BY DescriptorFacts DEF QueueInv, RingLayout, LoansValid, ReleaseBuffer
<1>2. nextOutBuf' = Succ(nextOutBuf) /\ freeBuffers' = freeBuffers + 1 /\ bufRecs' = bufRecs
  BY DEF ReleaseBuffer
<1>3. Used' = Used - 1
  BY <1>1, <1>2 DEF Used, QueueInv, QueueTypeOK
<1>4. nextOutBuf \in 0 .. MaxBuffers - 1
  BY DEF QueueInv, QueueTypeOK
<1>5. \A k \in 0 .. Used - 2 : Slot(nextOutBuf', k) = Slot(nextOutBuf, k + 1)
  BY <1>4, <1>1, <1>2, SlotFacts
<1> QED BY <1>1, <1>2, <1>3, <1>5 DEF Pos, Size

\* Committing a packet keeps the layout.
LEMMA CommitKeepsLayout ==
    ASSUME QueueInv, NEW len \in Int, lentBuf # NoBuffer, Acceptable(len), SetBufferOccupied(len)
    PROVE  QueueInv'
<1> DEFINE n == Used
           P == [k \in 0 .. n |-> IF k = n THEN curData ELSE Pos(k)]
           S == [k \in 0 .. n |-> IF k = n THEN len ELSE Size(k)]
<1> USE DEF QueueAssumption
<1>1. /\ len \in 1 .. GuardBufLen
      /\ n \in 0 .. MaxBuffers - 1
      /\ MaxMemory >= GuardBufLen
      /\ curData + GuardBufLen <= MaxMemory
      /\ freeMemory >= GuardBufLen
      /\ curData \in Nat /\ freeMemory \in 0 .. MaxMemory
  BY DEF QueueInv, QueueTypeOK, RingLayout, WithinMemory, LoansValid, Acceptable, Used
<1>2. /\ freeMemory' = freeMemory - len - Skipped(curData + len)
      /\ curData' = Advance(curData + len)
      /\ nextInBuf' = Succ(nextInBuf) /\ nextOutBuf' = nextOutBuf
      /\ lentBuf' = NoBuffer /\ reading' = reading /\ rawData' = rawData
      /\ droppedPackets' = droppedPackets /\ freeBuffers' = freeBuffers - 1
      /\ bufRecs' = [bufRecs EXCEPT ![nextInBuf] = [pos |-> curData, len |-> len]]
  BY DEF SetBufferOccupied
<1>3. \A k \in 0 .. n : P[k] \in Nat /\ S[k] \in 1 .. GuardBufLen /\ P[k] + GuardBufLen <= MaxMemory
  BY <1>1, DescriptorFacts
<1>4. Used' = n + 1
  BY <1>1, <1>2 DEF Used, QueueInv, QueueTypeOK
<1>5. \A k \in 0 .. n : Pos(k)' = P[k] /\ Size(k)' = S[k]
  <2>1. \A k \in 0 .. n : /\ Pos(k)' = IF k = n THEN curData ELSE Pos(k)
                          /\ Size(k)' = IF k = n THEN len ELSE Size(k)
    BY CommittedDescriptors
  <2> QED BY <2>1

<1>6. /\ \A k \in 0 .. n - 1 : P[k] = Pos(k) /\ S[k] = Size(k)
      /\ P[n] = curData /\ S[n] = len
  BY <1>1
<1>7. \A k \in 0 .. n - 1 : P[k] + S[k] <= curData \/ curData + len <= P[k]
  <2>1. FreeMemoryExact
    BY DEF QueueInv, RingLayout
  <2>2. CASE Pos(0) < curData
    BY <2>1, <2>2, <1>1, <1>6 DEF FreeMemoryExact
  <2>3. CASE ~(Pos(0) < curData)
    <3> SUFFICES ASSUME NEW k \in 0 .. n - 1
                 PROVE  P[k] + S[k] <= curData \/ curData + len <= P[k]
      OBVIOUS
    <3>1. Pos(0) \in Nat /\ P[k] \in Nat /\ P[k] = Pos(k) /\ S[k] = Size(k) /\ Used > 0
      BY <1>1, <1>3, <1>6
    <3>2. /\ freeMemory = Pos(0) - curData
          /\ P[k] >= Pos(0) \/ P[k] + S[k] <= curData
      BY <2>1, <2>3, <1>1, <3>1 DEF FreeMemoryExact
    <3>3. len <= Pos(0) - curData
      BY <3>2, <1>1
    <3> QED BY <3>1, <3>2, <3>3, <1>1
  <2> QED BY <2>2, <2>3
<1> HIDE DEF P, S
<1>8. WithinMemory'
  <2>1. curData' + GuardBufLen <= MaxMemory
    BY <1>1, <1>2 DEF Advance, TooNearEnd
  <2>2. \A k \in 0 .. n : Size(k)' > 0 /\ Pos(k)' + GuardBufLen <= MaxMemory
    BY <1>3, <1>5
  <2> QED BY <2>1, <2>2, <1>1, <1>4 DEF WithinMemory, Pos, Size
<1>9. Chained'
  <2>1. \A k \in 0 .. n : Advance(P[k] + S[k]) = IF k = n THEN curData' ELSE P[k + 1]
    BY <1>1, <1>2, <1>6 DEF QueueInv, RingLayout, Chained
  <2> QED BY <2>1, <1>1, <1>4, <1>5 DEF Chained, Pos, Size
<1>10. Disjoint'
  <2>1. \A j, k \in 0 .. n : /\ j # k => P[j] # P[k]
                             /\ P[j] < P[k] => P[j] + S[j] <= P[k]
    BY <1>1, <1>3, <1>6, <1>7 DEF QueueInv, RingLayout, Disjoint
  <2> QED BY <2>1, <1>1, <1>4, <1>5 DEF Disjoint, Pos, Size
<1>11. /\ freeMemory' \in 0 .. MaxMemory
       /\ FreeMemoryExact'
  <2> DEFINE c == curData'
  <2>1. /\ P[0] < c => /\ freeMemory' = MaxMemory - (c - P[0])
                       /\ \A k \in 0 .. n : P[k] >= P[0] /\ P[k] + S[k] <= c
        /\ P[0] >= c => /\ freeMemory' = P[0] - c
                        /\ \A k \in 0 .. n : P[k] >= P[0] \/ P[k] + S[k] <= c
        /\ freeMemory' \in 0 .. MaxMemory
    <3>1. CASE n = 0
      BY <3>1, <1>1, <1>2, <1>3, <1>6
         DEF QueueInv, RingLayout, FreeMemoryExact, Advance, Skipped, TooNearEnd
    <3>2. CASE n > 0 /\ P[0] < curData
      <4>1. /\ freeMemory = MaxMemory - (curData - P[0])
            /\ \A k \in 0 .. n - 1 : P[k] >= P[0] /\ P[k] + S[k] <= curData
        BY <3>2, <1>1, <1>6 DEF QueueInv, RingLayout, FreeMemoryExact
      <4> QED BY <3>2, <4>1, <1>1, <1>2, <1>3, <1>6 DEF Advance, Skipped, TooNearEnd
    <3>3. CASE n > 0 /\ P[0] >= curData
      <4>1. /\ freeMemory = P[0] - curData
            /\ \A k \in 0 .. n - 1 : P[k] >= P[0] \/ P[k] + S[k] <= curData
        BY <3>3, <1>1, <1>6 DEF QueueInv, RingLayout, FreeMemoryExact
      <4> QED BY <3>3, <4>1, <1>1, <1>2, <1>3, <1>6 DEF Advance, Skipped, TooNearEnd
    <3> QED BY <3>1, <3>2, <3>3, <1>1, <1>3
  <2> QED BY <2>1, <1>1, <1>4, <1>5 DEF FreeMemoryExact, Pos, Size
<1>12. IndicesAgree'
  <2>1. nextInBuf = Slot(nextOutBuf, n) /\ nextOutBuf \in 0 .. MaxBuffers - 1
    BY DEF QueueInv, QueueTypeOK, RingLayout, IndicesAgree
  <2>2. Succ(nextInBuf) = Slot(nextOutBuf, n + 1)
    BY <2>1, <1>1, SlotFacts
  <2> QED BY <2>2, <1>2, <1>4 DEF IndicesAgree
<1>13. LoansValid'
  BY <1>1, <1>2, <1>4 DEF QueueInv, RingLayout, LoansValid
<1>14. QueueTypeOK'
  <2>1. curData' \in 0 .. MaxMemory
    BY <1>1, <1>2 DEF Advance, TooNearEnd
  <2>2. Succ(nextInBuf) \in 0 .. MaxBuffers - 1
    BY DEF QueueInv, QueueTypeOK, Succ
  <2>3. bufRecs' \in [0 .. MaxBuffers - 1 -> [pos : 0 .. MaxMemory, len : 0 .. GuardBufLen]]
    BY <1>1, <1>2 DEF QueueInv, QueueTypeOK
  <2>4. freeMemory' \in 0 .. MaxMemory
    BY <1>11
  <2>5. freeBuffers' \in 0 .. MaxBuffers
    BY <1>1, <1>2 DEF Used, QueueInv, QueueTypeOK
  <2>6. /\ nextInBuf' \in 0 .. MaxBuffers - 1 /\ nextOutBuf' \in 0 .. MaxBuffers - 1
        /\ rawData' \in [0 .. MaxMemory - 1 -> Byte] /\ reading' \in BOOLEAN
        /\ droppedPackets' \in 0 .. DropRange - 1
        /\ lentBuf' \in {NoBuffer} \cup 0 .. MaxMemory
    BY <2>2, <1>2 DEF QueueInv, QueueTypeOK
  <2> QED BY <2>1, <2>3, <2>4, <2>5, <2>6 DEF QueueTypeOK
<1> QED BY <1>8, <1>9, <1>10, <1>11, <1>12, <1>13, <1>14 DEF QueueInv, RingLayout

\* Releasing the oldest packet keeps the layout: the packet after it starts
\* where it ends, or at 0 when the bytes behind it were skipped.
LEMMA ReleaseKeepsLayout ==
    ASSUME QueueInv, ReleaseBuffer
    PROVE  QueueInv'
<1> DEFINE n == Used
           P == [k \in 0 .. n - 1 |-> Pos(k)]
           S == [k \in 0 .. n - 1 |-> Size(k)]
           last == P[0] + S[0]
<1> USE DEF QueueAssumption
<1>1. /\ n \in 1 .. MaxBuffers
      /\ freeMemory \in 0 .. MaxMemory /\ curData \in Nat
  BY DescriptorFacts DEF QueueInv, QueueTypeOK, RingLayout, LoansValid, Used, ReleaseBuffer
<1>2. \A k \in 0 .. n - 1 : /\ P[k] = Pos(k) /\ S[k] = Size(k)
                            /\ P[k] \in Nat /\ S[k] \in 1 .. GuardBufLen
                            /\ P[k] + GuardBufLen <= MaxMemory
  BY <1>1, DescriptorFacts
<1>3. /\ freeMemory' = freeMemory + S[0] + Skipped(last)
      /\ curData' = curData /\ nextInBuf' = nextInBuf /\ nextOutBuf' = Succ(nextOutBuf)
      /\ lentBuf' = lentBuf /\ reading' = FALSE /\ rawData' = rawData
      /\ droppedPackets' = droppedPackets /\ freeBuffers' = freeBuffers + 1
      /\ bufRecs' = bufRecs
  <2>1. P[0] = bufRecs[nextOutBuf].pos /\ S[0] = bufRecs[nextOutBuf].len
    <3>1. nextOutBuf \in 0 .. MaxBuffers - 1
      BY DEF QueueInv, QueueTypeOK
    <3>2. Slot(nextOutBuf, 0) = nextOutBuf
      BY <3>1, SlotFacts
    <3> QED BY <3>2, <1>1, <1>2 DEF Pos, Size
  <2> QED BY <2>1 DEF ReleaseBuffer
<1>4. Used' = n - 1
  BY ReleasedDescriptors
<1>5. \A k \in 0 .. n - 2 : Pos(k)' = P[k + 1] /\ Size(k)' = S[k + 1]
  BY <1>1, <1>2, ReleasedDescriptors
<1> HIDE DEF P, S
<1>6. \A k \in 0 .. n - 1 : Advance(P[k] + S[k]) = IF k = n - 1 THEN curData ELSE P[k + 1]
  BY <1>1, <1>2 DEF QueueInv, RingLayout, Chained
<1>7. \A j, k \in 0 .. n - 1 : /\ j # k => P[j] # P[k]
                               /\ P[j] < P[k] => P[j] + S[j] <= P[k]
  BY <1>2 DEF QueueInv, RingLayout, Disjoint
<1>8. WithinMemory'
  BY <1>1, <1>2, <1>3, <1>4, <1>5 DEF QueueInv, RingLayout, WithinMemory, Pos, Size
<1>9. Chained'
  <2>1. \A k \in 0 .. n - 2 :
           Advance(P[k + 1] + S[k + 1]) = IF k = n - 2 THEN curData ELSE P[k + 2]
    BY <1>1, <1>6
  <2> QED BY <2>1, <1>1, <1>3, <1>4, <1>5 DEF Chained, Pos, Size
<1>10. Disjoint'
  <2>1. \A j, k \in 0 .. n - 2 :
           /\ j # k => P[j + 1] # P[k + 1]
           /\ P[j + 1] < P[k + 1] => P[j + 1] + S[j + 1] <= P[k + 1]
    <3> TAKE j, k \in 0 .. n - 2
    <3>1. j + 1 \in 0 .. n - 1 /\ k + 1 \in 0 .. n - 1 /\ (j # k => j + 1 # k + 1)
      BY <1>1
    <3> QED BY <3>1, <1>7
  <2> QED BY <2>1, <1>1, <1>4, <1>5 DEF Disjoint, Pos, Size
<1>11. /\ freeMemory' \in 0 .. MaxMemory
       /\ FreeMemoryExact'
  <2>0. \A k \in 1 .. n - 1 : /\ P[k] # P[0] /\ (P[0] < P[k] => last <= P[k])
                              /\ P[k] \in Nat /\ S[k] \in 1 .. GuardBufLen
                              /\ P[k] + GuardBufLen <= MaxMemory
    <3> TAKE k \in 1 .. n - 1
    <3>1. k \in 0 .. n - 1 /\ 0 \in 0 .. n - 1 /\ k # 0
      BY <1>1
    <3> QED BY <3>1, <1>2, <1>7
  <2>1. /\ n = 1 => freeMemory' = MaxMemory
        /\ n > 1 /\ P[1] < curData =>
             /\ freeMemory' = MaxMemory - (curData - P[1])
             /\ \A k \in 1 .. n - 1 : P[k] >= P[1] /\ P[k] + S[k] <= curData
        /\ n > 1 /\ P[1] >= curData =>
             /\ freeMemory' = P[1] - curData
             /\ \A k \in 1 .. n - 1 : P[k] >= P[1] \/ P[k] + S[k] <= curData
        /\ freeMemory' \in 0 .. MaxMemory
    <3>1. CASE P[0] < curData
      <4>1. /\ freeMemory = MaxMemory - (curData - P[0])
            /\ \A k \in 0 .. n - 1 : P[k] >= P[0] /\ P[k] + S[k] <= curData
        BY <3>1, <1>1, <1>2 DEF QueueInv, RingLayout, FreeMemoryExact
      <4>2. CASE n = 1
        BY <4>1, <4>2, <3>1, <1>1, <1>2, <1>3, <1>6 DEF Advance, Skipped, TooNearEnd
      <4>3. CASE n > 1
        <5>1. P[1] = last /\ Skipped(last) = 0 /\ P[1] < curData
          <6>1. P[1] >= last /\ P[1] < curData /\ P[1] > 0
            BY <4>1, <4>3, <2>0, <1>1, <1>2
          <6>2. Advance(last) = P[1]
            BY <4>3, <1>1, <1>6
          <6> QED BY <6>1, <6>2 DEF Advance, Skipped
        <5>2. \A k \in 1 .. n - 1 : P[k] >= P[1] /\ P[k] + S[k] <= curData
          BY <5>1, <4>1, <4>3, <2>0, <1>1, <1>2
        <5> QED BY <5>1, <5>2, <4>1, <4>3, <3>1, <1>1, <1>2, <1>3
      <4> QED BY <4>2, <4>3, <1>1
    <3>2. CASE P[0] >= curData
      <4>1. /\ freeMemory = P[0] - curData
            /\ \A k \in 0 .. n - 1 : P[k] >= P[0] \/ P[k] + S[k] <= curData
        BY <3>2, <1>1, <1>2 DEF QueueInv, RingLayout, FreeMemoryExact
      <4>2. CASE n = 1
        BY <4>1, <4>2, <3>2, <1>1, <1>2, <1>3, <1>6 DEF Advance, Skipped, TooNearEnd
      <4>3. CASE n > 1 /\ TooNearEnd(last)
        <5>1. P[1] = 0 /\ Skipped(last) = MaxMemory - last
          BY <4>3, <1>1, <1>6 DEF Advance, Skipped
        <5>2. \A k \in 1 .. n - 1 : P[k] < P[0] /\ P[k] + S[k] <= curData
          BY <4>1, <4>3, <2>0, <1>1, <1>2 DEF TooNearEnd
        <5> QED BY <5>1, <5>2, <4>1, <4>3, <3>2, <1>1, <1>2, <1>3
      <4>4. CASE n > 1 /\ ~TooNearEnd(last)
        <5>1. P[1] = last /\ Skipped(last) = 0 /\ P[1] > curData
          BY <4>4, <3>2, <1>1, <1>2, <1>6 DEF Advance, Skipped
        <5>2. \A k \in 1 .. n - 1 : P[k] >= P[1] \/ P[k] + S[k] <= curData
          BY <5>1, <4>1, <4>4, <2>0, <1>1, <1>2
        <5> QED BY <5>1, <5>2, <4>1, <4>4, <3>2, <1>1, <1>2, <1>3
      <4> QED BY <4>2, <4>3, <4>4, <1>1
    <3> QED BY <3>1, <3>2, <1>1, <1>2
  <2> QED BY <2>1, <1>1, <1>3, <1>4, <1>5 DEF FreeMemoryExact, Pos, Size
<1>12. IndicesAgree'
  <2>1. nextInBuf = Slot(nextOutBuf, n) /\ nextOutBuf \in 0 .. MaxBuffers - 1
    BY DEF QueueInv, QueueTypeOK, RingLayout, IndicesAgree
  <2>2. Slot(Succ(nextOutBuf), n - 1) = Slot(nextOutBuf, n)
    BY <2>1, <1>1, SlotFacts
  <2> QED BY <2>1, <2>2, <1>3, <1>4 DEF IndicesAgree
<1>13. freeMemory' >= freeMemory
  BY <1>1, <1>2, <1>3 DEF Skipped, TooNearEnd
<1>14. LoansValid'
  BY <1>1, <1>3, <1>11, <1>13 DEF QueueInv, QueueTypeOK, RingLayout, LoansValid
<1>15. QueueTypeOK'
  <2>1. Succ(nextOutBuf) \in 0 .. MaxBuffers - 1
    BY DEF QueueInv, QueueTypeOK, Succ
  <2>2. freeBuffers' \in 0 .. MaxBuffers
    BY <1>1, <1>3 DEF QueueInv, QueueTypeOK, Used
  <2> QED BY <2>1, <2>2, <1>3, <1>11 DEF QueueInv, QueueTypeOK
<1> QED BY <1>8, <1>9, <1>10, <1>11, <1>12, <1>14, <1>15 DEF QueueInv, RingLayout

-----------------------------------------------------------------------------
\* The layout holds in the new queue.
LEMMA InitLayout == QueueInit => QueueInv
<1> SUFFICES ASSUME QueueInit PROVE QueueInv
  OBVIOUS
<1>1. Used = 0
  BY DEF QueueAssumption, QueueInit, Used
<1>2. QueueTypeOK
  <2>1. bufRecs \in [0 .. MaxBuffers - 1 ->
                        [pos : 0 .. MaxMemory, len : 0 .. GuardBufLen]]
    BY DEF QueueAssumption, QueueInit
  <2>2. rawData \in [0 .. MaxMemory - 1 -> Byte]
    BY DEF QueueAssumption, QueueInit
  <2>3. lentBuf \in {NoBuffer} \cup 0 .. MaxMemory /\ reading \in BOOLEAN
    BY DEF QueueInit
  <2> QED BY <2>1, <2>2, <2>3 DEF QueueAssumption, QueueInit, QueueTypeOK
<1>3. RingLayout
  BY <1>1 DEF QueueAssumption, QueueInit, RingLayout, IndicesAgree, WithinMemory, Chained,
              Disjoint, FreeMemoryExact, LoansValid, Slot
<1> QED BY <1>2, <1>3 DEF QueueInv

\* Every operation keeps the layout.
LEMMA StepLayout == QueueInv /\ [QueueNext]_queueVars => QueueInv'
<1> SUFFICES ASSUME QueueInv, [QueueNext]_queueVars PROVE QueueInv'
  OBVIOUS
<1>0. ASSUME UNCHANGED ring PROVE (QueueInv => WithinMemory' /\ Chained' /\ Disjoint' /\ FreeMemoryExact' /\ IndicesAgree')
  BY <1>0 DEF QueueInv, RingLayout, ring, IndicesAgree, WithinMemory, Chained, Disjoint,
              FreeMemoryExact, Used, Pos, Size
<1>1. CASE GetBufferSpace
  <2>1. QueueTypeOK' /\ UNCHANGED ring
    <3>1. UNCHANGED <<bufRecs, nextInBuf, nextOutBuf, freeBuffers, freeMemory,
                      curData, rawData, reading>>
      BY <1>1 DEF GetBufferSpace, ring
    <3>2. droppedPackets' \in 0 .. DropRange - 1
      BY <1>1 DEF QueueAssumption, GetBufferSpace, QueueInv, QueueTypeOK
    <3>3. lentBuf' \in {NoBuffer} \cup 0 .. MaxMemory
      BY <1>1 DEF GetBufferSpace, QueueInv, QueueTypeOK
    <3> QED BY <3>1, <3>2, <3>3 DEF QueueInv, QueueTypeOK, ring
  <2>2. LoansValid'
    BY <1>1 DEF QueueAssumption, GetBufferSpace, NoRoom, QueueInv, QueueTypeOK, RingLayout,
                LoansValid, ring, Used
  <2> QED BY <2>1, <2>2, <1>0 DEF QueueInv, RingLayout
<1>2. ASSUME NEW v \in Byte, NEW n \in 1 .. GuardBufLen, WriteBuffer(v, n)
      PROVE  QueueInv'
  <2>1. QueueTypeOK' /\ UNCHANGED ring
    BY <1>2 DEF WriteBuffer, QueueInv, QueueTypeOK, ring
  <2>2. LoansValid'
    BY <1>2 DEF WriteBuffer, QueueInv, RingLayout, LoansValid, ring, Used
  <2> QED BY <2>1, <2>2, <1>0 DEF QueueInv, RingLayout
<1>3. ASSUME NEW len \in 0 .. GuardBufLen + 1, SetBufferOccupied(len)
      PROVE  QueueInv'
  <2>1. CASE Acceptable(len)
    BY <2>1, <1>3, CommitKeepsLayout DEF SetBufferOccupied
  <2>2. CASE ~Acceptable(len)
    <3>1. QueueTypeOK' /\ UNCHANGED ring
      BY <2>2, <1>3 DEF SetBufferOccupied, QueueInv, QueueTypeOK, ring
    <3>2. LoansValid'
      BY <2>2, <1>3 DEF SetBufferOccupied, QueueInv, RingLayout, LoansValid, ring, Used
    <3> QED BY <3>1, <3>2, <1>0 DEF QueueInv, RingLayout
  <2> QED BY <2>1, <2>2
<1>4. CASE ReadBuffer
  <2>1. QueueTypeOK' /\ UNCHANGED ring
    BY <1>4 DEF ReadBuffer, QueueInv, QueueTypeOK, ring
  <2>2. LoansValid'
    BY <1>4 DEF ReadBuffer, QueueInv, RingLayout, LoansValid, ring, Used
  <2> QED BY <2>1, <2>2, <1>0 DEF QueueInv, RingLayout
<1>5. CASE ReleaseBuffer
  BY <1>5, ReleaseKeepsLayout
<1>6. CASE UNCHANGED queueVars
  <2>1. QueueTypeOK' /\ UNCHANGED ring
    BY <1>6 DEF queueVars, QueueInv, QueueTypeOK, ring
  <2>2. LoansValid'
    BY <1>6 DEF queueVars, ring, QueueInv, RingLayout, LoansValid, Used
  <2> QED BY <2>1, <2>2, <1>0 DEF QueueInv, RingLayout
<1> QED BY <1>1, <1>2, <1>3, <1>4, <1>5, <1>6 DEF QueueNext

\* The layout is an invariant of the queue, for every size of its rings: no
\* sequence of operations makes the counters of free descriptors and bytes
\* disagree with the packets that are queued.
THEOREM LayoutInvariant == QueueSpec => []QueueInv
<1>1. QueueInv /\ [QueueNext]_queueVars => QueueInv'
  BY StepLayout
<1> QED BY InitLayout, <1>1, PTL DEF QueueSpec

\* The variables keep their types; in particular no index leaves its ring.
THEOREM TypeCorrect == QueueSpec => []QueueTypeOK
<1>1. QueueInv => QueueTypeOK
  BY DEF QueueInv
<1> QED BY <1>1, LayoutInvariant, PTL

\* The layout of the ring, as the runs check it.
THEOREM LayoutCorrect == QueueSpec => []RingLayout
<1>1. QueueInv => RingLayout
  BY DEF QueueInv
<1> QED BY <1>1, LayoutInvariant, PTL

\* A lent buffer lies between the newest packet and the oldest one.
LEMMA LentIsFree == QueueInv => LentBufferFree
<1> SUFFICES ASSUME QueueInv, lentBuf # NoBuffer PROVE LentBufferFree
  BY DEF LentBufferFree
<1>1. /\ lentBuf = curData /\ freeMemory >= GuardBufLen
      /\ curData \in Nat /\ freeMemory \in 0 .. MaxMemory
  BY DEF QueueInv, QueueTypeOK, RingLayout, LoansValid
<1>2. curData + GuardBufLen <= MaxMemory
  BY <1>1 DEF QueueAssumption, QueueInv, RingLayout, WithinMemory
<1>3. \A k \in 0 .. Used - 1 : \/ Pos(k) + Size(k) <= curData
                               \/ curData + GuardBufLen <= Pos(k)
  <2>1. CASE Used > 0 /\ Pos(0) < curData
    BY <2>1 DEF QueueInv, RingLayout, FreeMemoryExact
  <2>2. CASE Used > 0 /\ Pos(0) >= curData
    BY <2>2, <1>1, DescriptorFacts DEF QueueAssumption, QueueInv, RingLayout, FreeMemoryExact
  <2>3. Used \in Nat /\ (Used > 0 => Pos(0) \in Nat)
    BY DescriptorFacts DEF QueueAssumption
  <2> QED BY <2>1, <2>2, <2>3, <1>1
<1> QED BY <1>1, <1>2, <1>3 DEF LentBufferFree

\* The buffer the writer fills, without a lock, never overlaps a packet the
\* reader may be working on, and never leaves the packet memory.
THEOREM WriterReaderSeparation == QueueSpec => []LentBufferFree
  BY LentIsFree, LayoutInvariant, PTL

\* An empty queue always has room for a packet of the guaranteed length.
THEOREM NoLeak == QueueSpec => []EmptyQueueAccepts
<1>1. QueueInv => EmptyQueueAccepts
  BY DEF QueueAssumption, QueueInv, QueueTypeOK, RingLayout, FreeMemoryExact, EmptyQueueAccepts,
         NoRoom, Used
<1> QED BY <1>1, LayoutInvariant, PTL

-----------------------------------------------------------------------------
(* The ring implements AbsPacketQueue. *)

USE DEF QueueAssumption

\* The bytes of the k-th packet.
Bytes(k) == [i \in 1 .. Size(k) |-> rawData[Pos(k) + i - 1]]

\* What the reader finds is a sequence of packets.
PacketsInOrder ==
    /\ Contents \in Seq(PacketData) /\ Len(Contents) = Used
    /\ \A k \in 0 .. Used - 1 : Contents[k + 1] = Bytes(k)

LEMMA ContentsFacts == QueueInv => PacketsInOrder
<1> SUFFICES ASSUME QueueInv PROVE PacketsInOrder
  OBVIOUS
<1>1. /\ Used \in 0 .. MaxBuffers
      /\ \A k \in 0 .. Used - 1 : /\ Pos(k) \in Nat /\ Size(k) \in 1 .. GuardBufLen
                                  /\ Pos(k) + GuardBufLen <= MaxMemory
  BY DescriptorFacts
<1>2. rawData \in [0 .. MaxMemory - 1 -> Byte]
  BY DEF QueueInv, QueueTypeOK
<1>3. ASSUME NEW k \in 0 .. Used - 1 PROVE Bytes(k) \in PacketData
  <2>1. \A i \in 1 .. Size(k) : rawData[Pos(k) + i - 1] \in Byte
    BY <1>1, <1>2
  <2>2. Bytes(k) \in [1 .. Size(k) -> Byte]
    BY <2>1 DEF Bytes
  <2> QED BY <1>1, <2>2 DEF PacketData
<1>4. Contents = [k \in 1 .. Used |-> Bytes(k - 1)]
  BY DEF Contents, Bytes
<1>5. \A k \in 1 .. Used : k - 1 \in 0 .. Used - 1
  BY <1>1
<1>6. Contents \in [1 .. Used -> PacketData]
  BY <1>3, <1>4, <1>5
<1>7. \A k \in 0 .. Used - 1 : k + 1 \in 1 .. Used /\ (k + 1) - 1 = k
  BY <1>1
<1> QED BY <1>1, <1>4, <1>6, <1>7 DEF PacketsInOrder

LEMMA ContentsFactsNext == QueueInv' => PacketsInOrder'
  BY ContentsFacts, PTL

\* A step that leaves the packets where they are, and their bytes, leaves the
\* contents.
LEMMA SameContents ==
    ASSUME QueueInv, Used' = Used,
           \A k \in 0 .. Used - 1 :
              /\ Pos(k)' = Pos(k) /\ Size(k)' = Size(k)
              /\ \A i \in 1 .. Size(k) : rawData'[Pos(k) + i - 1] = rawData[Pos(k) + i - 1]
    PROVE  Contents' = Contents
<1>1. Used \in 0 .. MaxBuffers
  BY DescriptorFacts
<1>2. \A k \in 0 .. Used - 1 : Bytes(k)' = Bytes(k)
  BY DEF Bytes
<1>3. \A k \in 1 .. Used : k - 1 \in 0 .. Used - 1
  BY <1>1
<1>4. Contents = [k \in 1 .. Used |-> Bytes(k - 1)]
  BY DEF Contents, Bytes
<1>5. Contents' = [k \in 1 .. Used' |-> Bytes(k - 1)']
  BY DEF Contents, Bytes
<1> QED BY <1>2, <1>3, <1>4, <1>5

\* What the writer stores in its buffer is not part of a queued packet.
LEMMA WriteKeepsContents ==
    ASSUME QueueInv, NEW v \in Byte, NEW n \in 1 .. GuardBufLen, WriteBuffer(v, n)
    PROVE  Contents' = Contents /\ UNCHANGED <<lentBuf, reading>>
<1>1. /\ lentBuf # NoBuffer /\ UNCHANGED <<ring, lentBuf, reading>>
      /\ rawData' = [b \in 0 .. MaxMemory - 1 |->
                       IF lentBuf <= b /\ b < lentBuf + n THEN v ELSE rawData[b]]
  BY DEF WriteBuffer
<1>2. Used' = Used /\ \A k \in 0 .. Used - 1 : Pos(k)' = Pos(k) /\ Size(k)' = Size(k)
  BY <1>1 DEF ring, Used, Pos, Size
<1>3. LentBufferFree /\ lentBuf \in Int
  BY LentIsFree DEF QueueInv, QueueTypeOK
<1>4. ASSUME NEW k \in 0 .. Used - 1, NEW i \in 1 .. Size(k)
      PROVE  rawData'[Pos(k) + i - 1] = rawData[Pos(k) + i - 1]
  <2>1. /\ Pos(k) \in Nat /\ Size(k) \in 1 .. GuardBufLen
        /\ Pos(k) + GuardBufLen <= MaxMemory
    BY DescriptorFacts
  <2>2. Pos(k) + Size(k) <= lentBuf \/ lentBuf + GuardBufLen <= Pos(k)
    BY <1>1, <1>3 DEF LentBufferFree
  <2>3. Pos(k) + i - 1 \in 0 .. MaxMemory - 1
    BY <2>1
  <2>4. ~(lentBuf <= Pos(k) + i - 1 /\ Pos(k) + i - 1 < lentBuf + n)
    BY <1>3, <2>1, <2>2
  <2> QED BY <1>1, <2>3, <2>4
<1> QED BY <1>1, <1>2, <1>4, SameContents

\* A commit queues the bytes of the lent buffer.
LEMMA CommitAppends ==
    ASSUME QueueInv, NEW len \in Int, lentBuf # NoBuffer, Acceptable(len), SetBufferOccupied(len)
    PROVE  \E d \in PacketData : Abs!SetBufferOccupied(d)
<1> DEFINE d == [i \in 1 .. len |-> rawData[curData + i - 1]]
<1>1. /\ len \in 1 .. GuardBufLen /\ Used \in 0 .. MaxBuffers - 1
      /\ curData \in Nat /\ curData + GuardBufLen <= MaxMemory
  BY DEF QueueInv, QueueTypeOK, RingLayout, WithinMemory, LoansValid, Acceptable, Used
<1>2. rawData' = rawData /\ reading' = reading /\ lentBuf' = NoBuffer
  BY DEF SetBufferOccupied
<1>3. d \in PacketData
  <2>1. \A i \in 1 .. len : rawData[curData + i - 1] \in Byte
    BY <1>1 DEF QueueInv, QueueTypeOK
  <2>2. d \in [1 .. len -> Byte]
    BY <2>1
  <2> QED BY <1>1, <2>2 DEF PacketData
<1>4. QueueInv'
  BY CommitKeepsLayout
<1>5. /\ Used' = Used + 1
      /\ \A k \in 0 .. Used : /\ Pos(k)' = IF k = Used THEN curData ELSE Pos(k)
                              /\ Size(k)' = IF k = Used THEN len ELSE Size(k)
  BY CommittedDescriptors
<1>6. \A k \in 0 .. Used : Bytes(k)' = IF k = Used THEN d ELSE Bytes(k)
  BY <1>2, <1>5 DEF Bytes
<1> HIDE DEF d
<1>7. /\ Contents \in Seq(PacketData) /\ Len(Contents) = Used
      /\ \A k \in 0 .. Used - 1 : Contents[k + 1] = Bytes(k)
  BY ContentsFacts DEF PacketsInOrder
<1>8. /\ Contents' \in Seq(PacketData) /\ Len(Contents') = Used + 1
      /\ \A k \in 0 .. Used : Contents'[k + 1] = Bytes(k)'
  <2>1. /\ Contents' \in Seq(PacketData) /\ Len(Contents') = Used'
        /\ \A k \in 0 .. Used' - 1 : Contents'[k + 1] = Bytes(k)'
    BY <1>4, ContentsFactsNext DEF PacketsInOrder
  <2>2. (Used + 1) - 1 = Used
    BY <1>1
  <2> QED BY <1>5, <2>1, <2>2
<1>9. Contents' = Append(Contents, d)
  <2>1. /\ Append(Contents, d) \in Seq(PacketData) /\ Len(Append(Contents, d)) = Used + 1
        /\ Append(Contents, d)[Used + 1] = d
        /\ \A i \in 1 .. Used : Append(Contents, d)[i] = Contents[i]
    BY <1>3, <1>7, AppendProperties
  <2>2. ASSUME NEW i \in 1 .. Used + 1 PROVE Contents'[i] = Append(Contents, d)[i]
    <3>1. i - 1 \in 0 .. Used /\ (i - 1) + 1 = i
      BY <1>1
    <3>2. Contents'[i] = IF i - 1 = Used THEN d ELSE Bytes(i - 1)
      BY <1>6, <1>8, <3>1
    <3>3. CASE i = Used + 1
      BY <1>1, <2>1, <3>2, <3>3
    <3>4. CASE i # Used + 1
      <4>1. i \in 1 .. Used /\ i - 1 \in 0 .. Used - 1 /\ i - 1 # Used
        BY <1>1, <3>4
      <4> QED BY <1>7, <2>1, <3>1, <3>2, <4>1
    <3> QED BY <3>3, <3>4
  <2> QED BY <1>8, <2>1, <2>2, SeqEqual
<1>10. Len(Contents) < MaxBuffers
  BY <1>1, <1>7
<1> QED BY <1>2, <1>3, <1>9, <1>10 DEF Abs!SetBufferOccupied

\* A release takes the oldest packet from the queue, and no other.
LEMMA ReleaseRemovesOldest == QueueInv /\ ReleaseBuffer => Abs!ReleaseBuffer
<1> SUFFICES ASSUME QueueInv, ReleaseBuffer PROVE Abs!ReleaseBuffer
  OBVIOUS
<1>1. reading /\ reading' = FALSE /\ rawData' = rawData /\ lentBuf' = lentBuf
  BY DEF ReleaseBuffer
<1>2. /\ Used \in 1 .. MaxBuffers /\ Used' = Used - 1
      /\ \A k \in 0 .. Used - 2 : Pos(k)' = Pos(k + 1) /\ Size(k)' = Size(k + 1)
  BY ReleasedDescriptors
<1>3. \A k \in 0 .. Used - 2 : Bytes(k)' = Bytes(k + 1)
  BY <1>1, <1>2 DEF Bytes
<1>4. /\ Contents \in Seq(PacketData) /\ Len(Contents) = Used
      /\ \A k \in 0 .. Used - 1 : Contents[k + 1] = Bytes(k)
  BY ContentsFacts DEF PacketsInOrder
<1>5. /\ Contents' \in Seq(PacketData) /\ Len(Contents') = Used - 1
      /\ \A k \in 0 .. Used - 2 : Contents'[k + 1] = Bytes(k)'
  <2>1. /\ Contents' \in Seq(PacketData) /\ Len(Contents') = Used'
        /\ \A k \in 0 .. Used' - 1 : Contents'[k + 1] = Bytes(k)'
    BY ReleaseKeepsLayout, ContentsFactsNext DEF PacketsInOrder
  <2>2. (Used - 1) - 1 = Used - 2
    BY <1>2
  <2> QED BY <1>2, <2>1, <2>2
<1>6. Contents' = Tail(Contents)
  <2>1. /\ Tail(Contents) \in Seq(PacketData) /\ Len(Tail(Contents)) = Used - 1
        /\ \A i \in 1 .. Used - 1 : Tail(Contents)[i] = Contents[i + 1]
    <3>1. Contents # <<>>
      BY <1>2, <1>4
    <3> QED BY <1>4, <3>1, HeadTailProperties
  <2>2. ASSUME NEW i \in 1 .. Used - 1 PROVE Contents'[i] = Tail(Contents)[i]
    <3>1. i - 1 \in 0 .. Used - 2 /\ (i - 1) + 1 = i /\ i \in 0 .. Used - 1
      BY <1>2
    <3>2. Contents'[i] = Bytes(i)
      BY <1>3, <1>5, <3>1
    <3> QED BY <1>4, <2>1, <3>1, <3>2
  <2> QED BY <1>5, <2>1, <2>2, SeqEqual
<1> QED BY <1>1, <1>6 DEF Abs!ReleaseBuffer

\* Every step of the ring is one of the abstract queue, or changes nothing
\* there: a buffer is refused only while a packet is queued, or none was lent.
LEMMA StepRefines == QueueInv /\ [QueueNext]_queueVars => [Abs!Next]_Abs!vars
<1> SUFFICES ASSUME QueueInv, [QueueNext]_queueVars PROVE [Abs!Next]_Abs!vars
  OBVIOUS
<1>0. /\ Used \in 0 .. MaxBuffers
      /\ Contents \in Seq(PacketData) /\ Len(Contents) = Used
  BY DescriptorFacts, ContentsFacts DEF PacketsInOrder
<1>1. ASSUME UNCHANGED <<ring, rawData>> PROVE Contents' = Contents
  <2>1. Used' = Used /\ \A k \in 0 .. Used - 1 : Pos(k)' = Pos(k) /\ Size(k)' = Size(k)
    BY <1>1 DEF ring, Used, Pos, Size
  <2> QED BY <1>1, <2>1, SameContents
<1>2. CASE GetBufferSpace
  <2>1. Contents' = Contents /\ reading' = reading
    BY <1>1, <1>2 DEF GetBufferSpace
  <2>2. CASE NoRoom
    <3>1. lentBuf' = NoBuffer
      BY <1>2, <2>2 DEF GetBufferSpace
    <3>2. CASE Used > 0
      <4>1. Contents # <<>>
        BY <1>0, <3>2
      <4> QED BY <2>1, <3>1, <4>1 DEF Abs!Next, Abs!GetBufferSpace
    <3>3. CASE Used = 0
      <4>1. lentBuf = NoBuffer
        BY <2>2 DEF NoRoom, QueueInv, QueueTypeOK, RingLayout, LoansValid
      <4> QED BY <2>1, <3>1, <4>1 DEF Abs!vars
    <3> QED BY <1>0, <3>2, <3>3
  <2>3. CASE ~NoRoom
    <3>1. lentBuf' # NoBuffer
      BY <1>2, <2>3 DEF GetBufferSpace, QueueInv, QueueTypeOK
    <3> QED BY <2>1, <3>1 DEF Abs!Next, Abs!GetBufferSpace
  <2> QED BY <2>2, <2>3
<1>3. ASSUME NEW v \in Byte, NEW n \in 1 .. GuardBufLen, WriteBuffer(v, n)
      PROVE  [Abs!Next]_Abs!vars
  BY <1>3, WriteKeepsContents DEF Abs!vars
<1>4. ASSUME NEW len \in 0 .. GuardBufLen + 1, SetBufferOccupied(len)
      PROVE  [Abs!Next]_Abs!vars
  <2>1. lentBuf # NoBuffer
    BY <1>4 DEF SetBufferOccupied
  <2>2. CASE Acceptable(len)
    BY <1>4, <2>1, <2>2, CommitAppends DEF Abs!Next
  <2>3. CASE ~Acceptable(len)
    <3>1. UNCHANGED <<ring, rawData, reading>> /\ lentBuf' = NoBuffer
      BY <1>4, <2>3 DEF SetBufferOccupied
    <3> QED BY <1>1, <2>1, <3>1 DEF Abs!Next, Abs!Abandon
  <2> QED BY <2>2, <2>3
<1>5. CASE ReadBuffer
  <2>1. Contents' = Contents /\ Contents # <<>>
    BY <1>0, <1>1, <1>5 DEF ReadBuffer
  <2> QED BY <1>5, <2>1 DEF ReadBuffer, Abs!Next, Abs!ReadBuffer
<1>6. CASE ReleaseBuffer
  BY <1>6, ReleaseRemovesOldest DEF Abs!Next
<1>7. CASE UNCHANGED queueVars
  BY <1>1, <1>7 DEF queueVars, Abs!vars
<1> QED BY <1>2, <1>3, <1>4, <1>5, <1>6, <1>7 DEF QueueNext

\* The ring implements the abstract queue: readBuffer and releaseBuffer see
\* the packets setBufferOccupied committed, in their order and unchanged, and
\* getBufferSpace refuses only while a packet waits to be processed.
THEOREM ImplementsQueue == QueueSpec => AbsSpec
<1>1. QueueInit => Abs!Init
  <2> SUFFICES ASSUME QueueInit PROVE Abs!Init
    OBVIOUS
  <2>1. Len(Contents) = 0 /\ Contents \in Seq(PacketData) /\ Used = 0
    BY InitLayout, ContentsFacts DEF PacketsInOrder, QueueInit, Used
  <2>2. Contents = <<>>
    BY <2>1
  <2> QED BY <2>2 DEF QueueInit, Abs!Init
<1>2. QueueInv /\ [QueueNext]_queueVars => [Abs!Next]_Abs!vars
  BY StepRefines
<1> QED BY <1>1, <1>2, LayoutInvariant, PTL DEF QueueSpec, AbsSpec, Abs!Spec

HIDE QueueAssumption DEF QueueAssumption, NoBuffer

-----------------------------------------------------------------------------
(* The threads around it *)

Packet == 1 .. NPackets

\* What is queued comes after what was queued: packets are read one by one,
\* and the one in the buffer, at cpc = "commit", is the last of them.
ReadBeforeQueued ==
    Len(committed) + (IF cpc = "commit" THEN 1 ELSE 0) <= next - 1

\* The processor has taken the oldest packet exactly while it works on it.
TakenWhileAtWork ==
    /\ taken <=> ppc \in {"process", "release"}
    /\ taken => q # <<>>

\* A processor without a thread works only while the meter lets it.
WorksInTurn ==
    ~Threaded("processor") =>
        /\ ppc \in {"idle", "read", "process", "release"}
        /\ mpc # "process" => ppc = "idle"

\* Without threads a round queues at most one packet, and ends when it is
\* processed.
RoundByRound ==
    ~Threaded("processor") =>
        /\ ~Threaded("classifier")
        /\ Len(q) <= 1
        /\ cpc # "idle" => mpc = "signals" /\ q = <<>>
        /\ q # <<>> => mpc = "signals" \/ (mpc = "process" /\ ppc # "idle")

\* What is owed was queued, and is paid when the meter exports.
PaidBeforeExport == owed <= Len(committed) /\ DrainedBeforeExport

\* The inductive invariant: the properties, and what each needs to survive a
\* step.
IInv ==
    /\ TypeOK
    /\ ProcessedOnceInOrder
    /\ SleepsOnlyWhenEmpty
    /\ ReadBeforeQueued
    /\ TakenWhileAtWork
    /\ WorksInTurn
    /\ RoundByRound
    /\ PaidBeforeExport

USE PipelineAssumption

-----------------------------------------------------------------------------
(* Queues. *)

\* What is appended to a queue is appended to its tail.
LEMMA AppendToWaiting ==
    ASSUME NEW S, NEW w \in Seq(S), NEW d \in S
    PROVE  /\ Append(w, d) \in Seq(S) /\ Append(w, d) # <<>>
           /\ Len(Append(w, d)) = Len(w) + 1
           /\ w # <<>> => Tail(Append(w, d)) = Append(Tail(w), d)
OBVIOUS

\* Packet d queued behind what waits comes after all that was queued before.
LEMMA AppendToSecond ==
    ASSUME NEW d \in Packet, processed \in Seq(Packet), Waiting \in Seq(Packet)
    PROVE  Append(processed \o Waiting, d) = processed \o Append(Waiting, d)
OBVIOUS

\* Moving the head of a queue to the end of another one in front of it leaves
\* the two together as they were.
LEMMA MoveHead ==
    ASSUME NEW S, NEW p \in Seq(S), NEW w \in Seq(S), w # <<>>
    PROVE  /\ Append(p, Head(w)) \o Tail(w) = p \o w
           /\ Head(w) \in S /\ Tail(w) \in Seq(S)
OBVIOUS

-----------------------------------------------------------------------------
\* At the start nothing is queued and nobody is at work.
LEMMA InitLemma == Init => IInv
<1> SUFFICES ASSUME Init PROVE IInv
  OBVIOUS
<1>1. q = <<>> /\ committed = <<>> /\ processed = <<>> /\ lent = FALSE /\ taken = FALSE
  BY DEF Init, Q!Init
<1>2. ppc \in {"idle", "read"} /\ cpc \in {"idle", "reserve"} /\ mpc = "loop"
      /\ locked = FALSE /\ sig = FALSE /\ eof = FALSE /\ stop = FALSE /\ owed = 0
  BY DEF Init
<1>3. arrived \in 0 .. NPackets /\ next = 1 /\ online \in BOOLEAN
  BY DEF Init
<1>4. threaded \subseteq {"classifier", "processor"}
  BY DEF Init
<1>5. q \in Seq(1 .. NPackets) /\ committed \in Seq(1 .. NPackets)
      /\ processed \in Seq(1 .. NPackets)
  BY <1>1
<1>6. TypeOK
  <2>1. next \in 1 .. arrived + 1 /\ owed \in 0 .. NPackets
    BY <1>2, <1>3
  <2> QED BY <1>1, <1>2, <1>3, <1>4, <1>5, <2>1 DEF TypeOK
<1>7. ProcessedOnceInOrder
  BY <1>1, <1>2 DEF ProcessedOnceInOrder, Waiting
<1>8. ReadBeforeQueued
  BY <1>1, <1>2, <1>3 DEF ReadBeforeQueued
<1>9. WorksInTurn
  BY DEF Init, WorksInTurn, Threaded
<1>10. RoundByRound
  <2>1. ~Threaded("processor") => ~Threaded("classifier") /\ cpc = "idle"
    BY DEF Init, Threaded
  <2> QED BY <1>1, <2>1 DEF RoundByRound
<1>11. PaidBeforeExport
  BY <1>1, <1>2 DEF PaidBeforeExport, DrainedBeforeExport
<1>12. SleepsOnlyWhenEmpty /\ TakenWhileAtWork
  BY <1>1, <1>2 DEF SleepsOnlyWhenEmpty, TakenWhileAtWork
<1> QED BY <1>6, <1>7, <1>8, <1>9, <1>10, <1>11, <1>12 DEF IInv

\* Steps of the classifier: only Commit changes what is queued.
LEMMA ClassifierLemma == IInv /\ ClassifierStep => IInv'
<1> SUFFICES ASSUME IInv, ClassifierStep PROVE IInv'
  OBVIOUS
<1> USE DEF IInv
<1>1. CASE Reserve
  <2>1. TypeOK'
    <3>1. lent' \in BOOLEAN /\ taken' \in BOOLEAN /\ q' \in Seq(1 .. NPackets)
      BY <1>1 DEF Reserve, Q!GetBufferSpace, TypeOK
    <3>2. cpc' \in {"idle", "reserve", "fill", "commit"}
      BY <1>1 DEF Reserve, Returned
    <3> QED BY <1>1, <3>1, <3>2 DEF Reserve, ClassifierOnly, config, TypeOK
  <2>2. ProcessedOnceInOrder'
    BY <1>1 DEF Reserve, Q!GetBufferSpace, ClassifierOnly,
       ProcessedOnceInOrder, Waiting
  <2>3. SleepsOnlyWhenEmpty'
    BY <1>1 DEF Reserve, Q!GetBufferSpace, ClassifierOnly, SleepsOnlyWhenEmpty
  <2>4. ReadBeforeQueued'
    BY <1>1 DEF Reserve, Q!GetBufferSpace, ClassifierOnly, Returned,
       ReadBeforeQueued
  <2>5. TakenWhileAtWork'
    BY <1>1 DEF Reserve, Q!GetBufferSpace, ClassifierOnly, TakenWhileAtWork
  <2>6. WorksInTurn'
    BY <1>1 DEF Reserve, Q!GetBufferSpace, ClassifierOnly, config,
       WorksInTurn, Threaded
  <2>7. RoundByRound'
    BY <1>1 DEF Reserve, Q!GetBufferSpace, ClassifierOnly, config,
       RoundByRound, Threaded
  <2>8. PaidBeforeExport'
    BY <1>1 DEF Reserve, Q!GetBufferSpace, ClassifierOnly, PaidBeforeExport,
       DrainedBeforeExport
  <2> QED BY <2>1, <2>2, <2>3, <2>4, <2>5, <2>6, <2>7, <2>8
<1>2. CASE Fill
  <2>1. TypeOK'
    BY <1>2 DEF Fill, ClassifierOnly, Returned, queue, config, TypeOK
  <2>2. ProcessedOnceInOrder'
    BY <1>2 DEF Fill, ClassifierOnly, queue, ProcessedOnceInOrder, Waiting
  <2>3. SleepsOnlyWhenEmpty'
    BY <1>2 DEF Fill, ClassifierOnly, queue, SleepsOnlyWhenEmpty
  <2>4. ReadBeforeQueued'
    BY <1>2 DEF Fill, ClassifierOnly, ReadBeforeQueued, TypeOK
  <2>5. TakenWhileAtWork'
    BY <1>2 DEF Fill, ClassifierOnly, queue, TakenWhileAtWork
  <2>6. WorksInTurn'
    BY <1>2 DEF Fill, ClassifierOnly, config, WorksInTurn, Threaded
  <2>7. RoundByRound'
    BY <1>2 DEF Fill, ClassifierOnly, queue, config, RoundByRound, Threaded
  <2>8. PaidBeforeExport'
    BY <1>2 DEF Fill, ClassifierOnly, PaidBeforeExport, DrainedBeforeExport
  <2> QED BY <2>1, <2>2, <2>3, <2>4, <2>5, <2>6, <2>7, <2>8
<1>3. CASE FillNothing
  <2>1. TypeOK'
    <3>1. sig' \in BOOLEAN /\ eof' \in BOOLEAN /\ stop' \in BOOLEAN
      BY <1>3 DEF FillNothing, TypeOK
    <3>2. cpc' \in {"idle", "reserve", "fill", "commit"}
      BY <1>3 DEF FillNothing, Returned
    <3> QED BY <1>3, <3>1, <3>2 DEF FillNothing, ClassifierOnly, queue, config, TypeOK
  <2>2. ProcessedOnceInOrder'
    BY <1>3 DEF FillNothing, ClassifierOnly, queue, ProcessedOnceInOrder,
       Waiting
  <2>3. SleepsOnlyWhenEmpty'
    BY <1>3 DEF FillNothing, ClassifierOnly, queue, SleepsOnlyWhenEmpty
  <2>4. ReadBeforeQueued'
    BY <1>3 DEF FillNothing, ClassifierOnly, Returned, ReadBeforeQueued
  <2>5. TakenWhileAtWork'
    BY <1>3 DEF FillNothing, ClassifierOnly, queue, TakenWhileAtWork
  <2>6. WorksInTurn'
    BY <1>3 DEF FillNothing, ClassifierOnly, config, WorksInTurn, Threaded
  <2>7. RoundByRound'
    BY <1>3 DEF FillNothing, ClassifierOnly, queue, config, RoundByRound,
       Threaded
  <2>8. PaidBeforeExport'
    BY <1>3 DEF FillNothing, ClassifierOnly, PaidBeforeExport,
       DrainedBeforeExport
  <2> QED BY <2>1, <2>2, <2>3, <2>4, <2>5, <2>6, <2>7, <2>8
<1>4. CASE CommitFails
  <2>1. TypeOK'
    <3>1. cpc' \in {"idle", "reserve", "fill", "commit"}
      BY <1>4 DEF CommitFails, Returned
    <3>2. /\ lent' \in BOOLEAN
          /\ UNCHANGED <<threaded, online, arrived, next, q, taken, committed,
                         processed, ppc, mpc, locked, sig, eof, stop, owed>>
      BY <1>4 DEF CommitFails, Q!Abandon, ClassifierOnly, config
    <3> QED BY <3>1, <3>2 DEF TypeOK
  <2>2. ProcessedOnceInOrder'
    BY <1>4 DEF CommitFails, Q!Abandon, ClassifierOnly,
       ProcessedOnceInOrder, Waiting
  <2>3. SleepsOnlyWhenEmpty'
    BY <1>4 DEF CommitFails, Q!Abandon, ClassifierOnly, SleepsOnlyWhenEmpty
  <2>4. ReadBeforeQueued'
    BY <1>4 DEF CommitFails, Q!Abandon, ClassifierOnly, ReadBeforeQueued, TypeOK
  <2>5. TakenWhileAtWork'
    BY <1>4 DEF CommitFails, Q!Abandon, ClassifierOnly, TakenWhileAtWork
  <2>6. WorksInTurn'
    BY <1>4 DEF CommitFails, Q!Abandon, ClassifierOnly, config, WorksInTurn,
       Threaded
  <2>7. RoundByRound'
    BY <1>4 DEF CommitFails, Q!Abandon, ClassifierOnly, config,
       RoundByRound, Threaded
  <2>8. PaidBeforeExport'
    BY <1>4 DEF CommitFails, Q!Abandon, ClassifierOnly, PaidBeforeExport,
       DrainedBeforeExport
  <2> QED BY <2>1, <2>2, <2>3, <2>4, <2>5, <2>6, <2>7, <2>8
<1>5. CASE Commit
  <2>1. /\ q' = Append(q, next - 1) /\ committed' = Append(committed, next - 1)
        /\ lent' = FALSE /\ taken' = taken
        /\ ppc' = Wakened(ppc) /\ cpc' = Returned
        /\ UNCHANGED <<threaded, online, arrived, next, processed, mpc, locked, sig, eof,
                       stop, owed>>
    BY <1>5 DEF Commit, Q!SetBufferOccupied, config
  <2>2. next - 1 \in Packet
    BY <1>5 DEF Commit, ReadBeforeQueued, TypeOK, Packet
  <2>3. q' \in Seq(Packet) /\ committed' \in Seq(Packet) /\ Len(committed') = Len(committed) + 1
        /\ Len(q') = Len(q) + 1 /\ q' # <<>>
    <3>1. q \in Seq(Packet) /\ committed \in Seq(Packet)
      BY DEF TypeOK, Packet
    <3> QED BY <2>1, <2>2, <3>1, AppendToWaiting
  <2>4. TypeOK'
    <3>1. q' \in Seq(1 .. NPackets) /\ committed' \in Seq(1 .. NPackets)
      BY <2>3 DEF Packet
    <3>2. ppc' \in {"idle", "read", "asleep", "process", "release", "test", "signal"}
      BY <2>1 DEF Wakened, TypeOK
    <3>3. cpc' \in {"idle", "reserve", "fill", "commit"}
      BY <2>1 DEF Returned
    <3> QED BY <2>1, <3>1, <3>2, <3>3 DEF TypeOK
  <2>5. ReadBeforeQueued'
    BY <1>5, <2>1, <2>3 DEF ReadBeforeQueued, Commit, Returned, TypeOK
  <2>6. SleepsOnlyWhenEmpty'
    <3>1. ppc = "asleep" => Len(q') = 1
      BY <2>3 DEF SleepsOnlyWhenEmpty
    <3> QED BY <2>1, <3>1 DEF SleepsOnlyWhenEmpty, Wakened
  <2>7. ppc' = "release" <=> ppc = "release"
    BY <2>1 DEF Wakened
  <2>8. ProcessedOnceInOrder'
    <3>1. q \in Seq(Packet) /\ processed \in Seq(Packet)
      BY DEF TypeOK, Packet
    <3>2. Waiting' = Append(Waiting, next - 1) /\ Waiting \in Seq(Packet)
      <4>1. CASE ppc = "release"
        <5>1. q # <<>>
          BY <4>1 DEF TakenWhileAtWork
        <5>2. Tail(Append(q, next - 1)) = Append(Tail(q), next - 1) /\ Tail(q) \in Seq(Packet)
          BY <5>1, <3>1, <2>2, AppendToWaiting, MoveHead
        <5> QED BY <4>1, <5>2, <2>1, <2>7 DEF Waiting
      <4>2. CASE ppc # "release"
        BY <4>2, <3>1, <2>1, <2>7 DEF Waiting
      <4> QED BY <4>1, <4>2
    <3>3. Append(processed \o Waiting, next - 1) = processed \o Append(Waiting, next - 1)
      BY <2>2, <3>1, <3>2, AppendToSecond
    <3> QED BY <2>1, <3>2, <3>3 DEF ProcessedOnceInOrder
  <2>9. TakenWhileAtWork' /\ WorksInTurn'
    BY <2>1, <2>3 DEF TakenWhileAtWork, WorksInTurn, Wakened, Threaded
  <2>10. RoundByRound'
    <3>1. Threaded("processor")' = Threaded("processor")
          /\ Threaded("classifier")' = Threaded("classifier")
      BY <2>1 DEF Threaded
    <3>2. CASE ~Threaded("processor")
      <4>1. cpc = "commit" /\ q = <<>> /\ mpc = "signals" /\ ~Threaded("classifier")
        BY <1>5, <3>2 DEF Commit, RoundByRound
      <4>2. Len(q') = 1 /\ cpc' = "idle" /\ mpc' = "signals"
        BY <4>1, <2>1, <2>3 DEF Returned
      <4> QED BY <3>1, <4>1, <4>2 DEF RoundByRound
    <3> QED BY <3>1, <3>2 DEF RoundByRound
  <2>11. PaidBeforeExport'
    <3>1. owed \in Nat /\ Len(committed) \in Nat
      BY DEF TypeOK
    <3> QED BY <2>1, <2>3, <3>1 DEF PaidBeforeExport, DrainedBeforeExport
  <2> QED BY <2>4, <2>5, <2>6, <2>8, <2>9, <2>10, <2>11
<1> QED BY <1>1, <1>2, <1>3, <1>4, <1>5 DEF ClassifierStep

\* Steps of the processor: Process moves a packet from the queue to those
\* that were processed, Release gives its buffer back.
LEMMA ProcessorLemma == IInv /\ (ProcessorStep \/ SpuriousWakeup) => IInv'
<1> SUFFICES ASSUME IInv, ProcessorStep \/ SpuriousWakeup PROVE IInv'
  OBVIOUS
<1> USE DEF IInv
<1>1. CASE Read
  <2>1. TypeOK'
    <3>1. taken' \in BOOLEAN /\ q' = q /\ lent' = lent
      BY <1>1 DEF Read, Q!ReadBuffer, queue, TypeOK
    <3>2. ppc' \in {"idle", "read", "asleep", "process", "release", "test", "signal"}
      BY <1>1 DEF Read
    <3> QED BY <1>1, <3>1, <3>2 DEF Read, ProcessorOnly, config, TypeOK
  <2>2. ProcessedOnceInOrder'
    BY <1>1 DEF Read, Q!ReadBuffer, ProcessorOnly, queue,
       ProcessedOnceInOrder, Waiting
  <2>3. SleepsOnlyWhenEmpty'
    BY <1>1 DEF Read, Q!ReadBuffer, ProcessorOnly, queue, SleepsOnlyWhenEmpty
  <2>4. ReadBeforeQueued'
    BY <1>1 DEF Read, Q!ReadBuffer, ProcessorOnly, ReadBeforeQueued
  <2>5. TakenWhileAtWork'
    BY <1>1 DEF Read, Q!ReadBuffer, ProcessorOnly, queue, TakenWhileAtWork
  <2>6. WorksInTurn'
    BY <1>1 DEF Read, Q!ReadBuffer, ProcessorOnly, config, Threaded, WorksInTurn
  <2>7. RoundByRound'
    BY <1>1 DEF Read, Q!ReadBuffer, ProcessorOnly, queue, config, Threaded,
       RoundByRound
  <2>8. PaidBeforeExport'
    BY <1>1 DEF Read, Q!ReadBuffer, ProcessorOnly, PaidBeforeExport,
       DrainedBeforeExport
  <2> QED BY <2>1, <2>2, <2>3, <2>4, <2>5, <2>6, <2>7, <2>8
<1>2. CASE SpuriousWakeup
  <2>1. TypeOK'
    BY <1>2 DEF SpuriousWakeup, ProcessorOnly, queue, config, TypeOK
  <2>2. ProcessedOnceInOrder'
    BY <1>2 DEF SpuriousWakeup, ProcessorOnly, queue, ProcessedOnceInOrder,
       Waiting
  <2>3. SleepsOnlyWhenEmpty'
    BY <1>2 DEF SpuriousWakeup, ProcessorOnly, SleepsOnlyWhenEmpty
  <2>4. ReadBeforeQueued'
    BY <1>2 DEF SpuriousWakeup, ProcessorOnly, ReadBeforeQueued
  <2>5. TakenWhileAtWork'
    BY <1>2 DEF SpuriousWakeup, ProcessorOnly, queue, TakenWhileAtWork
  <2>6. WorksInTurn'
    BY <1>2 DEF SpuriousWakeup, ProcessorOnly, config, WorksInTurn, Threaded
  <2>7. RoundByRound'
    BY <1>2 DEF SpuriousWakeup, ProcessorOnly, queue, config, RoundByRound,
       Threaded
  <2>8. PaidBeforeExport'
    BY <1>2 DEF SpuriousWakeup, ProcessorOnly, PaidBeforeExport,
       DrainedBeforeExport
  <2> QED BY <2>1, <2>2, <2>3, <2>4, <2>5, <2>6, <2>7, <2>8
<1>3. CASE Process
  <2>1. /\ processed' = Append(processed, Head(q)) /\ q' = q
        /\ ppc = "process" /\ ppc' = "release"
        /\ UNCHANGED <<lent, taken, mpc, threaded, online, arrived, next, cpc, committed,
                       locked, sig, eof, stop, owed>>
    BY <1>3 DEF Process, queue, config, ProcessorOnly
  <2>2. q # <<>>
    BY <2>1 DEF TakenWhileAtWork
  <2>3. Head(q) \in Packet /\ Tail(q) \in Seq(Packet)
        /\ Append(processed, Head(q)) \o Tail(q) = processed \o q
    <3>1. q \in Seq(Packet) /\ processed \in Seq(Packet)
      BY DEF TypeOK, Packet
    <3> QED BY <2>2, <3>1, MoveHead
  <2>4. ProcessedOnceInOrder'
    BY <2>1, <2>3 DEF ProcessedOnceInOrder, Waiting
  <2>5. TypeOK'
    <3>1. processed \in Seq(Packet)
      BY DEF TypeOK, Packet
    <3>2. processed' \in Seq(1 .. NPackets)
      BY <2>1, <2>3, <3>1, AppendToWaiting DEF Packet
    <3> QED BY <2>1, <3>2 DEF TypeOK
  <2>6. SleepsOnlyWhenEmpty' /\ ReadBeforeQueued'
    BY <2>1 DEF SleepsOnlyWhenEmpty, ReadBeforeQueued
  <2>7. TakenWhileAtWork' /\ WorksInTurn' /\ RoundByRound'
    BY <2>1 DEF TakenWhileAtWork, WorksInTurn, RoundByRound, Threaded
  <2>8. Len(processed') = Len(processed) + 1
    <3>1. processed \in Seq(Packet)
      BY DEF TypeOK, Packet
    <3> QED BY <2>1, <2>3, <3>1, AppendToWaiting
  <2>9. PaidBeforeExport'
    <3>1. owed \in Nat /\ Len(processed) \in Nat
      BY DEF TypeOK
    <3> QED BY <2>1, <2>8, <3>1 DEF PaidBeforeExport, DrainedBeforeExport
  <2> QED BY <2>4, <2>5, <2>6, <2>7, <2>9
<1>4. CASE Release
  <2>1. /\ ppc = "release" /\ ppc' \in {"test", "idle"}
        /\ taken' = FALSE /\ q' = Tail(q) /\ lent' = lent
        /\ ~Threaded("processor") => ppc' = "idle"
        /\ UNCHANGED <<processed, mpc, threaded, online, arrived, next, cpc, committed,
                       locked, sig, eof, stop, owed>>
    BY <1>4 DEF Release, Q!ReleaseBuffer, ProcessorOnly, config
  <2>2. q # <<>> /\ q \in Seq(Packet)
    BY <2>1 DEF TakenWhileAtWork, TypeOK, Packet
  <2>3. Tail(q) \in Seq(Packet) /\ Len(Tail(q)) = Len(q) - 1
    BY <2>2
  <2>4. TypeOK'
    <3>1. q' \in Seq(1 .. NPackets)
      BY <2>1, <2>3 DEF Packet
    <3>2. ppc' \in {"idle", "read", "asleep", "process", "release", "test", "signal"}
      BY <2>1
    <3>3. /\ taken' \in BOOLEAN
          /\ UNCHANGED <<lent, processed, mpc, threaded, online, arrived, next,
                         cpc, committed, locked, sig, eof, stop, owed>>
      BY <2>1
    <3> QED BY <3>1, <3>2, <3>3 DEF TypeOK
  <2>5. ProcessedOnceInOrder'
    BY <2>1 DEF ProcessedOnceInOrder, Waiting
  <2>6. SleepsOnlyWhenEmpty' /\ ReadBeforeQueued' /\ TakenWhileAtWork'
    BY <2>1 DEF SleepsOnlyWhenEmpty, ReadBeforeQueued, TakenWhileAtWork
  <2>7. WorksInTurn'
    BY <2>1 DEF WorksInTurn, Threaded
  <2>8. RoundByRound'
    <3>1. CASE ~Threaded("processor")
      <4>1. Len(q) <= 1 /\ ~Threaded("classifier") /\ cpc = "idle"
        BY <2>2, <2>1, <3>1 DEF RoundByRound, WorksInTurn
      <4>2. Tail(q) = <<>>
        BY <2>2, <2>3, <4>1
      <4> QED BY <2>1, <4>1, <4>2 DEF RoundByRound, Threaded
    <3>2. CASE Threaded("processor")
      BY <2>1, <3>2 DEF RoundByRound, Threaded
    <3> QED BY <3>1, <3>2
  <2>9. PaidBeforeExport'
    BY <2>1 DEF PaidBeforeExport, DrainedBeforeExport
  <2> QED BY <2>4, <2>5, <2>6, <2>7, <2>8, <2>9
<1>5. CASE TestEmpty
  <2>1. TypeOK'
    BY <1>5 DEF TestEmpty, ProcessorOnly, queue, config, TypeOK
  <2>2. ProcessedOnceInOrder'
    BY <1>5 DEF TestEmpty, ProcessorOnly, queue, ProcessedOnceInOrder, Waiting
  <2>3. SleepsOnlyWhenEmpty'
    BY <1>5 DEF TestEmpty, ProcessorOnly, SleepsOnlyWhenEmpty
  <2>4. ReadBeforeQueued'
    BY <1>5 DEF TestEmpty, ProcessorOnly, ReadBeforeQueued
  <2>5. TakenWhileAtWork'
    BY <1>5 DEF TestEmpty, ProcessorOnly, queue, TakenWhileAtWork
  <2>6. WorksInTurn'
    BY <1>5 DEF TestEmpty, ProcessorOnly, config, WorksInTurn, Threaded
  <2>7. RoundByRound'
    BY <1>5 DEF TestEmpty, ProcessorOnly, queue, config, RoundByRound, Threaded
  <2>8. PaidBeforeExport'
    BY <1>5 DEF TestEmpty, ProcessorOnly, PaidBeforeExport, DrainedBeforeExport
  <2> QED BY <2>1, <2>2, <2>3, <2>4, <2>5, <2>6, <2>7, <2>8
<1>6. CASE SignalDone
  <2>1. TypeOK'
    BY <1>6 DEF SignalDone, ProcessorOnly, queue, config, TypeOK
  <2>2. ProcessedOnceInOrder'
    BY <1>6 DEF SignalDone, ProcessorOnly, queue, ProcessedOnceInOrder, Waiting
  <2>3. SleepsOnlyWhenEmpty'
    BY <1>6 DEF SignalDone, ProcessorOnly, SleepsOnlyWhenEmpty
  <2>4. ReadBeforeQueued'
    BY <1>6 DEF SignalDone, ProcessorOnly, ReadBeforeQueued
  <2>5. TakenWhileAtWork'
    BY <1>6 DEF SignalDone, ProcessorOnly, queue, TakenWhileAtWork
  <2>6. WorksInTurn'
    BY <1>6 DEF SignalDone, ProcessorOnly, config, WorksInTurn, Threaded
  <2>7. RoundByRound'
    BY <1>6 DEF SignalDone, ProcessorOnly, queue, config, RoundByRound, Threaded
  <2>8. PaidBeforeExport'
    BY <1>6 DEF SignalDone, ProcessorOnly, PaidBeforeExport, DrainedBeforeExport
  <2> QED BY <2>1, <2>2, <2>3, <2>4, <2>5, <2>6, <2>7, <2>8
<1> QED BY <1>1, <1>2, <1>3, <1>4, <1>5, <1>6 DEF ProcessorStep

\* Steps of the meter and of the environment leave packets alone; ReadSignals
\* lets a processor without a thread work.
LEMMA MeterLemma == IInv /\ (MeterStep \/ WaitSpurious \/ Arrive \/ Interrupt) => IInv'
<1> SUFFICES ASSUME IInv, MeterStep \/ WaitSpurious \/ Arrive \/ Interrupt PROVE IInv'
  OBVIOUS
<1> USE DEF IInv
<1>1. CASE Arrive
  <2>1. TypeOK'
    BY <1>1 DEF Arrive, queue, config, TypeOK
  <2>2. ProcessedOnceInOrder'
    BY <1>1 DEF Arrive, queue, ProcessedOnceInOrder, Waiting
  <2>3. SleepsOnlyWhenEmpty'
    BY <1>1 DEF Arrive, queue, SleepsOnlyWhenEmpty
  <2>4. ReadBeforeQueued'
    BY <1>1 DEF Arrive, ReadBeforeQueued
  <2>5. TakenWhileAtWork'
    BY <1>1 DEF Arrive, queue, TakenWhileAtWork
  <2>6. WorksInTurn'
    BY <1>1 DEF Arrive, config, WorksInTurn, Threaded
  <2>7. RoundByRound'
    BY <1>1 DEF Arrive, queue, config, RoundByRound, Threaded
  <2>8. PaidBeforeExport'
    BY <1>1 DEF Arrive, PaidBeforeExport, DrainedBeforeExport
  <2> QED BY <2>1, <2>2, <2>3, <2>4, <2>5, <2>6, <2>7, <2>8
<1>2. CASE Interrupt
  <2>1. TypeOK'
    BY <1>2 DEF Interrupt, queue, config, TypeOK
  <2>2. ProcessedOnceInOrder'
    BY <1>2 DEF Interrupt, queue, ProcessedOnceInOrder, Waiting
  <2>3. SleepsOnlyWhenEmpty'
    BY <1>2 DEF Interrupt, queue, SleepsOnlyWhenEmpty
  <2>4. ReadBeforeQueued'
    BY <1>2 DEF Interrupt, ReadBeforeQueued
  <2>5. TakenWhileAtWork'
    BY <1>2 DEF Interrupt, queue, TakenWhileAtWork
  <2>6. WorksInTurn'
    BY <1>2 DEF Interrupt, config, WorksInTurn, Threaded
  <2>7. RoundByRound'
    BY <1>2 DEF Interrupt, queue, config, RoundByRound, Threaded
  <2>8. PaidBeforeExport'
    BY <1>2 DEF Interrupt, PaidBeforeExport, DrainedBeforeExport
  <2> QED BY <2>1, <2>2, <2>3, <2>4, <2>5, <2>6, <2>7, <2>8
<1>3. CASE BeginRound
  <2>1. TypeOK'
    BY <1>3 DEF BeginRound, MeterOnly, queue, config, TypeOK
  <2>2. ProcessedOnceInOrder'
    BY <1>3 DEF BeginRound, MeterOnly, queue, ProcessedOnceInOrder, Waiting
  <2>3. SleepsOnlyWhenEmpty'
    BY <1>3 DEF BeginRound, MeterOnly, queue, SleepsOnlyWhenEmpty
  <2>4. ReadBeforeQueued'
    BY <1>3 DEF BeginRound, MeterOnly, ReadBeforeQueued, TypeOK
  <2>5. TakenWhileAtWork'
    BY <1>3 DEF BeginRound, MeterOnly, queue, TakenWhileAtWork
  <2>6. WorksInTurn'
    BY <1>3 DEF BeginRound, MeterOnly, config, WorksInTurn, Threaded
  <2>7. RoundByRound'
    BY <1>3 DEF BeginRound, MeterOnly, queue, config, RoundByRound, Threaded
  <2>8. PaidBeforeExport'
    BY <1>3 DEF BeginRound, MeterOnly, PaidBeforeExport, DrainedBeforeExport
  <2> QED BY <2>1, <2>2, <2>3, <2>4, <2>5, <2>6, <2>7, <2>8
<1>4. CASE ReadSignals
  <2>1. TypeOK'
    BY <1>4 DEF ReadSignals, MeterOnly, queue, config, TypeOK
  <2>2. ProcessedOnceInOrder'
    BY <1>4 DEF ReadSignals, MeterOnly, queue, ProcessedOnceInOrder,
       Waiting, WorksInTurn
  <2>3. SleepsOnlyWhenEmpty'
    BY <1>4 DEF ReadSignals, MeterOnly, queue, SleepsOnlyWhenEmpty
  <2>4. ReadBeforeQueued'
    BY <1>4 DEF ReadSignals, MeterOnly, ReadBeforeQueued
  <2>5. TakenWhileAtWork'
    BY <1>4 DEF ReadSignals, MeterOnly, queue, TakenWhileAtWork, WorksInTurn
  <2>6. WorksInTurn'
    BY <1>4 DEF ReadSignals, MeterOnly, config, WorksInTurn, Threaded
  <2>7. RoundByRound'
    BY <1>4 DEF ReadSignals, MeterOnly, queue, config, RoundByRound, Threaded
  <2>8. PaidBeforeExport'
    BY <1>4 DEF ReadSignals, MeterOnly, PaidBeforeExport, DrainedBeforeExport
  <2> QED BY <2>1, <2>2, <2>3, <2>4, <2>5, <2>6, <2>7, <2>8
<1>5. CASE EndRound
  <2>1. TypeOK'
    <3>1. Len(committed) \in 0 .. NPackets
      BY DEF ReadBeforeQueued, TypeOK
    <3>2. owed' \in 0 .. NPackets
      BY <1>5, <3>1 DEF EndRound, TypeOK
    <3> QED BY <1>5, <3>2 DEF EndRound, MeterOnly, queue, config, TypeOK
  <2>2. ProcessedOnceInOrder'
    BY <1>5 DEF EndRound, MeterOnly, queue, ProcessedOnceInOrder, Waiting
  <2>3. SleepsOnlyWhenEmpty'
    BY <1>5 DEF EndRound, MeterOnly, queue, SleepsOnlyWhenEmpty
  <2>4. ReadBeforeQueued'
    BY <1>5 DEF EndRound, MeterOnly, ReadBeforeQueued
  <2>5. TakenWhileAtWork'
    BY <1>5 DEF EndRound, MeterOnly, queue, TakenWhileAtWork
  <2>6. WorksInTurn'
    BY <1>5 DEF EndRound, MeterOnly, config, WorksInTurn, Threaded
  <2>7. RoundByRound'
    BY <1>5 DEF EndRound, MeterOnly, queue, config, RoundByRound, Threaded
  <2>8. PaidBeforeExport'
    <3>1. CASE mpc' = "export"
      <4>1. ppc = "idle" /\ ~Threaded("processor") /\ mpc = "process"
            /\ owed' = Len(committed)
        BY <1>5, <3>1 DEF EndRound
      <4>2. q = <<>>
        BY <4>1 DEF RoundByRound
      <4>3. committed = processed
        BY <4>1, <4>2 DEF ProcessedOnceInOrder, Waiting, TypeOK
      <4> QED BY <1>5, <4>1, <4>3 DEF EndRound, MeterOnly, PaidBeforeExport,
              DrainedBeforeExport, TypeOK
    <3>2. CASE mpc' # "export"
      BY <1>5, <3>2 DEF EndRound, MeterOnly, PaidBeforeExport,
         DrainedBeforeExport, TypeOK
    <3> QED BY <3>1, <3>2
  <2> QED BY <2>1, <2>2, <2>3, <2>4, <2>5, <2>6, <2>7, <2>8
<1>6. CASE WaitLock
  <2>1. TypeOK'
    BY <1>6 DEF WaitLock, MeterOnly, queue, config, TypeOK
  <2>2. ProcessedOnceInOrder'
    BY <1>6 DEF WaitLock, MeterOnly, queue, ProcessedOnceInOrder, Waiting
  <2>3. SleepsOnlyWhenEmpty'
    BY <1>6 DEF WaitLock, MeterOnly, queue, SleepsOnlyWhenEmpty
  <2>4. ReadBeforeQueued'
    BY <1>6 DEF WaitLock, MeterOnly, ReadBeforeQueued
  <2>5. TakenWhileAtWork'
    BY <1>6 DEF WaitLock, MeterOnly, queue, TakenWhileAtWork
  <2>6. WorksInTurn'
    BY <1>6 DEF WaitLock, MeterOnly, config, WorksInTurn, Threaded
  <2>7. RoundByRound'
    BY <1>6 DEF WaitLock, MeterOnly, queue, config, RoundByRound, Threaded
  <2>8. PaidBeforeExport'
    BY <1>6 DEF WaitLock, MeterOnly, PaidBeforeExport, DrainedBeforeExport
  <2> QED BY <2>1, <2>2, <2>3, <2>4, <2>5, <2>6, <2>7, <2>8
<1>7. CASE WaitCheck
  <2>1. TypeOK'
    BY <1>7 DEF WaitCheck, MeterOnly, queue, config, TypeOK
  <2>2. ProcessedOnceInOrder'
    BY <1>7 DEF WaitCheck, MeterOnly, queue, ProcessedOnceInOrder, Waiting
  <2>3. SleepsOnlyWhenEmpty'
    BY <1>7 DEF WaitCheck, MeterOnly, queue, SleepsOnlyWhenEmpty
  <2>4. ReadBeforeQueued'
    BY <1>7 DEF WaitCheck, MeterOnly, ReadBeforeQueued
  <2>5. TakenWhileAtWork'
    BY <1>7 DEF WaitCheck, MeterOnly, queue, TakenWhileAtWork
  <2>6. WorksInTurn'
    BY <1>7 DEF WaitCheck, MeterOnly, config, WorksInTurn, Threaded
  <2>7. RoundByRound'
    BY <1>7 DEF WaitCheck, MeterOnly, queue, config, RoundByRound, Threaded
  <2>8. PaidBeforeExport'
    <3>1. CASE q = <<>>
      <4>1. committed = processed
        BY <3>1 DEF ProcessedOnceInOrder, Waiting, TakenWhileAtWork, TypeOK
      <4> QED BY <1>7, <4>1 DEF WaitCheck, MeterOnly, PaidBeforeExport,
              DrainedBeforeExport, TypeOK
    <3>2. CASE q # <<>>
      BY <1>7, <3>2 DEF WaitCheck, MeterOnly, PaidBeforeExport,
         DrainedBeforeExport
    <3> QED BY <3>1, <3>2
  <2> QED BY <2>1, <2>2, <2>3, <2>4, <2>5, <2>6, <2>7, <2>8
<1>8. CASE WaitSleep
  <2>1. TypeOK'
    <3>1. /\ mpc' = "asleep" /\ locked' \in BOOLEAN
          /\ UNCHANGED <<threaded, online, arrived, next, q, lent, taken,
                         committed, processed, cpc, ppc, sig, eof, stop, owed>>
      BY <1>8 DEF WaitSleep, MeterOnly, queue, config
    <3> QED BY <3>1 DEF TypeOK
  <2>2. ProcessedOnceInOrder'
    BY <1>8 DEF WaitSleep, MeterOnly, queue, ProcessedOnceInOrder, Waiting
  <2>3. SleepsOnlyWhenEmpty'
    BY <1>8 DEF WaitSleep, MeterOnly, queue, SleepsOnlyWhenEmpty
  <2>4. ReadBeforeQueued'
    BY <1>8 DEF WaitSleep, MeterOnly, ReadBeforeQueued
  <2>5. TakenWhileAtWork'
    BY <1>8 DEF WaitSleep, MeterOnly, queue, TakenWhileAtWork
  <2>6. WorksInTurn'
    BY <1>8 DEF WaitSleep, MeterOnly, config, WorksInTurn, Threaded
  <2>7. RoundByRound'
    BY <1>8 DEF WaitSleep, MeterOnly, queue, config, RoundByRound, Threaded
  <2>8. PaidBeforeExport'
    BY <1>8 DEF WaitSleep, MeterOnly, PaidBeforeExport, DrainedBeforeExport
  <2> QED BY <2>1, <2>2, <2>3, <2>4, <2>5, <2>6, <2>7, <2>8
<1>9. CASE WaitSpurious
  <2>1. TypeOK'
    BY <1>9 DEF WaitSpurious, MeterOnly, queue, config, TypeOK
  <2>2. ProcessedOnceInOrder'
    BY <1>9 DEF WaitSpurious, MeterOnly, queue, ProcessedOnceInOrder, Waiting
  <2>3. SleepsOnlyWhenEmpty'
    BY <1>9 DEF WaitSpurious, MeterOnly, queue, SleepsOnlyWhenEmpty
  <2>4. ReadBeforeQueued'
    BY <1>9 DEF WaitSpurious, MeterOnly, ReadBeforeQueued
  <2>5. TakenWhileAtWork'
    BY <1>9 DEF WaitSpurious, MeterOnly, queue, TakenWhileAtWork
  <2>6. WorksInTurn'
    BY <1>9 DEF WaitSpurious, MeterOnly, config, WorksInTurn, Threaded
  <2>7. RoundByRound'
    BY <1>9 DEF WaitSpurious, MeterOnly, queue, config, RoundByRound, Threaded
  <2>8. PaidBeforeExport'
    BY <1>9 DEF WaitSpurious, MeterOnly, PaidBeforeExport, DrainedBeforeExport
  <2> QED BY <2>1, <2>2, <2>3, <2>4, <2>5, <2>6, <2>7, <2>8
<1>10. CASE Export
  <2>1. TypeOK'
    BY <1>10 DEF Export, MeterOnly, queue, config, TypeOK
  <2>2. ProcessedOnceInOrder'
    BY <1>10 DEF Export, MeterOnly, queue, ProcessedOnceInOrder, Waiting
  <2>3. SleepsOnlyWhenEmpty'
    BY <1>10 DEF Export, MeterOnly, queue, SleepsOnlyWhenEmpty
  <2>4. ReadBeforeQueued'
    BY <1>10 DEF Export, MeterOnly, ReadBeforeQueued
  <2>5. TakenWhileAtWork'
    BY <1>10 DEF Export, MeterOnly, queue, TakenWhileAtWork
  <2>6. WorksInTurn'
    BY <1>10 DEF Export, MeterOnly, config, WorksInTurn, Threaded
  <2>7. RoundByRound'
    BY <1>10 DEF Export, MeterOnly, queue, config, RoundByRound, Threaded
  <2>8. PaidBeforeExport'
    BY <1>10 DEF Export, MeterOnly, PaidBeforeExport, DrainedBeforeExport
  <2> QED BY <2>1, <2>2, <2>3, <2>4, <2>5, <2>6, <2>7, <2>8
<1> QED BY <1>1, <1>2, <1>3, <1>4, <1>5, <1>6, <1>7, <1>8, <1>9, <1>10 DEF MeterStep

\* A step that changes no variable of the system keeps the invariant.
LEMMA StutterLemma == IInv /\ UNCHANGED vars => IInv'
<1> SUFFICES ASSUME IInv, UNCHANGED vars PROVE IInv'
  OBVIOUS
<1> USE DEF IInv, vars, queue, config
<1>1. TypeOK' BY DEF TypeOK
<1>2. ProcessedOnceInOrder' BY DEF ProcessedOnceInOrder, Waiting
<1>3. SleepsOnlyWhenEmpty' BY DEF SleepsOnlyWhenEmpty
<1>4. ReadBeforeQueued' BY DEF ReadBeforeQueued
<1>5. TakenWhileAtWork' BY DEF TakenWhileAtWork
<1>6. WorksInTurn' BY DEF WorksInTurn, Threaded
<1>7. RoundByRound' BY DEF RoundByRound, Threaded
<1>8. PaidBeforeExport' BY DEF PaidBeforeExport, DrainedBeforeExport
<1> QED BY <1>1, <1>2, <1>3, <1>4, <1>5, <1>6, <1>7, <1>8

-----------------------------------------------------------------------------
\* The inductive invariant holds at every step of the classifier, the processor
\* and Meter::run: where each thread is says what it holds of the queue.
THEOREM PipelineInvariant == Spec => []IInv
<1>1. IInv /\ [Next]_vars => IInv'
  BY ClassifierLemma, ProcessorLemma, MeterLemma, StutterLemma DEF Next
<1> QED BY InitLemma, <1>1, PTL DEF Spec

\* Every variable keeps its type: no packet is queued, processed or owed that
\* did not arrive.
THEOREM PipelineTypeCorrect == Spec => []TypeOK
<1>1. IInv => TypeOK
  BY DEF IInv
<1> QED BY PipelineInvariant, <1>1, PTL

\* What the classifier queued is what the processor has processed, in order,
\* followed by what it still has to (Classifier::processPacket and
\* PacketProcessor::handleFDEvent, with and without threads).
THEOREM OnceInOrder == Spec => []ProcessedOnceInOrder
<1>1. IInv => ProcessedOnceInOrder
  BY DEF IInv
<1> QED BY PipelineInvariant, <1>1, PTL

\* A processor that sleeps in PacketQueue::readBuffer has nothing to do: the
\* signal for the first packet of an empty queue is enough.
THEOREM NoLostWakeup == Spec => []SleepsOnlyWhenEmpty
<1>1. IInv => SleepsOnlyWhenEmpty
  BY DEF IInv
<1> QED BY PipelineInvariant, <1>1, PTL

\* Every packet queued when the main loop ends is processed before the meter
\* exports its flows: waitUntilDone (or, without threads, the loop itself) does
\* not let one slip away, however the threads run.
THEOREM DrainedAtExport == Spec => []DrainedBeforeExport
<1>1. IInv => DrainedBeforeExport
  BY DEF IInv, PaidBeforeExport
<1> QED BY PipelineInvariant, <1>1, PTL
=============================================================================
