------------------------- MODULE ExportModulesProofs -------------------------
(***************************************************************************)
(* Proofs about the export modules, for any rules, hosts and numbers of    *)
(* connections: ipfix's connections count the export records that use      *)
(* them, and lead where these want to go.                                  *)
(*                                                                         *)
(* Rules are added, removed and exported by folds over their export        *)
(* records.  Each fold is shown to be a sequence of states, and what it    *)
(* does is shown by induction along it.                                    *)
(***************************************************************************)
EXTENDS ExportModules, FiniteSetTheorems, SequenceTheorems, TLAPS

ConnIds == 0 .. MaxConn - 1
Conns == [ConnIds -> [ref : Nat, dest : Dests \cup {Closed}]]

IpfixUses == {u \in Configured : Of(u).module = "ipfix"}
FileUses == {u \in Configured : Of(u).module \in FileModules}

\* The export records that have a connection, and those that have this one
Users(w) == {u \in IpfixUses : w.recs[u] # None}
UsersOf(w, c) == {u \in Users(w) : w.recs[u].fd = c}

\* What the modules share
Proper(w) ==
    /\ w = [recs |-> w.recs, files |-> w.files, sent |-> w.sent, buf |-> w.buf, last |-> w.last,
            idle |-> w.idle, fds |-> w.fds, conns |-> w.conns, died |-> w.died]
    /\ w.recs = [u \in Uses |-> w.recs[u]]

\* References are counted, one more if the configured collector is connected;
\* connections lead where their users want to go.
Counted(w, default) ==
    /\ w.conns \in Conns
    /\ \A c \in ConnIds :
          w.conns[c].ref = Cardinality(UsersOf(w, c)) + IF c = 0 /\ default THEN 1 ELSE 0
    /\ \A u \in Users(w) : w.recs[u].fd \in ConnIds /\ w.conns[w.recs[u].fd].dest = Of(u).dest

\* A file's export record is not there, or one of its module's.
FileRecs == [fd : {1}, first : BOOLEAN]
FilesFit(w) == \A u \in FileUses : w.recs[u] = None \/ w.recs[u] \in FileRecs

\* A rule's export records come and go together.
Together(w) ==
    \A r \in Rules : \A i, j \in DOMAIN Exports(r) : w.recs[<<r, i>>] = None <=> w.recs[<<r, j>>] = None

Fits(w) == Counted(w, Users(w) # {}) /\ FilesFit(w) /\ Together(w)

ConnInv == conf \in Confs /\ Proper(Now) /\ (died \/ Fits(Now))

-----------------------------------------------------------------------------
(* Folds over places as sequences of states. *)

\* Induction over the natural numbers, with a set for the property
LEMMA SetInduction ==
  ASSUME NEW S \in SUBSET Nat, 0 \in S, \A n \in S : n + 1 \in S
  PROVE  Nat \subseteq S
<1>. SUFFICES ASSUME Nat \ S # {} PROVE FALSE
  OBVIOUS
<1> DEFINE R == OpToRel(<, Nat)
           T == Nat \ S
<1>1. IsWellFoundedOn(R, Nat)
  BY NatLessThanWellFounded
<1>2. \A x, y \in Nat : y < x => <<y, x>> \in R
  BY DEF OpToRel
<1>. HIDE DEF R
<1>3. PICK x \in T : \A y \in T : ~(<<y, x>> \in R)
  <2>. HIDE DEF T
  <2>1. T \subseteq Nat /\ T # {}
    BY DEF T
  <2>. QED BY <1>1, <2>1, WFMin
<1>4. x # 0 /\ x - 1 \in Nat /\ x - 1 < x
  OBVIOUS
<1>5. x - 1 \in S
  BY <1>2, <1>3, <1>4
<1>. QED BY <1>4, <1>5

\* A set of numbers up to n has a greatest one.
LEMMA MaxUpto ==
  ASSUME NEW n \in Nat, NEW T \in SUBSET (1 .. n), T # {}
  PROVE  Max(T) \in T /\ \A x \in T : x <= Max(T)
<1> DEFINE R == OpToRel(<, Nat)
           V == {n - x : x \in T}
<1>1. IsWellFoundedOn(R, Nat)
  BY NatLessThanWellFounded
<1>2. \A x, y \in Nat : y < x => <<y, x>> \in R
  BY DEF OpToRel
<1>. HIDE DEF R
<1>3. V \subseteq Nat /\ V # {} /\ \A x \in T : n - x \in V
  <2>1. \A x \in T : x \in 1 .. n /\ n - x \in Nat
    OBVIOUS
  <2>. QED BY <2>1
<1>4. PICK v \in V : \A y \in V : ~(<<y, v>> \in R)
  <2>. HIDE DEF V
  <2>. QED BY <1>1, <1>3, WFMin
<1>5. PICK m \in T : v = n - m
  OBVIOUS
<1>6. \A x \in T : x <= m
  <2>. TAKE x \in T
  <2>1. n - x \in Nat /\ n - m \in Nat /\ x \in Int /\ m \in Int /\ n \in Int
    OBVIOUS
  <2>2. ~(<<n - x, n - m>> \in R)
    BY <1>3, <1>4, <1>5
  <2>3. ~(n - x < n - m)
    BY <1>2, <2>1, <2>2
  <2>. QED BY <2>1, <2>3
<1>. QED BY <1>6 DEF Max

\* What the folds do at place k: a rule's export record is made or destroyed,
\* a flow record goes to it, one processing module's data do.
Step(kind, a, x, k) ==
    CASE kind = "init" -> InitExportRec(x, <<a, k>>)
      [] kind = "destroy" -> DestroyExportRec(x, <<a, k>>)
      [] kind = "place" -> ExportData(x, <<a, k>>)
      [] kind = "data" -> ExportNext(x, a, k)

\* h takes sets of places, and makes the step of the greatest one last.
Folding(kind, a, base, n, h) ==
    h = [T \in SUBSET (1 .. n) |->
            IF T = {} THEN base ELSE Step(kind, a, h[T \ {Max(T)}], Max(T))]

\* There is a function like that.
LEMMA FoldExists ==
  ASSUME NEW kind, NEW a, NEW base, NEW n \in Nat
  PROVE  \E h : Folding(kind, a, base, n, h)
<1> DEFINE Op(x, k) == Step(kind, a, x, k)
           Follows(k, g) ==
               /\ g = [T \in SUBSET (1 .. k) |-> g[T]] /\ g[{}] = base
               /\ \A T \in SUBSET (1 .. k) : T # {} => g[T] = Op(g[T \ {Max(T)}], Max(T))
           N == {k \in Nat : \E g : Follows(k, g)}
<1>. HIDE DEF Op
<1>1. 0 \in N
  <2> DEFINE g == [T \in SUBSET (1 .. 0) |-> base]
  <2>1. 1 .. 0 = {}
    OBVIOUS
  <2>2. Follows(0, g)
    BY <2>1
  <2>. QED BY <2>2
<1>2. ASSUME NEW k \in Nat, NEW g, Follows(k, g)
      PROVE  \E h : Follows(k + 1, h)
  <2> DEFINE h == [T \in SUBSET (1 .. k + 1) |->
                       IF k + 1 \in T THEN Op(g[T \ {k + 1}], k + 1) ELSE g[T]]
  <2>1. \A T \in SUBSET (1 .. k + 1) : /\ k + 1 \notin T => T \in SUBSET (1 .. k)
                                       /\ T \ {k + 1} \in SUBSET (1 .. k)
    OBVIOUS
  <2>2. h = [T \in SUBSET (1 .. k + 1) |-> h[T]]
    OBVIOUS
  <2>3. \A T \in SUBSET (1 .. k) : h[T] = g[T]
    <3>1. \A T \in SUBSET (1 .. k) : T \in SUBSET (1 .. k + 1) /\ k + 1 \notin T
      OBVIOUS
    <3>. QED BY <3>1
  <2>4. ASSUME NEW T \in SUBSET (1 .. k + 1), T # {}
        PROVE  h[T] = Op(h[T \ {Max(T)}], Max(T))
    <3>1. Max(T) \in T /\ \A x \in T : x <= Max(T)
      <4>1. k + 1 \in Nat
        OBVIOUS
      <4>. QED BY <2>4, <4>1, MaxUpto
    <3>2. CASE k + 1 \in T
      <4>1. Max(T) = k + 1
        <5>. DEFINE m == Max(T)
        <5>1. m \in 1 .. k + 1 /\ k + 1 <= m
          BY <3>1, <3>2
        <5>. HIDE DEF m
        <5>2. m = k + 1
          BY <5>1
        <5>. QED BY <5>2 DEF m
      <4>2. h[T] = Op(g[T \ {k + 1}], k + 1)
        BY <3>2
      <4>. QED BY <2>1, <2>3, <4>1, <4>2
    <3>3. CASE k + 1 \notin T
      <4>1. T \in SUBSET (1 .. k) /\ T \ {Max(T)} \in SUBSET (1 .. k)
        BY <2>1, <3>3
      <4>2. g[T] = Op(g[T \ {Max(T)}], Max(T))
        BY <1>2, <2>4, <4>1
      <4>. QED BY <2>3, <4>1, <4>2
    <3>. QED BY <3>2, <3>3
  <2>5. h[{}] = base
    <3>1. {} \in SUBSET (1 .. k)
      OBVIOUS
    <3>. HIDE DEF h
    <3>. QED BY <1>2, <2>3, <3>1
  <2>. HIDE DEF h
  <2>. QED BY <2>2, <2>4, <2>5
<1>3. \A k \in N : k + 1 \in N
  <2>1. ASSUME NEW k \in N PROVE k + 1 \in N
    <3>. HIDE DEF Follows
    <3>1. k \in Nat /\ \E g : Follows(k, g)
      OBVIOUS
    <3>2. PICK g : Follows(k, g)
      BY <3>1
    <3>. QED BY <1>2, <3>1, <3>2
  <2>. QED BY <2>1
<1>4. n \in N
  <2>. HIDE DEF N
  <2>1. N \in SUBSET Nat
    BY DEF N
  <2>. QED BY <1>1, <1>3, <2>1, SetInduction
<1>5. PICK g : Follows(n, g)
  <2>. HIDE DEF Follows
  <2>. QED BY <1>4
<1> DEFINE G == [T \in SUBSET (1 .. n) |-> IF T = {} THEN base ELSE Op(g[T \ {Max(T)}], Max(T))]
<1>6. \A T \in SUBSET (1 .. n) : g[T] = G[T]
  BY <1>5
<1>7. g = G
  BY <1>5, <1>6
<1>. QED BY <1>7 DEF Folding, Op

\* v is reached from base in the n steps of a call over the places 1 .. n
Reached(kind, a, base, n, v) ==
  \E st : /\ st[0] = base /\ v = st[n]
          /\ \A k \in 1 .. n : st[k] = Step(kind, a, st[k - 1], k)

\* The states after each place
LEMMA FoldStates ==
  ASSUME NEW kind, NEW a, NEW base, NEW n \in Nat, NEW h, Folding(kind, a, base, n, h)
  PROVE  Reached(kind, a, base, n, h[1 .. n])
<1> DEFINE Op(x, k) == Step(kind, a, x, k)
           st == [k \in 0 .. n |-> h[1 .. k]]
<1>. HIDE DEF Op
<1>1. /\ h[{}] = base
      /\ \A T \in SUBSET (1 .. n) : T # {} => h[T] = Op(h[T \ {Max(T)}], Max(T))
  BY DEF Folding, Op
<1>2. ASSUME NEW k \in 1 .. n
      PROVE  h[1 .. k] = Op(h[1 .. k - 1], k)
  <2>1. (1 .. k) \in SUBSET (1 .. n) /\ (1 .. k) # {}
    OBVIOUS
  <2>2. Max(1 .. k) \in 1 .. k /\ \A x \in 1 .. k : x <= Max(1 .. k)
    BY <2>1, MaxUpto
  <2>3. Max(1 .. k) = k
    BY <2>2
  <2>4. (1 .. k) \ {k} = 1 .. k - 1
    OBVIOUS
  <2>. QED BY <1>1, <2>1, <2>3, <2>4
<1>3. 1 .. 0 = {} /\ 0 \in 0 .. n /\ n \in 0 .. n
  OBVIOUS
<1>4. st[0] = base /\ h[1 .. n] = st[n]
  BY <1>1, <1>3
<1>5. ASSUME NEW k \in 1 .. n PROVE st[k] = Op(st[k - 1], k)
  <2>1. k - 1 \in 0 .. n /\ k \in 0 .. n
    OBVIOUS
  <2>. QED BY <1>2, <2>1
<1>. HIDE DEF st
<1>. QED BY <1>4, <1>5 DEF Op, Reached

-----------------------------------------------------------------------------
(* The folds of the actions *)

AddRecs(w, r) == ForExports(InitExportRec, w, r)
RemoveRecs(w, r) == ForExports(DestroyExportRec, w, r)

\* The states in which the export records of a rule are made
LEMMA AddedSteps ==
  ASSUME NEW w, NEW r, NEW n \in Nat, DOMAIN Exports(r) = 1 .. n
  PROVE  \E st : /\ st[0] = w /\ AddRecs(w, r) = st[n]
                 /\ \A k \in 1 .. n : st[k] = Step("init", r, st[k - 1], k)
<1> DEFINE seq == [i \in DOMAIN Exports(r) |-> i]
           Rec(h) == h = [T \in SUBSET DOMAIN seq |->
                             IF T = {} THEN w ELSE InitExportRec(h[T \ {Max(T)}], <<r, seq[Max(T)]>>)]
           F == CHOOSE h : Rec(h)
<1>1. DOMAIN seq = 1 .. n
  OBVIOUS
<1>2. \A h : Rec(h) <=> Folding("init", r, w, n, h)
  <2>1. \A T \in SUBSET (1 .. n) : T # {} => seq[Max(T)] = Max(T)
    <3>1. \A T \in SUBSET (1 .. n) : T # {} => Max(T) \in 1 .. n
      BY MaxUpto
    <3>. QED BY <3>1
  <2>2. \A x, k : Step("init", r, x, k) = InitExportRec(x, <<r, k>>)
    BY DEF Step
  <2>. HIDE DEF seq
  <2>3. ASSUME NEW h, NEW T \in SUBSET (1 .. n)
        PROVE  (IF T = {} THEN w ELSE InitExportRec(h[T \ {Max(T)}], <<r, seq[Max(T)]>>))
                  = IF T = {} THEN w ELSE Step("init", r, h[T \ {Max(T)}], Max(T))
    BY <2>1, <2>2
  <2>4. ASSUME NEW h PROVE Rec(h) <=> Folding("init", r, w, n, h)
    <3>1. [T \in SUBSET DOMAIN seq |-> IF T = {} THEN w ELSE InitExportRec(h[T \ {Max(T)}], <<r, seq[Max(T)]>>)]
             = [T \in SUBSET (1 .. n) |->
                  IF T = {} THEN w ELSE Step("init", r, h[T \ {Max(T)}], Max(T))]
      BY <1>1, <2>3, Zenon
    <3>. QED BY <3>1, Zenon DEF Folding
  <2>. QED BY <2>4
<1>3. AddRecs(w, r) = F[DOMAIN seq]
  BY Zenon DEF AddRecs, RemoveRecs, ForExports, FoldLeft, MapThenFoldSet
<1>. HIDE DEF Rec
<1>4. Folding("init", r, w, n, F)
  <2>1. \E h : Rec(h)
    BY <1>2, FoldExists
  <2>. QED BY <1>2, <2>1
<1>. HIDE DEF F, seq
<1>5. AddRecs(w, r) = F[1 .. n]
  BY <1>1, <1>3, Zenon
<1>6. Reached("init", r, w, n, F[1 .. n])
  BY <1>4, FoldStates, Zenon
<1>. QED BY <1>5, <1>6, Zenon DEF Reached

\* The states in which they are destroyed
LEMMA RemovedSteps ==
  ASSUME NEW w, NEW r, NEW n \in Nat, DOMAIN Exports(r) = 1 .. n
  PROVE  \E st : /\ st[0] = w /\ RemoveRecs(w, r) = st[n]
                 /\ \A k \in 1 .. n : st[k] = Step("destroy", r, st[k - 1], k)
<1> DEFINE seq == [i \in DOMAIN Exports(r) |-> i]
           Rec(h) == h = [T \in SUBSET DOMAIN seq |->
                             IF T = {} THEN w ELSE DestroyExportRec(h[T \ {Max(T)}], <<r, seq[Max(T)]>>)]
           F == CHOOSE h : Rec(h)
<1>1. DOMAIN seq = 1 .. n
  OBVIOUS
<1>2. \A h : Rec(h) <=> Folding("destroy", r, w, n, h)
  <2>1. \A T \in SUBSET (1 .. n) : T # {} => seq[Max(T)] = Max(T)
    <3>1. \A T \in SUBSET (1 .. n) : T # {} => Max(T) \in 1 .. n
      BY MaxUpto
    <3>. QED BY <3>1
  <2>2. \A x, k : Step("destroy", r, x, k) = DestroyExportRec(x, <<r, k>>)
    BY DEF Step
  <2>. HIDE DEF seq
  <2>3. ASSUME NEW h, NEW T \in SUBSET (1 .. n)
        PROVE  (IF T = {} THEN w ELSE DestroyExportRec(h[T \ {Max(T)}], <<r, seq[Max(T)]>>))
                  = IF T = {} THEN w ELSE Step("destroy", r, h[T \ {Max(T)}], Max(T))
    BY <2>1, <2>2
  <2>4. ASSUME NEW h PROVE Rec(h) <=> Folding("destroy", r, w, n, h)
    <3>1. [T \in SUBSET DOMAIN seq |-> IF T = {} THEN w ELSE DestroyExportRec(h[T \ {Max(T)}], <<r, seq[Max(T)]>>)]
             = [T \in SUBSET (1 .. n) |->
                  IF T = {} THEN w ELSE Step("destroy", r, h[T \ {Max(T)}], Max(T))]
      BY <1>1, <2>3, Zenon
    <3>. QED BY <3>1, Zenon DEF Folding
  <2>. QED BY <2>4
<1>3. RemoveRecs(w, r) = F[DOMAIN seq]
  BY Zenon DEF AddRecs, RemoveRecs, ForExports, FoldLeft, MapThenFoldSet
<1>. HIDE DEF Rec
<1>4. Folding("destroy", r, w, n, F)
  <2>1. \E h : Rec(h)
    BY <1>2, FoldExists
  <2>. QED BY <1>2, <2>1
<1>. HIDE DEF F, seq
<1>5. RemoveRecs(w, r) = F[1 .. n]
  BY <1>1, <1>3, Zenon
<1>6. Reached("destroy", r, w, n, F[1 .. n])
  BY <1>4, FoldStates, Zenon
<1>. QED BY <1>5, <1>6, Zenon DEF Reached

\* The states in which a flow record goes to each export record of its rule
LEMMA PlacesSteps ==
  ASSUME NEW w, NEW r, NEW frec, NEW acc, acc = [w |-> w, frec |-> frec],
         NEW n \in Nat, DOMAIN Exports(r) = 1 .. n
  PROVE  \E st : /\ st[0] = acc /\ ExportFlowRecord(w, r, frec) = st[n]
                 /\ \A k \in 1 .. n : st[k] = Step("place", r, st[k - 1], k)
<1> DEFINE seq == [i \in DOMAIN Exports(r) |-> i]
           Rec(h) == h = [T \in SUBSET DOMAIN seq |->
                             IF T = {} THEN acc ELSE ExportData(h[T \ {Max(T)}], <<r, seq[Max(T)]>>)]
           F == CHOOSE h : Rec(h)
<1>1. DOMAIN seq = 1 .. n
  OBVIOUS
<1>2. \A h : Rec(h) <=> Folding("place", r, acc, n, h)
  <2>1. \A T \in SUBSET (1 .. n) : T # {} => seq[Max(T)] = Max(T)
    <3>1. \A T \in SUBSET (1 .. n) : T # {} => Max(T) \in 1 .. n
      BY MaxUpto
    <3>. QED BY <3>1
  <2>2. \A x, k : Step("place", r, x, k) = ExportData(x, <<r, k>>)
    BY DEF Step
  <2>. HIDE DEF seq
  <2>3. ASSUME NEW h, NEW T \in SUBSET (1 .. n)
        PROVE  (IF T = {} THEN acc ELSE ExportData(h[T \ {Max(T)}], <<r, seq[Max(T)]>>))
                  = IF T = {} THEN acc ELSE Step("place", r, h[T \ {Max(T)}], Max(T))
    BY <2>1, <2>2
  <2>4. ASSUME NEW h PROVE Rec(h) <=> Folding("place", r, acc, n, h)
    <3>1. [T \in SUBSET DOMAIN seq |-> IF T = {} THEN acc ELSE ExportData(h[T \ {Max(T)}], <<r, seq[Max(T)]>>)]
             = [T \in SUBSET (1 .. n) |->
                  IF T = {} THEN acc ELSE Step("place", r, h[T \ {Max(T)}], Max(T))]
      BY <1>1, <2>3, Zenon
    <3>. QED BY <3>1, Zenon DEF Folding
  <2>. QED BY <2>4
<1>3. ExportFlowRecord(w, r, frec) = F[DOMAIN seq]
  BY Zenon DEF ExportFlowRecord, FoldLeft, MapThenFoldSet
<1>. HIDE DEF Rec
<1>4. Folding("place", r, acc, n, F)
  <2>1. \E h : Rec(h)
    BY <1>2, FoldExists
  <2>. QED BY <1>2, <2>1
<1>. HIDE DEF F, seq
<1>5. ExportFlowRecord(w, r, frec) = F[1 .. n]
  BY <1>1, <1>3, Zenon
<1>6. Reached("place", r, acc, n, F[1 .. n])
  BY <1>4, FoldStates, Zenon
<1>. QED BY <1>5, <1>6, Zenon DEF Reached

\* The states in which the data of each processing module go to an export record
LEMMA DataSteps ==
  ASSUME NEW acc, NEW u, NEW n \in Nat, DOMAIN acc.frec = 1 .. n
  PROVE  \E st : /\ st[0] = acc /\ ExportData(acc, u) = st[n]
                 /\ \A k \in 1 .. n : st[k] = Step("data", u, st[k - 1], k)
<1> DEFINE seq == [i \in DOMAIN acc.frec |-> i]
           Rec(h) == h = [T \in SUBSET DOMAIN seq |->
                             IF T = {} THEN acc ELSE ExportNext(h[T \ {Max(T)}], u, seq[Max(T)])]
           F == CHOOSE h : Rec(h)
<1>1. DOMAIN seq = 1 .. n
  OBVIOUS
<1>2. \A h : Rec(h) <=> Folding("data", u, acc, n, h)
  <2>1. \A T \in SUBSET (1 .. n) : T # {} => seq[Max(T)] = Max(T)
    <3>1. \A T \in SUBSET (1 .. n) : T # {} => Max(T) \in 1 .. n
      BY MaxUpto
    <3>. QED BY <3>1
  <2>2. \A x, k : Step("data", u, x, k) = ExportNext(x, u, k)
    BY DEF Step
  <2>. HIDE DEF seq
  <2>3. ASSUME NEW h, NEW T \in SUBSET (1 .. n)
        PROVE  (IF T = {} THEN acc ELSE ExportNext(h[T \ {Max(T)}], u, seq[Max(T)]))
                  = IF T = {} THEN acc ELSE Step("data", u, h[T \ {Max(T)}], Max(T))
    BY <2>1, <2>2
  <2>4. ASSUME NEW h PROVE Rec(h) <=> Folding("data", u, acc, n, h)
    <3>1. [T \in SUBSET DOMAIN seq |-> IF T = {} THEN acc ELSE ExportNext(h[T \ {Max(T)}], u, seq[Max(T)])]
             = [T \in SUBSET (1 .. n) |->
                  IF T = {} THEN acc ELSE Step("data", u, h[T \ {Max(T)}], Max(T))]
      BY <1>1, <2>3, Zenon
    <3>. QED BY <3>1, Zenon DEF Folding
  <2>. QED BY <2>4
<1>3. ExportData(acc, u) = F[DOMAIN seq]
  BY Zenon DEF ExportData, FoldLeft, MapThenFoldSet
<1>. HIDE DEF Rec
<1>4. Folding("data", u, acc, n, F)
  <2>1. \E h : Rec(h)
    BY <1>2, FoldExists
  <2>. QED BY <1>2, <2>1
<1>. HIDE DEF F, seq
<1>5. ExportData(acc, u) = F[1 .. n]
  BY <1>1, <1>3, Zenon
<1>6. Reached("data", u, acc, n, F[1 .. n])
  BY <1>4, FoldStates, Zenon
<1>. QED BY <1>5, <1>6, Zenon DEF Reached

\* Induction along such states
LEMMA AlongStates ==
  ASSUME NEW n \in Nat, NEW S, 0 \in S, \A k \in 1 .. n : k - 1 \in S => k \in S
  PROVE  n \in S
<1> DEFINE N == {k \in Nat : k <= n => k \in S}
<1>1. 0 \in N
  OBVIOUS
<1>2. ASSUME NEW k \in N PROVE k + 1 \in N
  <2>1. CASE k + 1 <= n
    <3>1. k + 1 \in 1 .. n /\ (k + 1) - 1 = k /\ k \in S
      BY <2>1
    <3>2. k + 1 \in S
      BY <3>1
    <3>. QED BY <3>2
  <2>2. CASE ~(k + 1 <= n)
    BY <2>2
  <2>. QED BY <2>1, <2>2
<1>3. Nat \subseteq N
  <2>. HIDE DEF N
  <2>1. N \in SUBSET Nat
    BY DEF N
  <2>. QED BY <1>1, <1>2, <2>1, SetInduction
<1>. QED BY <1>3

-----------------------------------------------------------------------------
(* What an export leaves alone *)

\* Bounds
LEMMA BoundFacts == MaxExports \in Nat /\ IsFiniteSet(Rules)
<1>1. MaxExports \in Nat \ {0} /\ IsFiniteSet(Rules)
  BY ExportModulesAssumption, Zenon
<1>. QED BY <1>1

\* A rule's configuration
LEMMA ConfFacts ==
  ASSUME conf \in Confs, NEW r \in Rules
  PROVE  /\ Len(Exports(r)) \in 0 .. MaxExports /\ DOMAIN Exports(r) = 1 .. Len(Exports(r))
         /\ \A i \in DOMAIN Exports(r) :
               /\ <<r, i>> \in Configured /\ Of(<<r, i>>) = Exports(r)[i]
               /\ Of(<<r, i>>).module \in AllModules /\ Of(<<r, i>>).dest \in Dests
         /\ Len(conf[r].metrics) \in Nat /\ DOMAIN conf[r].metrics = 1 .. Len(conf[r].metrics)
<1> DEFINE E == [module : AllModules, dest : Dests, multi : BOOLEAN, flowId : BOOLEAN]
           e == Exports(r)
<1>1. e \in Seq(E) /\ Len(e) \in Nat /\ Len(e) <= MaxExports /\ conf[r].metrics \in Seq(DOMAIN Infos)
  <2>1. conf[r].exports \in Seq(E) /\ Len(conf[r].exports) <= MaxExports /\ conf[r].metrics \in Seq(DOMAIN Infos)
    BY ExportModulesAssumption, Zenon
  <2>2. e = conf[r].exports
    BY DEF Exports
  <2>. HIDE DEF E, e
  <2>. QED BY <2>1, <2>2
<1>2. \A x \in E : x.module \in AllModules /\ x.dest \in Dests
  OBVIOUS
<1>3. ASSUME NEW i \in DOMAIN e
      PROVE  /\ <<r, i>> \in Configured /\ Of(<<r, i>>) = e[i]
             /\ Of(<<r, i>>).module \in AllModules /\ Of(<<r, i>>).dest \in Dests
  <2>1. e[i] \in E /\ i \in 1 .. MaxExports
    <3>. HIDE DEF E, e
    <3>. QED BY <1>1, BoundFacts
  <2>2. <<r, i>> \in Uses
    BY <2>1 DEF Uses
  <2>. QED BY <1>2, <2>1, <2>2 DEF Configured, Of
<1>4. Len(e) \in 0 .. MaxExports /\ DOMAIN e = 1 .. Len(e)
  <2>. HIDE DEF E, e
  <2>1. DOMAIN e = 1 .. Len(e)
    BY <1>1
  <2>. QED BY <1>1, <2>1
<1>5. Len(conf[r].metrics) \in Nat /\ DOMAIN conf[r].metrics = 1 .. Len(conf[r].metrics)
  BY <1>1
<1>. QED BY <1>3, <1>4, <1>5

\* Each configured export is one of its rule's, of a known module.
LEMMA ConfiguredFacts ==
  ASSUME conf \in Confs, NEW u \in Configured
  PROVE  /\ u[1] \in Rules /\ u[2] \in DOMAIN Exports(u[1]) /\ u = <<u[1], u[2]>> /\ u \in Uses
         /\ Of(u).module \in AllModules /\ Of(u).dest \in Dests
<1>1. u \in Uses /\ u[1] \in Rules /\ u[2] \in DOMAIN Exports(u[1]) /\ u = <<u[1], u[2]>>
  BY DEF Configured, Uses
<1>. QED BY <1>1, ConfFacts

\* Connections and their users stay, and whether a file has an export record.
Kept(w, t) ==
    /\ Proper(t) /\ t.conns = w.conns /\ t.died = w.died
    /\ \A v \in Uses :
          \/ t.recs[v] = w.recs[v]
          \/ /\ v \in FileUses
             /\ w.recs[v] \in FileRecs => t.recs[v] \in FileRecs
             /\ w.recs[v] = None => t.recs[v] = None

LEMMA KeptFits ==
  ASSUME conf \in Confs, NEW w, NEW t, Kept(w, t), Fits(w)
  PROVE  Fits(t)
<1>1. \A u \in IpfixUses : u \in Uses /\ u \notin FileUses /\ t.recs[u] = w.recs[u]
  BY DEF IpfixUses, FileUses, Configured, FileModules, Kept
<1>2. Users(t) = Users(w) /\ \A c : UsersOf(t, c) = UsersOf(w, c)
  BY <1>1 DEF Users, UsersOf
<1>3. Counted(t, Users(t) # {})
  <2>1. t.conns = w.conns /\ \A u \in Users(w) : t.recs[u] = w.recs[u]
    BY <1>1 DEF Kept, Users
  <2>. QED BY <1>2, <2>1 DEF Counted, Fits
<1>4. \A u \in Uses : u \in FileUses => (w.recs[u] = None \/ w.recs[u] \in FileRecs)
  BY DEF Fits, FilesFit
<1>5. None \notin FileRecs
  BY DEF None, FileRecs
<1>6. \A u \in Uses : (t.recs[u] = None <=> w.recs[u] = None)
                      /\ (u \in FileUses => t.recs[u] = None \/ t.recs[u] \in FileRecs)
  BY <1>4, <1>5 DEF Kept
<1>7. FilesFit(t)
  BY <1>6 DEF FilesFit, FileUses, Configured
<1>8. Together(t)
  <2>1. \A r \in Rules : \A i \in DOMAIN Exports(r) : <<r, i>> \in Uses
    BY ConfFacts DEF Configured
  <2>. QED BY <1>6, <2>1 DEF Together, Fits
<1>. QED BY <1>3, <1>7, <1>8 DEF Fits

LEMMA KeptTransitive ==
  ASSUME NEW w, NEW t, NEW s, Kept(w, t), Kept(t, s)
  PROVE  Kept(w, s)
BY DEF Kept

\* The fields of a state
Fields == {"recs", "files", "sent", "buf", "last", "idle", "fds", "conns", "died"}

LEMMA FieldsOf ==
  ASSUME NEW w, Proper(w)
  PROVE  DOMAIN w = Fields
BY DEF Proper, Fields

LEMMA KeptSame ==
  ASSUME NEW w, Proper(w)
  PROVE  Kept(w, w)
BY DEF Kept

\* A state with these fields
LEMMA ProperMade ==
  ASSUME NEW t, DOMAIN t = Fields, t = [x \in DOMAIN t |-> t[x]], t.recs = [u \in Uses |-> t.recs[u]]
  PROVE  Proper(t)
<1> DEFINE s == [recs |-> t.recs, files |-> t.files, sent |-> t.sent, buf |-> t.buf, last |-> t.last,
                 idle |-> t.idle, fds |-> t.fds, conns |-> t.conns, died |-> t.died]
<1>1. DOMAIN s = Fields /\ s = [x \in DOMAIN s |-> s[x]] /\ \A x \in Fields : s[x] = t[x]
  BY DEF Fields
<1>. HIDE DEF s
<1>2. s = t
  BY <1>1
<1>. QED BY <1>2 DEF Proper, s

LEMMA KeptElse ==
  ASSUME NEW w, Proper(w), NEW t, t = [x \in DOMAIN w |-> t[x]],
         t.recs = w.recs, t.conns = w.conns, t.died = w.died
  PROVE  Kept(w, t)
<1>1. t.recs = [u \in Uses |-> t.recs[u]]
  BY DEF Proper
<1>2. DOMAIN t = Fields /\ t = [x \in DOMAIN t |-> t[x]]
  BY FieldsOf, Zenon
<1>3. Proper(t)
  BY <1>1, <1>2, ProperMade
<1>. QED BY <1>3 DEF Kept

\* Files
LEMMA KeptFiles ==
  ASSUME NEW w, Proper(w), NEW t, NEW F, t = [w EXCEPT !.files = F]
  PROVE  Kept(w, t)
<1>1. t = [x \in DOMAIN w |-> t[x]]
  OBVIOUS
<1>2. t.recs = w.recs /\ t.conns = w.conns /\ t.died = w.died
  BY FieldsOf DEF Fields
<1>. QED BY <1>1, <1>2, KeptElse

\* What was sent
LEMMA KeptSent ==
  ASSUME NEW w, Proper(w), NEW t, NEW S, t = [w EXCEPT !.sent = S]
  PROVE  Kept(w, t)
<1>1. t = [x \in DOMAIN w |-> t[x]]
  OBVIOUS
<1>2. t.recs = w.recs /\ t.conns = w.conns /\ t.died = w.died
  BY FieldsOf DEF Fields
<1>. QED BY <1>1, <1>2, KeptElse

\* What was sent and what waits
LEMMA KeptSending ==
  ASSUME NEW w, Proper(w), NEW t, NEW S, NEW B, t = [w EXCEPT !.sent = S, !.buf = B]
  PROVE  Kept(w, t)
<1>1. t = [x \in DOMAIN w |-> t[x]]
  OBVIOUS
<1>2. t.recs = w.recs /\ t.conns = w.conns /\ t.died = w.died
  BY FieldsOf DEF Fields
<1>. QED BY <1>1, <1>2, KeptElse

\* The same, and the time
LEMMA KeptCollecting ==
  ASSUME NEW w, Proper(w), NEW t, NEW S, NEW B, NEW I, t = [w EXCEPT !.sent = S, !.buf = B, !.idle = I]
  PROVE  Kept(w, t)
<1>1. t = [x \in DOMAIN w |-> t[x]]
  OBVIOUS
<1>2. t.recs = w.recs /\ t.conns = w.conns /\ t.died = w.died
  BY FieldsOf DEF Fields
<1>. QED BY <1>1, <1>2, KeptElse

\* The time
LEMMA KeptTime ==
  ASSUME NEW w, Proper(w), NEW t, NEW I, t = [w EXCEPT !.idle = I]
  PROVE  Kept(w, t)
<1>1. t = [x \in DOMAIN w |-> t[x]]
  OBVIOUS
<1>2. t.recs = w.recs /\ t.conns = w.conns /\ t.died = w.died
  BY FieldsOf DEF Fields
<1>. QED BY <1>1, <1>2, KeptElse

\* What waits
LEMMA KeptBuffer ==
  ASSUME NEW w, Proper(w), NEW t, NEW B, t = [w EXCEPT !.buf = B]
  PROVE  Kept(w, t)
<1>1. t = [x \in DOMAIN w |-> t[x]]
  OBVIOUS
<1>2. t.recs = w.recs /\ t.conns = w.conns /\ t.died = w.died
  BY FieldsOf DEF Fields
<1>. QED BY <1>1, <1>2, KeptElse

\* What a module starts with
LEMMA KeptModule ==
  ASSUME NEW w, Proper(w), NEW t, NEW B, NEW L, t = [w EXCEPT !.buf = B, !.last = L]
  PROVE  Kept(w, t)
<1>1. t = [x \in DOMAIN w |-> t[x]]
  OBVIOUS
<1>2. t.recs = w.recs /\ t.conns = w.conns /\ t.died = w.died
  BY FieldsOf DEF Fields
<1>. QED BY <1>1, <1>2, KeptElse

\* Sockets
LEMMA KeptSockets ==
  ASSUME NEW w, Proper(w), NEW t, NEW D, t = [w EXCEPT !.fds = D]
  PROVE  Kept(w, t)
<1>1. t = [x \in DOMAIN w |-> t[x]]
  OBVIOUS
<1>2. t.recs = w.recs /\ t.conns = w.conns /\ t.died = w.died
  BY FieldsOf DEF Fields
<1>. QED BY <1>1, <1>2, KeptElse

-----------------------------------------------------------------------------
(* Exporting a flow record *)

\* A file's export record is told that it is not the first time any more.
LEMMA KeptAgain ==
  ASSUME NEW w, Proper(w), NEW u \in FileUses
  PROVE  Kept(w, [w EXCEPT !.recs[u].first = FALSE])
<1> DEFINE R == [w.recs EXCEPT ![u] = [@ EXCEPT !.first = FALSE]]
           t == [w EXCEPT !.recs = R]
<1>1. DOMAIN w = Fields /\ DOMAIN w.recs = Uses /\ u \in Uses
  BY FieldsOf DEF Proper, FileUses, Configured
<1>2. \A v \in Uses : R[v] = IF v = u THEN [w.recs[u] EXCEPT !.first = FALSE] ELSE w.recs[v]
  BY <1>1
<1>3. R = [v \in Uses |-> R[v]]
  BY <1>1
<1>4. w.recs[u] \in FileRecs => R[u] \in FileRecs
  <2>1. ASSUME NEW x \in FileRecs, NEW y, y = [x EXCEPT !.first = FALSE] PROVE y \in FileRecs
    BY <2>1 DEF FileRecs
  <2>2. R[u] = [w.recs[u] EXCEPT !.first = FALSE]
    BY <1>2, Zenon DEF FileUses, Configured
  <2>. QED BY <2>1, <2>2
<1>5. w.recs[u] = None => R[u] = None
  <2>1. ASSUME NEW y, y = [None EXCEPT !.first = FALSE] PROVE y = None
    BY <2>1 DEF None
  <2>2. R[u] = [w.recs[u] EXCEPT !.first = FALSE]
    BY <1>2, Zenon DEF FileUses, Configured
  <2>. QED BY <2>1, <2>2
<1>. HIDE DEF R
<1>6. DOMAIN t = Fields /\ t = [x \in DOMAIN t |-> t[x]] /\ t.recs = R /\ t.conns = w.conns /\ t.died = w.died
  BY <1>1 DEF Fields
<1>7. Proper(t)
  <2>. HIDE DEF t
  <2>. QED BY <1>3, <1>6, ProperMade
<1>8. Kept(w, t)
  <2>. HIDE DEF t
  <2>. QED BY <1>2, <1>4, <1>5, <1>6, <1>7 DEF Kept
<1>. QED BY <1>8 DEF R

LEMMA ToFileKeeps ==
  ASSUME NEW w, Proper(w), NEW f, NEW entries
  PROVE  Kept(w, ToFile(w, f, entries)) /\ Proper(ToFile(w, f, entries))
<1>1. PICK F : ToFile(w, f, entries) = [w EXCEPT !.files = F]
  BY DEF ToFile
<1>2. Kept(w, ToFile(w, f, entries))
  BY <1>1, KeptFiles, Zenon
<1>. QED BY <1>2 DEF Kept

\* Whatever a module writes, it leaves connections and export records alone.
LEMMA ExportMetricKeeps ==
  ASSUME conf \in Confs, NEW w, Proper(w), NEW u \in Configured, NEW md
  PROVE  Kept(w, ExportMetric(w, u, Of(u), md).w)
<1> DEFINE x == Of(u)
           t == ExportMetric(w, u, x, md).w
<1>1. x.module \in AllModules
  BY ConfiguredFacts
<1>2. CASE x.module = "text_file"
  <2>1. PICK f, e : t = ToFile(w, f, e)
    BY <1>2 DEF ExportMetric, TextExport
  <2>. QED BY <2>1, ToFileKeeps
<1>3. CASE x.module = "ctext_file"
  <2>1. PICK f, e : t = ToFile(w, f, e)
    BY <1>3 DEF ExportMetric, CTextExport
  <2>. QED BY <2>1, ToFileKeeps
<1>4. CASE x.module = "ac_file"
  <2>1. PICK f, e : t = ToFile(w, f, e)
    BY <1>4 DEF ExportMetric, AcExport
  <2>. QED BY <2>1, ToFileKeeps
<1>5. CASE x.module = "netai_arff"
  <2>1. PICK f, e, g, h : t = [ToFile(IF w.recs[u].first THEN ToFile(w, g, h) ELSE w, f, e) EXCEPT !.recs[u].first = FALSE]
    BY <1>5 DEF ExportMetric, ArffExport
  <2> DEFINE s == IF w.recs[u].first THEN ToFile(w, g, h) ELSE w
             v == ToFile(s, f, e)
  <2>2. Kept(w, s) /\ Proper(s)
    BY ToFileKeeps, KeptSame DEF Kept
  <2>3. Kept(s, v) /\ Proper(v)
    <3>. HIDE DEF s
    <3>. QED BY <2>2, ToFileKeeps
  <2>4. u \in FileUses
    BY <1>5 DEF FileUses, FileModules
  <2>5. Kept(v, t)
    <3>1. t = [v EXCEPT !.recs[u].first = FALSE]
      BY <2>1
    <3>. HIDE DEF v, t
    <3>. QED BY <2>3, <2>4, <3>1, KeptAgain
  <2>. HIDE DEF s, v, t
  <2>6. Kept(w, v)
    BY <2>2, <2>3, KeptTransitive, Zenon
  <2>7. Kept(w, t)
    BY <2>5, <2>6, KeptTransitive, Zenon
  <2>. QED BY <2>7 DEF t
<1>6. CASE x.module = "bin_file"
  <2>1. PICK f, e, g : t = [ToFile(IF w.recs[u].first THEN [w EXCEPT !.files = g] ELSE w, f, e) EXCEPT !.recs[u].first = FALSE]
    BY <1>6 DEF ExportMetric, BinExport
  <2> DEFINE s == IF w.recs[u].first THEN [w EXCEPT !.files = g] ELSE w
             v == ToFile(s, f, e)
  <2>2. Kept(w, s) /\ Proper(s)
    <3>1. Kept(w, [w EXCEPT !.files = g])
      BY KeptFiles, Zenon
    <3>. QED BY <3>1, KeptSame DEF Kept
  <2>3. Kept(s, v) /\ Proper(v)
    <3>. HIDE DEF s
    <3>. QED BY <2>2, ToFileKeeps
  <2>4. u \in FileUses
    BY <1>6 DEF FileUses, FileModules
  <2>5. Kept(v, t)
    <3>1. t = [v EXCEPT !.recs[u].first = FALSE]
      BY <2>1
    <3>. HIDE DEF v, t
    <3>. QED BY <2>3, <2>4, <3>1, KeptAgain
  <2>. HIDE DEF s, v, t
  <2>6. Kept(w, v)
    BY <2>2, <2>3, KeptTransitive, Zenon
  <2>7. Kept(w, t)
    BY <2>5, <2>6, KeptTransitive, Zenon
  <2>. QED BY <2>7 DEF t
<1>7. CASE x.module = "ac_udp"
  <2>1. PICK S, B, I : t = [w EXCEPT !.sent = S, !.buf = B, !.idle = I]
    BY <1>7 DEF ExportMetric, UdpExport, Collected
  <2>. QED BY <2>1, KeptCollecting, Zenon
<1>8. CASE x.module = "netai_socket"
  <2>1. PICK S, B, I : t = [w EXCEPT !.sent = S, !.buf = B, !.idle = I]
    BY <1>8 DEF ExportMetric, SocketExport, Collected
  <2>. QED BY <2>1, KeptCollecting, Zenon
<1>9. CASE x.module = "ipfix"
  <2>1. PICK S : t = [w EXCEPT !.sent = S]
    BY <1>9 DEF ExportMetric, IpfixExport
  <2>. QED BY <2>1, KeptSent, Zenon
<1>. QED BY <1>1, <1>2, <1>3, <1>4, <1>5, <1>6, <1>7, <1>8, <1>9 DEF AllModules, FileModules, SocketModules

\* The data of a flow record, of n processing modules, and what is shared
Sound(n, w, acc) == Kept(w, acc.w) /\ DOMAIN acc.frec = 1 .. n

LEMMA ExportNextKeeps ==
  ASSUME conf \in Confs, NEW n \in Nat, NEW w, NEW acc, Sound(n, w, acc),
         NEW u \in Configured, NEW i
  PROVE  Sound(n, w, ExportNext(acc, u, i))
<1> DEFINE r == ExportMetric(acc.w, u, Of(u), acc.frec[i])
<1>1. Kept(w, acc.w) /\ Proper(acc.w) /\ DOMAIN acc.frec = 1 .. n
  BY DEF Sound, Kept
<1>2. Kept(acc.w, r.w)
  BY <1>1, ExportMetricKeeps
<1>3. Kept(w, r.w)
  <2>. HIDE DEF r
  <2>. QED BY <1>1, <1>2, KeptTransitive, Zenon
<1>4. ExportNext(acc, u, i) = [w |-> r.w, frec |-> [acc.frec EXCEPT ![i] = r.md]]
  BY DEF ExportNext
<1>. HIDE DEF r
<1>. QED BY <1>1, <1>3, <1>4 DEF Sound

LEMMA ExportDataKeeps ==
  ASSUME conf \in Confs, NEW n \in Nat, NEW w, NEW acc, Sound(n, w, acc), NEW u \in Configured
  PROVE  Sound(n, w, ExportData(acc, u))
<1>1. PICK st : /\ st[0] = acc /\ ExportData(acc, u) = st[n]
                /\ \A k \in 1 .. n : st[k] = Step("data", u, st[k - 1], k)
  BY DataSteps DEF Sound
<1> DEFINE S == {k \in 0 .. n : Sound(n, w, st[k])}
<1>2. 0 \in S
  BY <1>1
<1>3. ASSUME NEW k \in 1 .. n, k - 1 \in S PROVE k \in S
  <2>1. Sound(n, w, st[k - 1]) /\ k \in 0 .. n
    BY <1>3
  <2>2. st[k] = ExportNext(st[k - 1], u, k)
    BY <1>1 DEF Step
  <2>3. Sound(n, w, st[k])
    BY <2>1, <2>2, ExportNextKeeps
  <2>. QED BY <2>1, <2>3
<1>4. n \in S
  <2>. HIDE DEF S
  <2>. QED BY <1>2, <1>3, AlongStates
<1>. QED BY <1>1, <1>4

LEMMA ExportFlowRecordKeeps ==
  ASSUME conf \in Confs, NEW r \in Rules, NEW w, Proper(w), NEW frec, NEW m \in Nat,
         DOMAIN frec = 1 .. m
  PROVE  Kept(w, ExportFlowRecord(w, r, frec).w)
<1>1. PICK n \in Nat : DOMAIN Exports(r) = 1 .. n /\ \A i \in 1 .. n : <<r, i>> \in Configured
  BY ConfFacts
<1>0. PICK acc : acc = [w |-> w, frec |-> frec]
  OBVIOUS
<1>2. PICK st : /\ st[0] = acc /\ ExportFlowRecord(w, r, frec) = st[n]
                /\ \A k \in 1 .. n : st[k] = Step("place", r, st[k - 1], k)
  <2>1. DOMAIN Exports(r) = 1 .. n
    BY <1>1
  <2>. QED BY <1>0, <2>1, PlacesSteps
<1> DEFINE S == {k \in 0 .. n : Sound(m, w, st[k])}
<1>3. 0 \in S
  <2>1. st[0].w = w /\ st[0].frec = frec
    BY <1>0, <1>2
  <2>. QED BY <1>1, <2>1, KeptSame DEF Sound
<1>4. ASSUME NEW k \in 1 .. n, k - 1 \in S PROVE k \in S
  <2>1. Sound(m, w, st[k - 1]) /\ k \in 0 .. n /\ <<r, k>> \in Configured
    BY <1>1, <1>4
  <2>2. st[k] = ExportData(st[k - 1], <<r, k>>)
    BY <1>2 DEF Step
  <2>3. Sound(m, w, st[k])
    BY <2>1, <2>2, ExportDataKeeps
  <2>. QED BY <2>1, <2>3
<1>5. n \in S
  <2>. HIDE DEF S
  <2>. QED BY <1>1, <1>3, <1>4, AlongStates
<1>. QED BY <1>2, <1>5 DEF Sound

\* A timer sends what waits.
LEMMA SendBufferRecs ==
  ASSUME NEW w, Proper(w), NEW m, NEW fd
  PROVE  SendBuffer(w, m, fd).recs = w.recs
<1>1. PICK S, B : SendBuffer(w, m, fd) = [w EXCEPT !.sent = S, !.buf = B]
  BY DEF SendBuffer
<1>. QED BY <1>1, FieldsOf DEF Fields

LEMMA SendBufferKeeps ==
  ASSUME NEW w, Proper(w), NEW m, NEW fd
  PROVE  Kept(w, SendBuffer(w, m, fd)) /\ Proper(SendBuffer(w, m, fd))
<1>1. PICK S, B : SendBuffer(w, m, fd) = [w EXCEPT !.sent = S, !.buf = B]
  BY DEF SendBuffer
<1>2. Kept(w, SendBuffer(w, m, fd))
  BY <1>1, KeptSending, Zenon
<1>. QED BY <1>2 DEF Kept

LEMMA TimeoutKeeps ==
  ASSUME NEW w, Proper(w), NEW t, t = UdpTimeout(w) \/ t = SocketTimeout(w)
  PROVE  Kept(w, t)
<1>1. CASE t = w
  BY <1>1, KeptSame
<1>2. CASE t # w
  <2>1. PICK m, fd, I : t = [SendBuffer(w, m, fd) EXCEPT !.idle = I]
    BY <1>2 DEF UdpTimeout, SocketTimeout
  <2>2. Kept(w, SendBuffer(w, m, fd)) /\ Proper(SendBuffer(w, m, fd))
    BY SendBufferKeeps
  <2>3. Kept(SendBuffer(w, m, fd), t)
    BY <2>1, <2>2, KeptTime, Zenon
  <2>. QED BY <2>2, <2>3, KeptTransitive, Zenon
<1>. QED BY <1>1, <1>2

-----------------------------------------------------------------------------
(* Connections and their users *)

LEMMA UsesFinite == IsFiniteSet(Uses) /\ \A S \in SUBSET Uses : IsFiniteSet(S)
<1>1. IsFiniteSet(Rules) /\ IsFiniteSet(1 .. MaxExports)
  <2>1. ASSUME NEW k \in Nat PROVE IsFiniteSet(1 .. k)
    BY FS_Interval
  <2>. QED BY <2>1, BoundFacts
<1>2. Uses = Rules \X (1 .. MaxExports)
  BY DEF Uses
<1>3. IsFiniteSet(Uses)
  BY <1>1, <1>2, FS_Product
<1>. QED BY <1>3, FS_Subset

LEMMA UsersFinite ==
  ASSUME NEW w, NEW c
  PROVE  /\ UsersOf(w, c) \subseteq Users(w) /\ Users(w) \subseteq IpfixUses /\ IpfixUses \subseteq Uses
         /\ IsFiniteSet(UsersOf(w, c)) /\ Cardinality(UsersOf(w, c)) \in Nat
<1>1. UsersOf(w, c) \subseteq Users(w) /\ Users(w) \subseteq IpfixUses /\ IpfixUses \subseteq Uses
  BY DEF UsersOf, Users, IpfixUses, Configured
<1>2. IsFiniteSet(UsersOf(w, c))
  <2>1. UsersOf(w, c) \in SUBSET Uses
    BY <1>1
  <2>. QED BY <2>1, UsesFinite
<1>. QED BY <1>1, <1>2, FS_CardinalityType

\* The lowest of some connections is one of them.
LEMMA LowestIn ==
  ASSUME NEW S, S \subseteq ConnIds, S # {}
  PROVE  Lowest(S) \in S
<1> DEFINE R == OpToRel(<, Nat)
<1>1. IsWellFoundedOn(R, Nat)
  BY NatLessThanWellFounded
<1>2. \A x, y \in Nat : y < x => <<y, x>> \in R
  BY DEF OpToRel
<1>3. S \subseteq Nat
  BY ExportSocketsAssumption DEF ConnIds
<1>. HIDE DEF R
<1>4. PICK x \in S : \A y \in S : ~(<<y, x>> \in R)
  BY <1>1, <1>3, WFMin
<1>5. \A y \in S : x <= y
  <2>. TAKE y \in S
  <2>1. ~(y < x) /\ x \in Nat /\ y \in Nat
    BY <1>2, <1>3, <1>4
  <2>. QED BY <2>1
<1>. QED BY <1>5 DEF Lowest

\* What matters of the users: states with the same records of ipfix
LEMMA SameUsers ==
  ASSUME NEW w, NEW t, \A u \in IpfixUses : t.recs[u] = w.recs[u]
  PROVE  /\ Users(t) = Users(w)
         /\ \A c : UsersOf(t, c) = UsersOf(w, c)
         /\ \A d : t.conns = w.conns => (Counted(w, d) => Counted(t, d))
<1>1. Users(t) = Users(w) /\ \A c : UsersOf(t, c) = UsersOf(w, c)
  BY DEF Users, UsersOf
<1>2. \A u \in Users(w) : t.recs[u] = w.recs[u]
  BY DEF Users
<1>3. ASSUME NEW d, t.conns = w.conns, Counted(w, d) PROVE Counted(t, d)
  BY <1>1, <1>2, <1>3 DEF Counted
<1>. QED BY <1>1, <1>3

\* One connection has one user more.
LEMMA MoreUsers ==
  ASSUME NEW w, NEW t, NEW u \in IpfixUses, NEW c, w.recs[u] = None, t.recs[u] # None,
         t.recs[u].fd = c, \A v \in IpfixUses : v # u => t.recs[v] = w.recs[v]
  PROVE  /\ Users(t) = Users(w) \cup {u}
         /\ \A d : UsersOf(t, d) = IF d = c THEN UsersOf(w, d) \cup {u} ELSE UsersOf(w, d)
         /\ \A d : Cardinality(UsersOf(t, d)) = Cardinality(UsersOf(w, d)) + IF d = c THEN 1 ELSE 0
<1>1. Users(t) = Users(w) \cup {u} /\ u \notin Users(w)
  BY DEF Users
<1>2. \A d : UsersOf(t, d) = IF d = c THEN UsersOf(w, d) \cup {u} ELSE UsersOf(w, d)
  <2>1. \A v \in Users(w) : v # u /\ t.recs[v] = w.recs[v]
    BY DEF Users
  <2>. QED BY <1>1, <2>1 DEF UsersOf
<1>3. ASSUME NEW d PROVE Cardinality(UsersOf(t, d)) = Cardinality(UsersOf(w, d)) + IF d = c THEN 1 ELSE 0
  <2>1. /\ IsFiniteSet(UsersOf(w, d)) /\ Cardinality(UsersOf(w, d)) \in Nat
        /\ u \notin UsersOf(w, d)
    BY <1>1, UsersFinite
  <2>2. Cardinality(UsersOf(w, d) \cup {u}) = Cardinality(UsersOf(w, d)) + 1
    BY <2>1, FS_AddElement
  <2>. QED BY <1>2, <2>1, <2>2
<1>. QED BY <1>1, <1>2, <1>3

\* A connection nobody uses has no users.
LEMMA NoUsers ==
  ASSUME NEW w, NEW d, Counted(w, d), NEW c \in ConnIds, w.conns[c].ref = 0
  PROVE  UsersOf(w, c) = {}
<1>1. w.conns[c].ref = Cardinality(UsersOf(w, c)) + IF c = 0 /\ d THEN 1 ELSE 0
  BY DEF Counted
<1>2. Cardinality(UsersOf(w, c)) \in Nat /\ IsFiniteSet(UsersOf(w, c))
  BY UsersFinite
<1>3. Cardinality(UsersOf(w, c)) = 0
  BY <1>1, <1>2
<1>. QED BY <1>2, <1>3, FS_EmptySet


-----------------------------------------------------------------------------
(* Making an export record *)

\* A record is made or given up; nothing else changes that has to do with
\* connections.
Put(s, t, u, rec) ==
    /\ Proper(t) /\ t.conns = s.conns /\ t.died = s.died
    /\ t.recs[u] = rec /\ \A v \in Uses : v # u => t.recs[v] = s.recs[v]

LEMMA PutMade ==
  ASSUME NEW s, Proper(s), NEW u \in Uses, NEW rec, NEW t, t = [x \in DOMAIN s |-> t[x]],
         t.recs = [s.recs EXCEPT ![u] = rec], t.conns = s.conns, t.died = s.died
  PROVE  Put(s, t, u, rec)
<1>1. DOMAIN s.recs = Uses
  BY DEF Proper
<1>2. t.recs = [v \in Uses |-> t.recs[v]]
  BY <1>1
<1>3. DOMAIN t = Fields /\ t = [x \in DOMAIN t |-> t[x]]
  BY FieldsOf, Zenon
<1>4. Proper(t)
  BY <1>2, <1>3, ProperMade
<1>. QED BY <1>1, <1>4 DEF Put

LEMMA PutAlone ==
  ASSUME NEW s, Proper(s), NEW u \in Uses, NEW rec, NEW t, t = [s EXCEPT !.recs[u] = rec]
  PROVE  Put(s, t, u, rec)
<1>1. t = [x \in DOMAIN s |-> t[x]]
  OBVIOUS
<1>2. t.recs = [s.recs EXCEPT ![u] = rec] /\ t.conns = s.conns /\ t.died = s.died
  BY FieldsOf DEF Fields
<1>. QED BY <1>1, <1>2, PutMade

LEMMA PutConnected ==
  ASSUME NEW s, Proper(s), NEW u \in Uses, NEW m, NEW dest
  PROVE  \E fd : Put(s, Connected(s, u, m, dest), u, [fd |-> fd, first |-> TRUE])
<1> DEFINE fd == Lowest({f \in DOMAIN s.fds : s.fds[f] = Closed})
           t == Connected(s, u, m, dest)
           rec == [fd |-> fd, first |-> TRUE]
<1>1. t = [s EXCEPT !.fds = [s.fds EXCEPT ![fd] = dest], !.last = [s.last EXCEPT ![m] = fd],
                    !.recs = [s.recs EXCEPT ![u] = rec]]
  BY DEF Connected
<1>. HIDE DEF rec, t
<1>2. t = [x \in DOMAIN s |-> t[x]]
  BY <1>1
<1>3. t.recs = [s.recs EXCEPT ![u] = rec] /\ t.conns = s.conns /\ t.died = s.died
  BY <1>1, FieldsOf DEF Fields
<1>4. Put(s, t, u, rec)
  BY <1>2, <1>3, PutMade
<1>. QED BY <1>4 DEF rec, t

\* A module that starts
LEMMA InitModuleKeeps ==
  ASSUME NEW w, Proper(w), NEW m, m # "ipfix", NEW s, s = InitModule(w, m)
  PROVE  Proper(s) /\ s.recs = w.recs /\ s.conns = w.conns /\ s.died = w.died
<1>1. CASE s = w
  BY <1>1
<1>2. CASE s # w
  <2>1. PICK B, L : s = [w EXCEPT !.buf = B, !.last = L]
    BY <1>2 DEF InitModule
  <2>2. Kept(w, s)
    BY <2>1, KeptModule, Zenon
  <2>3. s.recs = w.recs
    BY <2>1, FieldsOf DEF Fields
  <2>. QED BY <2>2, <2>3 DEF Kept
<1>. QED BY <1>1, <1>2

LEMMA InitOther ==
  ASSUME conf \in Confs, NEW w, Proper(w), NEW u \in Configured, Of(u).module # "ipfix"
  PROVE  \E rec : /\ Put(w, InitExportRec(w, u), u, rec) /\ rec # None
                  /\ u \in FileUses => rec \in FileRecs
<1> DEFINE m == Of(u).module
           t == InitExportRec(w, u)
<1>1. PICK s : s = InitModule(w, m)
  OBVIOUS
<1>2. Proper(s) /\ s.recs = w.recs /\ s.conns = w.conns /\ s.died = w.died
  BY <1>1, InitModuleKeeps
<1>3. m \in AllModules /\ u \in Uses
  BY ConfiguredFacts
<1>4. CASE m \in FileModules
  <2>1. t = [s EXCEPT !.recs[u] = NewRec]
    BY <1>1, <1>4 DEF InitExportRec, FileModules, TextInit, CTextInit, AcInit, ArffInit, BinInit
  <2>2. NewRec # None /\ NewRec \in FileRecs
    BY DEF NewRec, None, FileRecs
  <2>. HIDE DEF t
  <2>3. Put(s, t, u, NewRec)
    BY <1>2, <1>3, <2>1, PutAlone
  <2>4. Put(w, t, u, NewRec)
    BY <1>2, <2>3 DEF Put
  <2>. QED BY <2>2, <2>4 DEF t
<1>5. CASE m \in SocketModules
  <2>1. PICK d : t = Connected(s, u, m, d)
    BY <1>1, <1>5 DEF InitExportRec, SocketModules, UdpInit, UdpOpen, SocketInit, SocketOpen
  <2>2. PICK fd : Put(s, Connected(s, u, m, d), u, [fd |-> fd, first |-> TRUE])
    BY <1>2, <1>3, PutConnected
  <2>3. PICK rec : rec = [fd |-> fd, first |-> TRUE]
    OBVIOUS
  <2>4. rec # None
    BY <2>3 DEF None
  <2>5. u \notin FileUses
    BY <1>5 DEF FileUses, FileModules, SocketModules
  <2>. HIDE DEF t
  <2>6. Put(w, t, u, rec)
    BY <1>2, <2>1, <2>2, <2>3 DEF Put
  <2>. QED BY <2>4, <2>5, <2>6 DEF t
<1>. QED BY <1>3, <1>4, <1>5 DEF AllModules

\* Connections are opened and closed.
LEMMA ConnsMade ==
  ASSUME NEW w, Proper(w), NEW C, NEW t, t = [w EXCEPT !.conns = C]
  PROVE  Proper(t) /\ t.recs = w.recs /\ t.died = w.died /\ t.conns = C
<1>1. t.recs = w.recs /\ t.died = w.died /\ t.conns = C
  BY FieldsOf DEF Fields
<1>2. t = [x \in DOMAIN w |-> t[x]]
  OBVIOUS
<1>3. DOMAIN t = Fields /\ t = [x \in DOMAIN t |-> t[x]]
  BY <1>2, FieldsOf, Zenon
<1>4. t.recs = [u \in Uses |-> t.recs[u]]
  BY <1>1 DEF Proper
<1>5. Proper(t)
  BY <1>3, <1>4, ProperMade
<1>. QED BY <1>1, <1>5

LEMMA ConnOpened ==
  ASSUME NEW w, Proper(w), w.conns \in Conns, NEW c \in ConnIds, NEW dest \in Dests,
         NEW t, t = OpenConn(w, c, dest)
  PROVE  /\ Proper(t) /\ t.recs = w.recs /\ t.died = w.died /\ t.conns \in Conns
         /\ \A d \in ConnIds : /\ t.conns[d].ref = w.conns[d].ref + IF d = c THEN 1 ELSE 0
                               /\ t.conns[d].dest = IF d = c THEN dest ELSE w.conns[d].dest
<1> DEFINE new == [ref |-> w.conns[c].ref + 1, dest |-> dest]
           C == [w.conns EXCEPT ![c] = new]
<1>1. t = [w EXCEPT !.conns = C]
  BY DEF OpenConn
<1>2. new \in [ref : Nat, dest : Dests \cup {Closed}] /\ new.ref = w.conns[c].ref + 1 /\ new.dest = dest
  BY DEF Conns
<1>3. \A d \in ConnIds : w.conns[d].ref \in Nat
  BY DEF Conns
<1>. HIDE DEF new
<1>4. C \in Conns /\ \A d \in ConnIds : C[d] = IF d = c THEN new ELSE w.conns[d]
  BY <1>2 DEF Conns
<1>. HIDE DEF C
<1>5. Proper(t) /\ t.recs = w.recs /\ t.died = w.died /\ t.conns = C
  BY <1>1, ConnsMade
<1>. QED BY <1>2, <1>3, <1>4, <1>5

LEMMA NobodyConnected ==
  ASSUME NEW w, Proper(w), Users(w) = {}, NEW t, t = CloseAllConn(w)
  PROVE  /\ Proper(t) /\ t.recs = w.recs /\ t.died = w.died /\ t.conns \in Conns
         /\ \A c \in ConnIds : t.conns[c].ref = 0
         /\ Users(t) = {} /\ \A c : Cardinality(UsersOf(t, c)) = 0
<1>1. t = [w EXCEPT !.conns = NoConns]
  BY DEF CloseAllConn
<1>2. Proper(t) /\ t.recs = w.recs /\ t.died = w.died /\ t.conns = NoConns
  BY <1>1, ConnsMade
<1>3. NoConns \in Conns /\ \A c \in ConnIds : NoConns[c].ref = 0
  BY DEF NoConns, Conns, ConnIds
<1>4. Users(t) = {} /\ \A c : UsersOf(t, c) = {}
  BY <1>2 DEF Users, UsersOf
<1>5. \A c : Cardinality(UsersOf(t, c)) = 0
  BY <1>4, FS_EmptySet
<1>. QED BY <1>2, <1>3, <1>4, <1>5

\* ipfix starts: the configured collector is connected.
LEMMA InitIpfixModule ==
  ASSUME NEW w, Proper(w), NEW s, s = InitModule(w, "ipfix")
  PROVE  /\ Proper(s) /\ s.recs = w.recs /\ s.died = w.died
         /\ Counted(w, Users(w) # {}) => Counted(s, TRUE)
<1>1. InUse(w, "ipfix") <=> Users(w) # {}
  BY DEF InUse, Users, Open, IpfixUses
<1>2. CASE Users(w) # {}
  <2>1. s = w
    BY <1>1, <1>2 DEF InitModule, SocketModules
  <2>2. Counted(w, Users(w) # {}) => Counted(w, TRUE)
    BY <1>2 DEF Counted
  <2>. QED BY <2>1, <2>2
<1>3. CASE Users(w) = {}
  <2>1. PICK v : v = CloseAllConn(w)
    OBVIOUS
  <2>2. s = OpenConn(v, 0, DefaultDest)
    BY <1>1, <1>3, <2>1 DEF InitModule, IpfixInitModule, SocketModules
  <2>3. /\ Proper(v) /\ v.recs = w.recs /\ v.died = w.died /\ v.conns \in Conns
        /\ \A c \in ConnIds : v.conns[c].ref = 0
        /\ Users(v) = {} /\ \A c : Cardinality(UsersOf(v, c)) = 0
    BY <1>3, <2>1, NobodyConnected
  <2>4. 0 \in ConnIds /\ DefaultDest \in Dests
    <3>1. 0 \in ConnIds
      BY ExportSocketsAssumption DEF ConnIds
    <3>2. DefaultDest \in Dests
      BY ExportModulesAssumption, Zenon
    <3>. QED BY <3>1, <3>2
  <2>5. /\ Proper(s) /\ s.recs = v.recs /\ s.died = v.died /\ s.conns \in Conns
        /\ \A d \in ConnIds : s.conns[d].ref = v.conns[d].ref + IF d = 0 THEN 1 ELSE 0
    BY <2>2, <2>3, <2>4, ConnOpened
  <2>6. Users(s) = Users(v) /\ \A c : UsersOf(s, c) = UsersOf(v, c)
    BY <2>5, SameUsers
  <2>7. Counted(s, TRUE)
    BY <2>3, <2>5, <2>6 DEF Counted
  <2>. QED BY <2>3, <2>5, <2>7
<1>. QED BY <1>2, <1>3

LEMMA InitIpfix ==
  ASSUME conf \in Confs, NEW w, Proper(w), NEW u \in IpfixUses,
         NEW t, t = InitExportRec(w, u)
  PROVE  /\ Proper(t) /\ (w.died => t.died) /\ \A v \in Uses : v # u => t.recs[v] = w.recs[v]
         /\ w.recs[u] = None /\ Counted(w, Users(w) # {}) =>
                t.died \/ (t.recs[u] # None /\ Counted(t, Users(t) # {}))
<1> DEFINE x == Of(u)
<1>1. u \in Uses /\ u \in Configured /\ x.dest \in Dests /\ x.module = "ipfix"
  <2>1. u \in Configured /\ x.module = "ipfix"
    BY DEF IpfixUses
  <2>. QED BY <2>1, ConfiguredFacts
<1>2. PICK s : s = InitModule(w, "ipfix")
  OBVIOUS
<1>3. /\ Proper(s) /\ s.recs = w.recs /\ s.died = w.died
      /\ Counted(w, Users(w) # {}) => Counted(s, TRUE)
  BY <1>2, InitIpfixModule
<1>4. t = IpfixInit(s, u, x)
  BY <1>1, <1>2 DEF InitExportRec
<1>. HIDE DEF x
<1> DEFINE old == ConnsTo(s, x.dest)
           c == Lowest(IF old # {} THEN old ELSE UnusedConns(s))
<1>5. CASE old \cup UnusedConns(s) = {}
  <2>1. t = [s EXCEPT !.died = TRUE]
    BY <1>4, <1>5 DEF IpfixInit
  <2>2. t.recs = s.recs /\ t.died = TRUE /\ t = [y \in DOMAIN s |-> t[y]]
    BY <1>3, <2>1, FieldsOf DEF Fields
  <2>3. DOMAIN t = Fields /\ t = [y \in DOMAIN t |-> t[y]]
    BY <1>3, <2>2, FieldsOf, Zenon
  <2>4. t.recs = [v \in Uses |-> t.recs[v]]
    BY <1>3, <2>2 DEF Proper
  <2>5. Proper(t)
    BY <2>3, <2>4, ProperMade
  <2>. QED BY <1>3, <2>2, <2>5
<1>6. CASE old \cup UnusedConns(s) # {}
  <2> DEFINE rec == [fd |-> c, first |-> TRUE]
  <2>1. PICK v : v = OpenConn(s, c, x.dest)
    OBVIOUS
  <2>2. t = [v EXCEPT !.recs[u] = rec]
    BY <1>4, <1>6, <2>1 DEF IpfixInit
  <2>3. Proper(v) /\ v.recs = s.recs /\ v.died = s.died
    <3>1. PICK C : v = [s EXCEPT !.conns = C]
      BY <2>1 DEF OpenConn
    <3>. QED BY <1>3, <3>1, ConnsMade
  <2>4. rec # None /\ rec.fd = c
    BY DEF None
  <2>. HIDE DEF rec
  <2>5. Put(v, t, u, rec)
    BY <1>1, <2>2, <2>3, PutAlone
  <2>6. /\ Proper(t) /\ (w.died => t.died) /\ t.recs[u] = rec /\ t.conns = v.conns
        /\ \A y \in Uses : y # u => t.recs[y] = w.recs[y]
    BY <1>3, <2>3, <2>5 DEF Put
  <2>7. ASSUME w.recs[u] = None, Counted(w, Users(w) # {}) PROVE Counted(t, Users(t) # {})
    <3>1. Counted(s, TRUE) /\ s.conns \in Conns
      BY <1>3, <2>7 DEF Counted
    <3>2. DOMAIN s.conns = ConnIds
      BY <3>1 DEF Conns
    <3>3. c \in ConnIds /\ (c \in old \/ s.conns[c].ref = 0)
      <4>1. old \subseteq ConnIds /\ UnusedConns(s) \subseteq ConnIds
        BY <3>2 DEF ConnsTo, UnusedConns
      <4>2. c \in IF old # {} THEN old ELSE UnusedConns(s)
        <5> DEFINE S == IF old # {} THEN old ELSE UnusedConns(s)
        <5>1. S # {} /\ S \subseteq ConnIds
          BY <1>6, <4>1
        <5>. HIDE DEF S
        <5>2. Lowest(S) \in S
          BY <5>1, LowestIn
        <5>. QED BY <5>2 DEF S
      <4>. QED BY <4>1, <4>2 DEF UnusedConns
    <3>4. c \in old => s.conns[c].dest = x.dest
      BY DEF ConnsTo
    <3>. HIDE DEF c, old
    <3>5. /\ v.conns \in Conns
          /\ \A d \in ConnIds : /\ v.conns[d].ref = s.conns[d].ref + IF d = c THEN 1 ELSE 0
                                /\ v.conns[d].dest = IF d = c THEN x.dest ELSE s.conns[d].dest
      BY <1>1, <1>3, <2>1, <3>1, <3>3, ConnOpened DEF x
    <3>6. /\ Users(t) = Users(s) \cup {u}
          /\ \A d : UsersOf(t, d) = IF d = c THEN UsersOf(s, d) \cup {u} ELSE UsersOf(s, d)
          /\ \A d : Cardinality(UsersOf(t, d)) = Cardinality(UsersOf(s, d)) + IF d = c THEN 1 ELSE 0
      <4>1. \A y \in IpfixUses : y # u => t.recs[y] = s.recs[y]
        BY <1>3, <2>6 DEF IpfixUses, Configured
      <4>2. s.recs[u] = None /\ t.recs[u] # None /\ t.recs[u].fd = c
        BY <1>3, <2>4, <2>6, <2>7
      <4>. QED BY <4>1, <4>2, MoreUsers
    <3>7. \A d \in ConnIds : t.conns[d].ref = Cardinality(UsersOf(t, d)) + IF d = 0 THEN 1 ELSE 0
      <4>. TAKE d \in ConnIds
      <4>1. s.conns[d].ref = Cardinality(UsersOf(s, d)) + IF d = 0 THEN 1 ELSE 0
        BY <3>1 DEF Counted
      <4>2. Cardinality(UsersOf(s, d)) \in Nat
        BY UsersFinite
      <4>. QED BY <2>6, <3>5, <3>6, <4>1, <4>2
    <3>8. ASSUME NEW y \in Users(t)
          PROVE  t.recs[y].fd \in ConnIds /\ t.conns[t.recs[y].fd].dest = Of(y).dest
      <4>1. CASE y = u
        BY <2>4, <2>6, <3>3, <3>5, <4>1 DEF x
      <4>2. CASE y # u
        <5>1. y \in Users(s) /\ t.recs[y] = s.recs[y]
          BY <1>3, <2>6, <3>6, <4>2 DEF Users, IpfixUses, Configured
        <5>2. s.recs[y].fd \in ConnIds /\ s.conns[s.recs[y].fd].dest = Of(y).dest
          BY <3>1, <5>1 DEF Counted
        <5>3. CASE s.recs[y].fd = c
          <6>1. y \in UsersOf(s, c)
            BY <5>1, <5>3 DEF UsersOf
          <6>2. s.conns[c].ref # 0
            BY <3>1, <3>3, <6>1, NoUsers
          <6>. QED BY <2>6, <3>3, <3>4, <3>5, <5>1, <5>2, <5>3, <6>2
        <5>4. CASE s.recs[y].fd # c
          BY <2>6, <3>5, <5>1, <5>2, <5>4
        <5>. QED BY <5>3, <5>4
      <4>. QED BY <4>1, <4>2
    <3>9. Users(t) # {} /\ t.conns \in Conns
      BY <2>6, <3>5, <3>6
    <3>. QED BY <3>7, <3>8, <3>9 DEF Counted
  <2>. QED BY <2>4, <2>6, <2>7
<1>. QED BY <1>5, <1>6

-----------------------------------------------------------------------------
(* Giving up an export record *)

\* One connection has one user less.
LEMMA FewerUsers ==
  ASSUME NEW w, NEW t, NEW u \in IpfixUses, NEW c, w.recs[u] # None, w.recs[u].fd = c,
         t.recs[u] = None, \A v \in IpfixUses : v # u => t.recs[v] = w.recs[v]
  PROVE  /\ Users(t) = Users(w) \ {u}
         /\ \A d : UsersOf(t, d) \subseteq UsersOf(w, d)
         /\ \A d : Cardinality(UsersOf(t, d)) = Cardinality(UsersOf(w, d)) - IF d = c THEN 1 ELSE 0
<1>1. Users(t) = Users(w) \ {u} /\ u \in Users(w)
  BY DEF Users
<1>2. \A d : UsersOf(t, d) = IF d = c THEN UsersOf(w, d) \ {u} ELSE UsersOf(w, d)
  <2>1. \A v \in Users(w) : v # u => t.recs[v] = w.recs[v]
    BY DEF Users
  <2>. QED BY <1>1, <2>1 DEF UsersOf
<1>3. ASSUME NEW d PROVE Cardinality(UsersOf(t, d)) = Cardinality(UsersOf(w, d)) - IF d = c THEN 1 ELSE 0
  <2>1. IsFiniteSet(UsersOf(w, d)) /\ Cardinality(UsersOf(w, d)) \in Nat
    BY UsersFinite
  <2>2. CASE d = c
    <3>1. u \in UsersOf(w, d)
      BY <1>1, <2>2 DEF UsersOf
    <3>2. Cardinality(UsersOf(w, d) \ {u}) = Cardinality(UsersOf(w, d)) - 1
      BY <2>1, <3>1, FS_RemoveElement
    <3>. QED BY <1>2, <2>2, <3>2
  <2>3. CASE d # c
    BY <1>2, <2>1, <2>3
  <2>. QED BY <2>2, <2>3
<1>. QED BY <1>1, <1>2, <1>3

\* What is closed or sent on the way
LEMMA DestroyOther ==
  ASSUME conf \in Confs, NEW w, Proper(w), NEW u \in Configured, Of(u).module # "ipfix",
         NEW t, t = DestroyExportRec(w, u)
  PROVE  Put(w, t, u, None)
<1> DEFINE m == Of(u).module
<1>1. m \in AllModules /\ u \in Uses
  BY ConfiguredFacts
<1>2. PICK s : s = CASE m = "ac_udp" -> UdpDestroy(w, u)
                     [] m = "netai_socket" -> SocketDestroy(w, u)
                     [] m = "ipfix" -> IpfixDestroy(w, u)
                     [] OTHER -> w
  OBVIOUS
<1>3. PICK v : v = [s EXCEPT !.recs[u] = None]
  OBVIOUS
<1>4. t = DestroyModule(v, m)
  BY <1>2, <1>3 DEF DestroyExportRec
<1>5. Proper(s) /\ s.recs = w.recs /\ s.conns = w.conns /\ s.died = w.died
  <2>1. CASE m = "ac_udp"
    <3>1. PICK D : s = [w EXCEPT !.fds = D]
      BY <1>2, <2>1 DEF UdpDestroy
    <3>2. Kept(w, s)
      BY <3>1, KeptSockets, Zenon
    <3>3. s.recs = w.recs
      BY <3>1, FieldsOf DEF Fields
    <3>. QED BY <3>2, <3>3 DEF Kept
  <2>2. CASE m = "netai_socket"
    <3>1. PICK x : x = IF w.buf["netai_socket"] # <<>> THEN SendBuffer(w, "netai_socket", w.recs[u].fd) ELSE w
      OBVIOUS
    <3>2. PICK D : s = [x EXCEPT !.fds = D]
      BY <1>2, <2>2, <3>1 DEF SocketDestroy
    <3>3. Kept(w, x) /\ Proper(x) /\ x.recs = w.recs
      BY <3>1, KeptSame, SendBufferKeeps, SendBufferRecs DEF Kept
    <3>4. Kept(x, s)
      BY <3>2, <3>3, KeptSockets, Zenon
    <3>5. s.recs = x.recs
      BY <3>2, <3>3, FieldsOf DEF Fields
    <3>. QED BY <3>3, <3>4, <3>5 DEF Kept
  <2>3. CASE m \in FileModules
    <3>1. s = w
      BY <1>2, <2>3 DEF FileModules
    <3>. QED BY <3>1
  <2>. QED BY <1>1, <2>1, <2>2, <2>3 DEF AllModules, SocketModules
<1>6. Put(s, v, u, None)
  BY <1>1, <1>3, <1>5, PutAlone
<1>7. Proper(v) /\ Kept(v, t) /\ t.recs = v.recs
  <2>1. Proper(v)
    BY <1>6 DEF Put
  <2>2. CASE t = v
    BY <2>1, <2>2, KeptSame
  <2>3. CASE t # v /\ m = "ac_udp"
    <3>1. t = SendBuffer(v, "ac_udp", v.last["ac_udp"])
      BY <1>4, <2>3 DEF DestroyModule, UdpDestroyModule
    <3>. QED BY <2>1, <3>1, SendBufferKeeps, SendBufferRecs
  <2>4. CASE t # v /\ m = "netai_socket"
    <3>1. PICK B : t = [v EXCEPT !.buf = B]
      BY <1>4, <2>4 DEF DestroyModule
    <3>2. Kept(v, t)
      BY <2>1, <3>1, KeptBuffer, Zenon
    <3>3. t.recs = v.recs
      BY <2>1, <3>1, FieldsOf DEF Fields
    <3>. QED BY <2>1, <3>2, <3>3
  <2>5. CASE t # v /\ m \in FileModules
    BY <1>4, <2>5 DEF DestroyModule, FileModules
  <2>. QED BY <1>1, <2>2, <2>3, <2>4, <2>5 DEF AllModules, SocketModules
<1>. QED BY <1>5, <1>6, <1>7 DEF Put, Kept

LEMMA DestroyIpfix ==
  ASSUME conf \in Confs, NEW w, Proper(w), NEW u \in IpfixUses,
         NEW t, t = DestroyExportRec(w, u)
  PROVE  /\ Proper(t) /\ t.died = w.died /\ t.recs[u] = None
         /\ \A v \in Uses : v # u => t.recs[v] = w.recs[v]
         /\ w.recs[u] # None /\ Counted(w, Users(w) # {}) => Counted(t, Users(t) # {})
<1> DEFINE c == w.recs[u].fd
           C == [w.conns EXCEPT ![c] = [w.conns[c] EXCEPT !.ref = @ - 1]]
<1>1. u \in Uses /\ Of(u).module = "ipfix"
  BY DEF IpfixUses, Configured
<1>2. PICK s : s = IpfixDestroy(w, u)
  OBVIOUS
<1>3. PICK v : v = [s EXCEPT !.recs[u] = None]
  OBVIOUS
<1>4. t = DestroyModule(v, "ipfix") /\ s = [w EXCEPT !.conns = C]
  <2>1. t = DestroyModule(v, "ipfix")
    BY <1>1, <1>2, <1>3 DEF DestroyExportRec
  <2>2. s = [w EXCEPT !.conns = C]
    BY <1>2 DEF IpfixDestroy
  <2>. QED BY <2>1, <2>2
<1>. HIDE DEF C
<1>5. Proper(s) /\ s.recs = w.recs /\ s.died = w.died /\ s.conns = C
  BY <1>4, ConnsMade
<1>6. Put(s, v, u, None)
  BY <1>1, <1>3, <1>5, PutAlone
<1>7. /\ Proper(v) /\ v.died = w.died /\ v.recs[u] = None /\ v.conns = C
      /\ \A x \in Uses : x # u => v.recs[x] = w.recs[x]
  BY <1>5, <1>6 DEF Put
<1>8. InUse(v, "ipfix") <=> Users(v) # {}
  BY DEF InUse, Users, Open, IpfixUses
<1>9. CASE Users(v) = {}
  <2>1. t = CloseAllConn(v)
    BY <1>4, <1>8, <1>9 DEF DestroyModule
  <2>2. /\ Proper(t) /\ t.recs = v.recs /\ t.died = v.died /\ t.conns \in Conns
        /\ \A d \in ConnIds : t.conns[d].ref = 0
        /\ Users(t) = {} /\ \A d : Cardinality(UsersOf(t, d)) = 0
    BY <1>7, <1>9, <2>1, NobodyConnected
  <2>3. Counted(t, Users(t) # {})
    BY <2>2 DEF Counted
  <2>. QED BY <1>7, <2>2, <2>3
<1>10. CASE Users(v) # {}
  <2>1. t = v
    BY <1>4, <1>8, <1>10 DEF DestroyModule
  <2>2. ASSUME w.recs[u] # None, Counted(w, Users(w) # {}) PROVE Counted(v, TRUE)
    <3>1. u \in Users(w) /\ c \in ConnIds /\ w.conns \in Conns
      BY <2>2 DEF Users, Counted
    <3>2. /\ Users(v) = Users(w) \ {u}
          /\ \A d : UsersOf(v, d) \subseteq UsersOf(w, d)
          /\ \A d : Cardinality(UsersOf(v, d)) = Cardinality(UsersOf(w, d)) - IF d = c THEN 1 ELSE 0
      <4>1. \A x \in IpfixUses : x # u => v.recs[x] = w.recs[x]
        BY <1>7 DEF IpfixUses, Configured
      <4>2. w.recs[u].fd = c
        OBVIOUS
      <4>. HIDE DEF c
      <4>. QED BY <1>7, <2>2, <4>1, <4>2, FewerUsers
    <3>3. ASSUME NEW d \in ConnIds
          PROVE  /\ w.conns[d].ref = Cardinality(UsersOf(w, d)) + IF d = 0 THEN 1 ELSE 0
                 /\ Cardinality(UsersOf(w, d)) \in Nat
                 /\ d = c => Cardinality(UsersOf(w, d)) > 0
      <4>1. w.conns[d].ref = Cardinality(UsersOf(w, d)) + IF d = 0 THEN 1 ELSE 0
        BY <2>2, <3>1 DEF Counted
      <4>2. Cardinality(UsersOf(w, d)) \in Nat /\ Cardinality(UsersOf(v, d)) \in Nat
        BY UsersFinite
      <4>. QED BY <3>2, <4>1, <4>2
    <3>4. C \in Conns /\ \A d \in ConnIds : /\ C[d].ref = w.conns[d].ref - IF d = c THEN 1 ELSE 0
                                            /\ C[d].dest = w.conns[d].dest
      <4>1. PICK new : new = [w.conns[c] EXCEPT !.ref = @ - 1]
        OBVIOUS
      <4>2. w.conns[c] \in [ref : Nat, dest : Dests \cup {Closed}] /\ w.conns[c].ref > 0
        BY <3>1, <3>3 DEF Conns
      <4>3. new \in [ref : Nat, dest : Dests \cup {Closed}] /\ new.ref = w.conns[c].ref - 1 /\ new.dest = w.conns[c].dest
        BY <4>1, <4>2
      <4>4. C = [w.conns EXCEPT ![c] = new]
        BY <4>1 DEF C
      <4>5. C \in Conns /\ \A d \in ConnIds : C[d] = IF d = c THEN new ELSE w.conns[d]
        BY <3>1, <4>3, <4>4 DEF Conns
      <4>6. \A d \in ConnIds : w.conns[d].ref \in Nat
        BY <3>1 DEF Conns
      <4>. QED BY <4>3, <4>5, <4>6
    <3>5. \A d \in ConnIds : v.conns[d].ref = Cardinality(UsersOf(v, d)) + IF d = 0 THEN 1 ELSE 0
      <4>. TAKE d \in ConnIds
      <4>1. v.conns[d].ref = w.conns[d].ref - IF d = c THEN 1 ELSE 0
        BY <1>7, <3>4
      <4>2. Cardinality(UsersOf(v, d)) = Cardinality(UsersOf(w, d)) - IF d = c THEN 1 ELSE 0
        BY <3>2
      <4>. QED BY <3>3, <4>1, <4>2
    <3>6. ASSUME NEW x \in Users(v)
          PROVE  v.recs[x].fd \in ConnIds /\ v.conns[v.recs[x].fd].dest = Of(x).dest
      <4>1. x \in Users(w) /\ x # u /\ x \in Uses
        BY <3>2, UsersFinite
      <4>2. v.recs[x] = w.recs[x] /\ w.recs[x].fd \in ConnIds /\ w.conns[w.recs[x].fd].dest = Of(x).dest
        BY <1>7, <2>2, <4>1 DEF Counted
      <4>. QED BY <1>7, <3>4, <4>2
    <3>. QED BY <1>7, <3>4, <3>5, <3>6 DEF Counted
  <2>3. Counted(v, TRUE) => Counted(v, Users(v) # {})
    BY <1>10 DEF Counted
  <2>. QED BY <1>7, <2>1, <2>2, <2>3
<1>. QED BY <1>9, <1>10

-----------------------------------------------------------------------------
(* A rule's export records come and go, one after the other. *)

\* One of another module changes nothing for ipfix.
LEMMA PutCounted ==
  ASSUME NEW w, NEW t, NEW u \in Configured, Of(u).module # "ipfix", NEW rec, Put(w, t, u, rec),
         Counted(w, Users(w) # {})
  PROVE  Counted(t, Users(t) # {})
<1>1. \A v \in IpfixUses : t.recs[v] = w.recs[v]
  BY DEF Put, IpfixUses, Configured
<1>2. t.conns = w.conns
  BY DEF Put
<1>. QED BY <1>1, <1>2, SameUsers

\* What the files have fits, if what comes does.
LEMMA PutFits ==
  ASSUME NEW w, NEW t, NEW u, \A v \in Uses : v # u => t.recs[v] = w.recs[v], FilesFit(w),
         u \in FileUses => t.recs[u] = None \/ t.recs[u] \in FileRecs
  PROVE  FilesFit(t)
<1>1. FileUses \subseteq Uses
  BY DEF FileUses, Configured
<1>. QED BY <1>1 DEF FilesFit

LEMMA InitKeeps ==
  ASSUME conf \in Confs, NEW w, Proper(w), NEW u \in Configured, NEW t, t = InitExportRec(w, u)
  PROVE  /\ Proper(t) /\ (w.died => t.died) /\ \A v \in Uses : v # u => t.recs[v] = w.recs[v]
         /\ w.recs[u] = None /\ Counted(w, Users(w) # {}) /\ FilesFit(w) =>
                t.died \/ (t.recs[u] # None /\ Counted(t, Users(t) # {}) /\ FilesFit(t))
<1>1. CASE Of(u).module = "ipfix"
  <2>1. u \in IpfixUses /\ u \notin FileUses
    BY <1>1 DEF IpfixUses, FileUses, FileModules
  <2>2. /\ Proper(t) /\ (w.died => t.died) /\ \A v \in Uses : v # u => t.recs[v] = w.recs[v]
        /\ w.recs[u] = None /\ Counted(w, Users(w) # {}) =>
               t.died \/ (t.recs[u] # None /\ Counted(t, Users(t) # {}))
    BY <2>1, InitIpfix
  <2>3. FilesFit(w) => FilesFit(t)
    BY <2>1, <2>2, PutFits
  <2>. QED BY <2>2, <2>3
<1>2. CASE Of(u).module # "ipfix"
  <2>1. PICK rec : Put(w, t, u, rec) /\ rec # None /\ (u \in FileUses => rec \in FileRecs)
    BY <1>2, InitOther
  <2>2. /\ Proper(t) /\ t.died = w.died /\ t.recs[u] = rec
        /\ \A v \in Uses : v # u => t.recs[v] = w.recs[v]
    BY <2>1 DEF Put
  <2>3. FilesFit(w) => FilesFit(t)
    BY <2>1, <2>2, PutFits
  <2>4. Counted(w, Users(w) # {}) => Counted(t, Users(t) # {})
    BY <1>2, <2>1, PutCounted
  <2>. QED BY <2>1, <2>2, <2>3, <2>4
<1>. QED BY <1>1, <1>2

LEMMA DestroyKeeps ==
  ASSUME conf \in Confs, NEW w, Proper(w), NEW u \in Configured, NEW t, t = DestroyExportRec(w, u)
  PROVE  /\ Proper(t) /\ t.died = w.died /\ t.recs[u] = None
         /\ \A v \in Uses : v # u => t.recs[v] = w.recs[v]
         /\ w.recs[u] # None /\ Counted(w, Users(w) # {}) => Counted(t, Users(t) # {})
         /\ FilesFit(w) => FilesFit(t)
<1>1. CASE Of(u).module = "ipfix"
  <2>1. u \in IpfixUses
    BY <1>1 DEF IpfixUses
  <2>2. /\ Proper(t) /\ t.died = w.died /\ t.recs[u] = None
        /\ \A v \in Uses : v # u => t.recs[v] = w.recs[v]
        /\ w.recs[u] # None /\ Counted(w, Users(w) # {}) => Counted(t, Users(t) # {})
    BY <2>1, DestroyIpfix
  <2>3. FilesFit(w) => FilesFit(t)
    BY <2>2, PutFits
  <2>. QED BY <2>2, <2>3
<1>2. CASE Of(u).module # "ipfix"
  <2>1. Put(w, t, u, None)
    BY <1>2, DestroyOther
  <2>2. /\ Proper(t) /\ t.died = w.died /\ t.recs[u] = None
        /\ \A v \in Uses : v # u => t.recs[v] = w.recs[v]
    BY <2>1 DEF Put
  <2>3. FilesFit(w) => FilesFit(t)
    BY <2>2, PutFits
  <2>4. Counted(w, Users(w) # {}) => Counted(t, Users(t) # {})
    BY <1>2, <2>1, PutCounted
  <2>. QED BY <2>2, <2>3, <2>4
<1>. QED BY <1>1, <1>2

\* On the way, the rule's records at places I are there; the other rules' are
\* as they were.
Partly(w, r, n, x, I) ==
    /\ Counted(x, Users(x) # {}) /\ FilesFit(x)
    /\ \A v \in Uses : v[1] # r => x.recs[v] = w.recs[v]
    /\ \A i \in 1 .. n : x.recs[<<r, i>>] # None <=> i \in I

\* From x to y, the record at place k comes or goes.
Placed(x, y, r, n, k, I, J) ==
    /\ \A v \in Uses : v # <<r, k>> => y.recs[v] = x.recs[v]
    /\ y.recs[<<r, k>>] # None <=> k \in J
    /\ \A i \in 1 .. n : i # k => (i \in I <=> i \in J)

\* One place more
LEMMA PartlyNext ==
  ASSUME NEW w, NEW r \in Rules, NEW n \in Nat, n <= MaxExports, NEW x, NEW k \in 1 .. n, NEW I, NEW J,
         Partly(w, r, n, x, I), NEW y, Counted(y, Users(y) # {}), FilesFit(y),
         Placed(x, y, r, n, k, I, J)
  PROVE  Partly(w, r, n, y, J)
<1>1. \A v \in Uses : v[1] # r => y.recs[v] = w.recs[v]
  <2>. TAKE v \in Uses
  <2>. HAVE v[1] # r
  <2>1. v # <<r, k>>
    OBVIOUS
  <2>. QED BY <2>1 DEF Partly, Placed
<1>2. ASSUME NEW i \in 1 .. n
      PROVE  y.recs[<<r, i>>] # None <=> i \in J
  <2>1. <<r, i>> \in Uses
    BY BoundFacts DEF Uses
  <2>2. CASE i = k
    BY <2>2 DEF Placed
  <2>3. CASE i # k
    <3>1. <<r, i>> # <<r, k>>
      BY <2>3
    <3>2. y.recs[<<r, i>>] = x.recs[<<r, i>>]
      BY <2>1, <3>1 DEF Placed
    <3>3. x.recs[<<r, i>>] # None <=> i \in I
      BY DEF Partly
    <3>. QED BY <2>3, <3>2, <3>3 DEF Placed
  <2>. QED BY <2>2, <2>3
<1>. QED BY <1>1, <1>2 DEF Partly

\* When all are there, or none, each rule's records are there together.
LEMMA PartlyAll ==
  ASSUME conf \in Confs, NEW w, Together(w), NEW r \in Rules, NEW n \in Nat,
         DOMAIN Exports(r) = 1 .. n, NEW x, NEW I, Partly(w, r, n, x, I),
         \A i, j \in 1 .. n : i \in I <=> j \in I
  PROVE  Fits(x)
<1>1. ASSUME NEW q \in Rules, NEW i \in DOMAIN Exports(q), NEW j \in DOMAIN Exports(q)
      PROVE  x.recs[<<q, i>>] = None <=> x.recs[<<q, j>>] = None
  <2>1. CASE q = r
    <3>1. i \in 1 .. n /\ j \in 1 .. n
      BY <2>1
    <3>2. /\ x.recs[<<r, i>>] # None <=> i \in I
          /\ x.recs[<<r, j>>] # None <=> j \in I
      BY <3>1 DEF Partly
    <3>3. i \in I <=> j \in I
      BY <3>1
    <3>. QED BY <2>1, <3>2, <3>3
  <2>2. CASE q # r
    <3>1. <<q, i>> \in Uses /\ <<q, j>> \in Uses
      BY ConfFacts DEF Configured
    <3>2. x.recs[<<q, i>>] = w.recs[<<q, i>>] /\ x.recs[<<q, j>>] = w.recs[<<q, j>>]
      BY <2>2, <3>1 DEF Partly
    <3>. QED BY <3>2 DEF Together
  <2>. QED BY <2>1, <2>2
<1>. QED BY <1>1 DEF Fits, Together, Partly

\* Making one may have ended the process.
Added(w, r, n, x, k) == Proper(x) /\ (x.died \/ Partly(w, r, n, x, 1 .. k))

LEMMA InitPlace ==
  ASSUME conf \in Confs, NEW w, NEW r \in Rules, NEW n \in Nat, n <= MaxExports, NEW x, NEW k \in 1 .. n,
         <<r, k>> \in Configured, Added(w, r, n, x, k - 1), NEW y, y = InitExportRec(x, <<r, k>>)
  PROVE  Added(w, r, n, y, k)
<1>1. PICK u : u = <<r, k>>
  OBVIOUS
<1>2. Proper(x)
  BY DEF Added
<1>3. /\ Proper(y) /\ (x.died => y.died) /\ \A v \in Uses : v # u => y.recs[v] = x.recs[v]
      /\ x.recs[u] = None /\ Counted(x, Users(x) # {}) /\ FilesFit(x) =>
             y.died \/ (y.recs[u] # None /\ Counted(y, Users(y) # {}) /\ FilesFit(y))
  BY <1>1, <1>2, InitKeeps
<1>4. ASSUME ~y.died PROVE Partly(w, r, n, y, 1 .. k)
  <2>1. Partly(w, r, n, x, 1 .. k - 1)
    BY <1>3, <1>4 DEF Added
  <2>2. x.recs[u] = None
    <3>1. k \notin 1 .. k - 1
      OBVIOUS
    <3>. QED BY <1>1, <2>1, <3>1 DEF Partly
  <2>3. y.recs[u] # None /\ Counted(y, Users(y) # {}) /\ FilesFit(y)
    BY <1>3, <1>4, <2>1, <2>2 DEF Partly
  <2>4. PICK I, J : I = 1 .. k - 1 /\ J = 1 .. k
    OBVIOUS
  <2>5. k \in J /\ \A i \in 1 .. n : i # k => (i \in I <=> i \in J)
    BY <2>4
  <2>6. Placed(x, y, r, n, k, I, J)
    BY <1>1, <1>3, <2>3, <2>5 DEF Placed
  <2>7. Partly(w, r, n, x, I)
    BY <2>1, <2>4
  <2>8. Partly(w, r, n, y, J)
    BY <2>3, <2>6, <2>7, PartlyNext
  <2>. QED BY <2>4, <2>8
<1>. QED BY <1>3, <1>4 DEF Added

LEMMA DestroyPlace ==
  ASSUME conf \in Confs, NEW w, NEW r \in Rules, NEW n \in Nat, n <= MaxExports, NEW x, NEW k \in 1 .. n,
         <<r, k>> \in Configured, Proper(x), Partly(w, r, n, x, k .. n),
         NEW y, y = DestroyExportRec(x, <<r, k>>)
  PROVE  Proper(y) /\ Partly(w, r, n, y, k + 1 .. n)
<1>1. PICK u : u = <<r, k>>
  OBVIOUS
<1>2. /\ Proper(y) /\ y.recs[u] = None /\ \A v \in Uses : v # u => y.recs[v] = x.recs[v]
      /\ x.recs[u] # None /\ Counted(x, Users(x) # {}) => Counted(y, Users(y) # {})
      /\ FilesFit(x) => FilesFit(y)
  BY <1>1, DestroyKeeps
<1>3. x.recs[u] # None
  <2>1. k \in k .. n
    OBVIOUS
  <2>. QED BY <1>1, <2>1 DEF Partly
<1>4. Counted(y, Users(y) # {}) /\ FilesFit(y)
  BY <1>2, <1>3 DEF Partly
<1>5. PICK I, J : I = k .. n /\ J = k + 1 .. n
  OBVIOUS
<1>6. k \notin J /\ \A i \in 1 .. n : i # k => (i \in I <=> i \in J)
  BY <1>5
<1>7. Partly(w, r, n, y, J)
  <2>1. Placed(x, y, r, n, k, I, J)
    BY <1>1, <1>2, <1>6 DEF Placed
  <2>2. Partly(w, r, n, x, I)
    BY <1>5
  <2>. QED BY <1>4, <2>1, <2>2, PartlyNext
<1>. QED BY <1>2, <1>5, <1>7

LEMMA AddRecsFits ==
  ASSUME conf \in Confs, NEW r \in Rules, NEW w, Proper(w), Fits(w),
         \A i \in DOMAIN Exports(r) : w.recs[<<r, i>>] = None
  PROVE  Proper(AddRecs(w, r)) /\ (AddRecs(w, r).died \/ Fits(AddRecs(w, r)))
<1>1. PICK n \in Nat : n <= MaxExports /\ DOMAIN Exports(r) = 1 .. n /\ \A i \in 1 .. n : <<r, i>> \in Configured
  <2>1. PICK l \in 0 .. MaxExports : DOMAIN Exports(r) = 1 .. l /\ \A i \in DOMAIN Exports(r) : <<r, i>> \in Configured
    BY ConfFacts
  <2>2. l \in Nat /\ l <= MaxExports
    OBVIOUS
  <2>. QED BY <2>1, <2>2
<1>2. PICK st : /\ st[0] = w /\ AddRecs(w, r) = st[n]
                /\ \A k \in 1 .. n : st[k] = Step("init", r, st[k - 1], k)
  <2>1. DOMAIN Exports(r) = 1 .. n
    BY <1>1
  <2>. QED BY <2>1, AddedSteps
<1> DEFINE S == {k \in 0 .. n : Added(w, r, n, st[k], k)}
<1>3. 0 \in S
  <2>1. \A i \in 1 .. n : i \notin 1 .. 0 /\ w.recs[<<r, i>>] = None
    BY <1>1
  <2>2. Partly(w, r, n, w, 1 .. 0)
    BY <2>1 DEF Partly, Fits
  <2>3. Added(w, r, n, st[0], 0) /\ 0 \in 0 .. n
    BY <1>2, <2>2 DEF Added
  <2>. QED BY <2>3
<1>4. ASSUME NEW k \in 1 .. n, k - 1 \in S PROVE k \in S
  <2>1. k \in 0 .. n /\ <<r, k>> \in Configured /\ Added(w, r, n, st[k - 1], k - 1)
    BY <1>1, <1>4
  <2>2. st[k] = InitExportRec(st[k - 1], <<r, k>>)
    BY <1>2 DEF Step
  <2>3. Added(w, r, n, st[k], k)
    BY <1>1, <2>1, <2>2, InitPlace
  <2>. QED BY <2>1, <2>3
<1>5. n \in S
  <2>. HIDE DEF S
  <2>. QED BY <1>1, <1>3, <1>4, AlongStates
<1>6. Added(w, r, n, st[n], n)
  BY <1>5
<1>7. Partly(w, r, n, st[n], 1 .. n) => Fits(st[n])
  <2>1. Together(w)
    BY DEF Fits
  <2>. QED BY <1>1, <2>1, PartlyAll
<1>. QED BY <1>2, <1>6, <1>7 DEF Added

LEMMA RemoveRecsFits ==
  ASSUME conf \in Confs, NEW r \in Rules, NEW w, Proper(w), Fits(w),
         \A i \in DOMAIN Exports(r) : w.recs[<<r, i>>] # None
  PROVE  Proper(RemoveRecs(w, r)) /\ Fits(RemoveRecs(w, r))
<1>1. PICK n \in Nat : n <= MaxExports /\ DOMAIN Exports(r) = 1 .. n /\ \A i \in 1 .. n : <<r, i>> \in Configured
  <2>1. PICK l \in 0 .. MaxExports : DOMAIN Exports(r) = 1 .. l /\ \A i \in DOMAIN Exports(r) : <<r, i>> \in Configured
    BY ConfFacts
  <2>2. l \in Nat /\ l <= MaxExports
    OBVIOUS
  <2>. QED BY <2>1, <2>2
<1>2. PICK st : /\ st[0] = w /\ RemoveRecs(w, r) = st[n]
                /\ \A k \in 1 .. n : st[k] = Step("destroy", r, st[k - 1], k)
  <2>1. DOMAIN Exports(r) = 1 .. n
    BY <1>1
  <2>. QED BY <2>1, RemovedSteps
<1> DEFINE S == {k \in 0 .. n : Proper(st[k]) /\ Partly(w, r, n, st[k], k + 1 .. n)}
<1>3. 0 \in S
  <2>1. \A i \in 1 .. n : w.recs[<<r, i>>] # None
    BY <1>1
  <2>2. Partly(w, r, n, w, 1 .. n)
    BY <2>1 DEF Partly, Fits
  <2>3. 0 \in 0 .. n /\ Proper(st[0]) /\ Partly(w, r, n, st[0], 0 + 1 .. n)
    BY <1>2, <2>2
  <2>. QED BY <2>3
<1>4. ASSUME NEW k \in 1 .. n, k - 1 \in S PROVE k \in S
  <2>1. /\ Proper(st[k - 1]) /\ k \in 0 .. n /\ <<r, k>> \in Configured
        /\ Partly(w, r, n, st[k - 1], k .. n)
    <3>1. (k - 1) + 1 = k
      OBVIOUS
    <3>. QED BY <1>1, <1>4, <3>1
  <2>2. st[k] = DestroyExportRec(st[k - 1], <<r, k>>)
    BY <1>2 DEF Step
  <2>3. Proper(st[k]) /\ Partly(w, r, n, st[k], k + 1 .. n)
    BY <1>1, <2>1, <2>2, DestroyPlace
  <2>. QED BY <2>1, <2>3
<1>5. n \in S
  <2>. HIDE DEF S
  <2>. QED BY <1>1, <1>3, <1>4, AlongStates
<1>6. Proper(st[n]) /\ Partly(w, r, n, st[n], n + 1 .. n)
  BY <1>5
<1>7. Fits(st[n])
  <2>1. Together(w) /\ \A i \in 1 .. n : i \notin n + 1 .. n
    BY DEF Fits
  <2>. QED BY <1>1, <1>6, <2>1, PartlyAll
<1>. QED BY <1>2, <1>6, <1>7

-----------------------------------------------------------------------------
(* The invariant *)

\* The modules' state becomes t.
LEMMA Becoming ==
  ASSUME conf \in Confs, conf' = conf, NEW t, Proper(t), Becomes(t), t.died \/ Fits(t)
  PROVE  ConnInv'
<1>1. Now' = t /\ died' = t.died
  BY DEF Becomes, Now, Proper
<1>2. Configured' = Configured /\ (\A u : Of(u)' = Of(u)) /\ \A r : Exports(r)' = Exports(r)
  BY DEF Configured, Of, Exports
<1>3. IpfixUses' = IpfixUses /\ FileUses' = FileUses
  BY <1>2 DEF IpfixUses, FileUses
<1>4. Users(Now)' = Users(t) /\ \A c : UsersOf(Now, c)' = UsersOf(t, c)
  <2>1. Users(Now)' = Users(t)
    BY <1>1, <1>3 DEF Users
  <2>. QED BY <1>1, <2>1 DEF UsersOf
<1>5. Proper(Now)'
  BY <1>1 DEF Proper
<1>6. ASSUME Fits(t) PROVE Fits(Now)'
  <2>1. Counted(Now, Users(Now) # {})'
    BY <1>1, <1>2, <1>4, <1>6 DEF Fits, Counted
  <2>2. FilesFit(Now)'
    BY <1>1, <1>3, <1>6 DEF Fits, FilesFit
  <2>3. Together(Now)'
    BY <1>1, <1>2, <1>6 DEF Fits, Together
  <2>. QED BY <2>1, <2>2, <2>3 DEF Fits
<1>. QED BY <1>1, <1>5, <1>6 DEF ConnInv

\* Nothing but rows and the time
LEMMA Keeping ==
  ASSUME ConnInv, conf' = conf, NEW t, Kept(Now, t), Becomes(t)
  PROVE  ConnInv'
<1>1. conf \in Confs /\ Proper(Now) /\ (died \/ Fits(Now)) /\ Now.died = died
  BY DEF ConnInv, Now
<1>2. PICK w : w = Now
  OBVIOUS
<1>3. Proper(t) /\ t.died = died
  BY <1>1 DEF Kept
<1>4. died \/ Fits(t)
  BY <1>1, <1>2, KeptFits
<1>. QED BY <1>1, <1>3, <1>4, Becoming

LEMMA NowProper == recs = [u \in Uses |-> recs[u]] => Proper(Now)
BY DEF Now, Proper

LEMMA ConnInit == Init => ConnInv
<1>. SUFFICES ASSUME Init PROVE ConnInv
  OBVIOUS
<1>1. conf \in Confs /\ recs = [u \in Uses |-> None] /\ conns = NoConns
  BY DEF Init
<1>2. Now.recs = recs /\ Now.conns = conns
  BY DEF Now
<1>3. \A u \in Uses : Now.recs[u] = None
  BY <1>1, <1>2
<1>4. Proper(Now)
  BY <1>1, NowProper
<1>5. Users(Now) = {} /\ \A c : UsersOf(Now, c) = {}
  BY <1>3 DEF Users, UsersOf, IpfixUses, Configured
<1>6. NoConns \in Conns /\ \A c \in ConnIds : NoConns[c].ref = 0
  BY DEF NoConns, Conns, ConnIds
<1>7. Counted(Now, Users(Now) # {})
  <2>1. \A c : Cardinality(UsersOf(Now, c)) = 0
    BY <1>5, FS_EmptySet
  <2>. QED BY <1>1, <1>2, <1>5, <1>6, <2>1 DEF Counted
<1>8. FilesFit(Now)
  BY <1>3 DEF FilesFit, FileUses, Configured
<1>9. Together(Now)
  <2>1. ASSUME NEW r \in Rules, NEW i \in DOMAIN Exports(r) PROVE Now.recs[<<r, i>>] = None
    <3>1. <<r, i>> \in Uses
      BY <1>1, ConfFacts DEF Configured
    <3>. QED BY <1>3, <3>1
  <2>. QED BY <2>1 DEF Together
<1>. QED BY <1>1, <1>4, <1>7, <1>8, <1>9 DEF ConnInv, Fits

LEMMA AddRuleConn == ASSUME ConnInv, NEW r \in Rules, AddRule(r) PROVE ConnInv'
<1>1. conf \in Confs /\ conf' = conf /\ Proper(Now) /\ Fits(Now) /\ Now.recs = recs
  BY DEF ConnInv, AddRule, Now
<1>2. PICK t : t = AddRecs(Now, r)
  OBVIOUS
<1>3. Becomes(t)
  BY <1>2 DEF AddRule, AddRecs
<1>4. \A i \in DOMAIN Exports(r) : Now.recs[<<r, i>>] = None
  <2>. TAKE i \in DOMAIN Exports(r)
  <2>1. <<r, i>> \in Configured
    BY <1>1, ConfFacts
  <2>2. <<r, i>> \notin Open(recs)
    BY DEF AddRule
  <2>. QED BY <1>1, <2>1, <2>2 DEF Open
<1>5. PICK w : w = Now
  OBVIOUS
<1>6. Proper(t) /\ (t.died \/ Fits(t))
  BY <1>1, <1>2, <1>4, <1>5, AddRecsFits
<1>. QED BY <1>1, <1>3, <1>6, Becoming

LEMMA RemoveRuleConn == ASSUME ConnInv, NEW r \in Rules, RemoveRule(r) PROVE ConnInv'
<1>1. conf \in Confs /\ conf' = conf /\ Proper(Now) /\ Fits(Now) /\ Now.recs = recs
  BY DEF ConnInv, RemoveRule, Now
<1>2. PICK t : t = RemoveRecs(Now, r)
  OBVIOUS
<1>3. Becomes(t)
  BY <1>2 DEF RemoveRule, RemoveRecs
<1>4. \A i \in DOMAIN Exports(r) : Now.recs[<<r, i>>] # None
  <2>1. <<r, 1>> \in Configured /\ recs[<<r, 1>>] # None
    BY DEF RemoveRule, Open
  <2>2. 1 \in DOMAIN Exports(r)
    BY <2>1 DEF Configured
  <2>. QED BY <1>1, <2>1, <2>2 DEF Fits, Together
<1>5. PICK w : w = Now
  OBVIOUS
<1>6. Proper(t) /\ Fits(t)
  BY <1>1, <1>2, <1>4, <1>5, RemoveRecsFits
<1>. QED BY <1>1, <1>3, <1>6, Becoming

LEMMA ExportRuleConn == ASSUME ConnInv, NEW r \in Rules, ExportRule(r) PROVE ConnInv'
<1>1. conf \in Confs /\ conf' = conf /\ Proper(Now)
  BY DEF ConnInv, ExportRule
<1>2. PICK shape : Becomes(ExportFlowRecord(Now, r, FlowRecord(r, records, shape)).w)
  BY DEF ExportRule
<1>3. PICK w, frec : w = Now /\ frec = FlowRecord(r, records, shape)
  OBVIOUS
<1>4. PICK m \in Nat : DOMAIN frec = 1 .. m
  <2>1. DOMAIN frec = DOMAIN conf[r].metrics
    BY <1>3, Zenon DEF FlowRecord
  <2>2. Len(conf[r].metrics) \in Nat /\ DOMAIN conf[r].metrics = 1 .. Len(conf[r].metrics)
    BY <1>1, ConfFacts
  <2>. QED BY <2>1, <2>2
<1>5. PICK t : t = ExportFlowRecord(w, r, frec).w
  OBVIOUS
<1>6. Kept(w, t)
  BY <1>1, <1>3, <1>4, <1>5, ExportFlowRecordKeeps
<1>7. Becomes(t) /\ Kept(Now, t)
  BY <1>2, <1>3, <1>5, <1>6
<1>. QED BY <1>1, <1>7, Keeping

LEMMA TimeoutConn == ASSUME ConnInv, NEW m, Timeout(m) PROVE ConnInv'
<1>1. PICK t : t = IF m = "ac_udp" THEN UdpTimeout(Now) ELSE SocketTimeout(Now)
  OBVIOUS
<1>2. conf' = conf /\ Becomes(t) /\ Proper(Now)
  BY <1>1 DEF Timeout, ConnInv
<1>3. PICK w : w = Now
  OBVIOUS
<1>4. Kept(w, t)
  BY <1>1, <1>2, <1>3, TimeoutKeeps
<1>. QED BY <1>2, <1>3, <1>4, Keeping

\* The time is no part of what fits.
LEMMA SecondConn == ASSUME ConnInv, NEW m, SecondPasses(m) PROVE ConnInv'
<1>1. PICK I : I = idle'
  OBVIOUS
<1>2. PICK t : t = [recs |-> recs, files |-> files, sent |-> sent, buf |-> netBuffer, last |-> lastFd,
                    idle |-> I, fds |-> fds, conns |-> conns, died |-> died]
  OBVIOUS
<1>3. conf' = conf /\ Becomes(t) /\ Proper(Now)
  BY <1>1, <1>2 DEF SecondPasses, Becomes, ConnInv
<1>4. t = [Now EXCEPT !.idle = I]
  BY <1>2 DEF Now
<1>5. PICK w : w = Now
  OBVIOUS
<1>6. Kept(w, t)
  <2>1. t = [w EXCEPT !.idle = I] /\ Proper(w)
    BY <1>3, <1>4, <1>5
  <2>. QED BY <2>1, KeptTime, Zenon
<1>. QED BY <1>3, <1>5, <1>6, Keeping

LEMMA SameConn == ASSUME ConnInv, UNCHANGED vars PROVE ConnInv'
<1>1. PICK t : t = Now
  OBVIOUS
<1>2. conf' = conf /\ Becomes(t) /\ Proper(t)
  BY <1>1 DEF vars, shared, Becomes, Now, ConnInv
<1>3. Kept(t, t)
  BY <1>2, KeptSame
<1>. QED BY <1>1, <1>2, <1>3, Keeping

LEMMA ConnNext == ConnInv /\ [Next]_vars => ConnInv'
<1>. SUFFICES ASSUME ConnInv, [Next]_vars PROVE ConnInv'
  OBVIOUS
<1>1. ASSUME NEW r \in Rules, AddRule(r) PROVE ConnInv'
  BY <1>1, AddRuleConn
<1>2. ASSUME NEW r \in Rules, RemoveRule(r) PROVE ConnInv'
  BY <1>2, RemoveRuleConn
<1>3. ASSUME NEW r \in Rules, ExportRule(r) PROVE ConnInv'
  BY <1>3, ExportRuleConn
<1>4. ASSUME NEW m \in SocketModules, Timeout(m) PROVE ConnInv'
  BY <1>4, TimeoutConn
<1>5. ASSUME NEW m \in SocketModules, SecondPasses(m) PROVE ConnInv'
  BY <1>5, SecondConn
<1>6. CASE UNCHANGED vars
  BY <1>6, SameConn
<1>. QED BY <1>1, <1>2, <1>3, <1>4, <1>5, <1>6 DEF Next

LEMMA ConnCounted == ConnInv => ConnectionsCounted
<1>. SUFFICES ASSUME ConnInv, ~died PROVE ConnectionsCounted
  BY DEF ConnectionsCounted
<1>1. PICK w : w = Now
  OBVIOUS
<1>2. Counted(w, Users(w) # {}) /\ w.recs = recs /\ w.conns = conns
  BY <1>1 DEF ConnInv, Fits, Now
<1> DEFINE users == {u \in Open(recs) : Of(u).module = "ipfix"}
<1>3. users = Users(w)
  BY <1>2 DEF Users, IpfixUses, Open
<1>4. DOMAIN conns = ConnIds
  BY <1>2 DEF Counted, Conns
<1>5. ASSUME NEW c \in DOMAIN conns
      PROVE  conns[c].ref = Cardinality({u \in users : recs[u].fd = c}) + IF c = 0 /\ users # {} THEN 1 ELSE 0
  <2>1. {u \in users : recs[u].fd = c} = UsersOf(w, c)
    BY <1>2, <1>3 DEF UsersOf
  <2>2. w.conns[c].ref = Cardinality(UsersOf(w, c)) + IF c = 0 /\ Users(w) # {} THEN 1 ELSE 0
    BY <1>2, <1>4 DEF Counted
  <2>. QED BY <1>2, <1>3, <2>1, <2>2
<1>6. ASSUME NEW u \in users PROVE conns[recs[u].fd].dest = Of(u).dest
  BY <1>2, <1>3 DEF Counted
<1>. QED BY <1>5, <1>6 DEF ConnectionsCounted

\* Whatever rules come and go in whatever order, and whatever they export:
\* ipfix's connections count their users and lead where these want to go,
\* files have the export record of their module, and a rule's export records
\* come and go together.
THEOREM ConnectionsInvariant == Spec => []ConnInv
BY ConnInit, ConnNext, PTL DEF Spec

\* No connection is given up while an export record uses it, none is kept that
\* nobody uses, and no flow records go to another collector than their rule's.
THEOREM ConnectionsAreCounted == Spec => []ConnectionsCounted
BY ConnectionsInvariant, ConnCounted, PTL

=============================================================================
