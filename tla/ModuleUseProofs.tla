--------------------------- MODULE ModuleUseProofs ---------------------------
(***************************************************************************)
(* Proofs about ModuleUse, for any modules, rules and numbers of           *)
(* references: the references of a loaded module are its uses, a module in *)
(* use is initialised, and timers are those of modules in use.             *)
(*                                                                         *)
(* The handlers are folds over a rule's modules.  Each is shown to be a    *)
(* sequence of states, one for each module, and what the handler does is   *)
(* shown by induction along it.                                            *)
(***************************************************************************)
EXTENDS ModuleUse, FiniteSetTheorems, SequenceTheorems, TLAPS

Used == Loaders \X Names

\* The libraries' states that handlers work on
States ==
    [refs : [Loaders -> [Names -> Int]], ready : SUBSET {File[n] : n \in Names},
     active : SUBSET Names, et : [Names -> Int], pt : SUBSET (RuleIds \X Nat),
     kept : [Loaders -> [Names -> Int]], error : BOOLEAN]

\* References that are uses
Held(s, l, n) == s.refs[l][n] - s.kept[l][n]

\* No two of these modules share a library.
Apart(U) == \A x, y \in U : x # y => File[x[2]] # File[y[2]]

\* What is loaded is one of U, initialised, and was found.
Loaded(s, U) ==
    /\ s \in States
    /\ \A l \in Loaders, n \in Names :
          /\ s.refs[l][n] >= 0 /\ s.kept[l][n] >= 0
          /\ s.refs[l][n] > 0 => <<l, n>> \in U /\ File[n] \in s.ready /\ Kind[n] # "none"

\* An export module's timers were added once, and it is loaded.
TimersFit(s) ==
    \A n \in Names : /\ s.et[n] = IF n \in s.active \cap WithTimers THEN 1 ELSE 0
                     /\ n \in s.active \cap WithTimers => s.refs["Export"][n] > 0

\* The modules of the rules have their timers.
RulesFit(s) ==
    /\ s.pt = Places("Proc", WithTimers)
    /\ \A n \in WithTimers : Places("Export", {n}) # {} => n \in s.active

Types ==
    /\ preloaded \in [Loaders -> SUBSET Names]
    /\ known \in [RuleIds -> Shapes \cup {NoRule}]
    /\ actions \in [RuleIds -> Seq(Names)] /\ mods \in [RuleIds -> Seq(Names)]

Loads == {x \in Used : refs[x[1]][x[2]] > 0}

UseInv ==
    /\ Types
    /\ Loaded(Now, Loads)
    /\ \A l \in Loaders, n \in Names :
          /\ IsFiniteSet(Places(l, {n}))
          /\ Held(Now, l, n) = Uses(l, n) + IF n \in preloaded[l] THEN 1 ELSE 0
    /\ Apart(Loads) \/ \A r \in RuleIds : known[r] = NoRule
    /\ ~stopped => TimersFit(Now) /\ RulesFit(Now)

-----------------------------------------------------------------------------
(* Folds over lists as sequences of states. *)

\* Induction over the natural numbers, with a set for the property
LEMMA SetInduction ==
  ASSUME NEW S \in SUBSET Nat, 0 \in S, \A n \in S : n + 1 \in S
  PROVE  Nat \subseteq S
<1>. SUFFICES ASSUME Nat \ S # {} PROVE FALSE
  OBVIOUS
<1> DEFINE R == OpToRel(<, Nat)
           T == Nat \ S
<1>1. IsWellFoundedOn(R, Nat)
  BY NatLessThanWellFounded
<1>2. \A x, y \in Nat : y < x => <<y, x>> \in R
  BY DEF OpToRel
<1>. HIDE DEF R
<1>3. PICK x \in T : \A y \in T : ~(<<y, x>> \in R)
  <2>. HIDE DEF T
  <2>1. T \subseteq Nat /\ T # {}
    BY DEF T
  <2>. QED BY <1>1, <2>1, WFMin
<1>4. x # 0 /\ x - 1 \in Nat /\ x - 1 < x
  OBVIOUS
<1>5. x - 1 \in S
  BY <1>2, <1>3, <1>4
<1>. QED BY <1>4, <1>5

\* A set of numbers up to n has a greatest one.
LEMMA MaxUpto ==
  ASSUME NEW n \in Nat, NEW T \in SUBSET (1 .. n), T # {}
  PROVE  Max(T) \in T /\ \A x \in T : x <= Max(T)
<1> DEFINE R == OpToRel(<, Nat)
           V == {n - x : x \in T}
<1>1. IsWellFoundedOn(R, Nat)
  BY NatLessThanWellFounded
<1>2. \A x, y \in Nat : y < x => <<y, x>> \in R
  BY DEF OpToRel
<1>. HIDE DEF R
<1>3. V \subseteq Nat /\ V # {} /\ \A x \in T : n - x \in V
  <2>1. \A x \in T : x \in 1 .. n /\ n - x \in Nat
    OBVIOUS
  <2>. QED BY <2>1
<1>4. PICK v \in V : \A y \in V : ~(<<y, v>> \in R)
  <2>. HIDE DEF V
  <2>. QED BY <1>1, <1>3, WFMin
<1>5. PICK m \in T : v = n - m
  OBVIOUS
<1>6. \A x \in T : x <= m
  <2>. TAKE x \in T
  <2>1. n - x \in Nat /\ n - m \in Nat /\ x \in Int /\ m \in Int /\ n \in Int
    OBVIOUS
  <2>2. ~(<<n - x, n - m>> \in R)
    BY <1>3, <1>4, <1>5
  <2>3. ~(n - x < n - m)
    BY <1>2, <2>1, <2>2
  <2>. QED BY <2>1, <2>3
<1>. QED BY <1>6 DEF Max

\* From a state, the steps for places 1 to n lead to states.
Stepping(n, State, base, step) ==
    n \in Nat /\ base \in State /\ step \in [State \X (1 .. n) -> State]

\* h takes sets of places, and makes the step of the greatest one last.
Folding(n, State, base, step, h) ==
    /\ h[{}] = base
    /\ \A T \in SUBSET (1 .. n) : T # {} /\ h[T \ {Max(T)}] \in State =>
           h[T] = step[<<h[T \ {Max(T)}], Max(T)>>]

\* st is the states up to what h gives for all places.
Chain(n, State, base, step, h, st) ==
    /\ st \in [0 .. n -> State] /\ st[0] = base /\ h[1 .. n] = st[n]
    /\ \A k \in 1 .. n : st[k] = step[<<st[k - 1], k>>]

\* There is a function like that, with states for values.
LEMMA FoldExists ==
  ASSUME NEW n, NEW State, NEW base, NEW step, Stepping(n, State, base, step)
  PROVE  \E g \in [SUBSET (1 .. n) -> State] : Folding(n, State, base, step, g)
<1>0. n \in Nat /\ base \in State /\ step \in [State \X (1 .. n) -> State]
  BY DEF Stepping
<1>. USE <1>0
<1> DEFINE Follows(k, g) ==
               /\ g \in [SUBSET (1 .. k) -> State] /\ g[{}] = base
               /\ \A T \in SUBSET (1 .. k) : T # {} => g[T] = step[<<g[T \ {Max(T)}], Max(T)>>]
           N == {k \in Nat : k <= n => \E g : Follows(k, g)}
<1>1. 0 \in N
  <2> DEFINE g == [T \in SUBSET (1 .. 0) |-> base]
  <2>1. 1 .. 0 = {}
    OBVIOUS
  <2>2. Follows(0, g)
    BY <2>1
  <2>. QED BY <2>2
<1>2. ASSUME NEW k \in Nat, k + 1 <= n, NEW g, Follows(k, g)
      PROVE  \E h : Follows(k + 1, h)
  <2> DEFINE h == [T \in SUBSET (1 .. k + 1) |->
                       IF k + 1 \in T THEN step[<<g[T \ {k + 1}], k + 1>>] ELSE g[T]]
  <2>0. g \in [SUBSET (1 .. k) -> State] /\ g[{}] = base
    BY <1>2
  <2>1. \A T \in SUBSET (1 .. k + 1) : /\ k + 1 \notin T => T \in SUBSET (1 .. k)
                                       /\ T \ {k + 1} \in SUBSET (1 .. k)
    OBVIOUS
  <2>2. h \in [SUBSET (1 .. k + 1) -> State]
    <3>1. ASSUME NEW T \in SUBSET (1 .. k + 1) PROVE h[T] \in State
      <4>1. CASE k + 1 \in T
        <5>1. g[T \ {k + 1}] \in State /\ k + 1 \in 1 .. n
          BY <1>2, <2>0, <2>1
        <5>. QED BY <4>1, <5>1
      <4>2. CASE k + 1 \notin T
        BY <2>0, <2>1, <4>2
      <4>. QED BY <4>1, <4>2
    <3>. QED BY <3>1
  <2>3. \A T \in SUBSET (1 .. k) : h[T] = g[T]
    <3>1. \A T \in SUBSET (1 .. k) : T \in SUBSET (1 .. k + 1) /\ k + 1 \notin T
      OBVIOUS
    <3>. QED BY <3>1
  <2>4. ASSUME NEW T \in SUBSET (1 .. k + 1), T # {}
        PROVE  h[T] = step[<<h[T \ {Max(T)}], Max(T)>>]
    <3>1. Max(T) \in T /\ \A x \in T : x <= Max(T)
      <4>1. k + 1 \in Nat
        OBVIOUS
      <4>. QED BY <2>4, <4>1, MaxUpto
    <3>2. CASE k + 1 \in T
      <4>1. Max(T) = k + 1
        <5>. DEFINE m == Max(T)
        <5>1. m \in 1 .. k + 1 /\ k + 1 <= m
          BY <3>1, <3>2
        <5>. HIDE DEF m
        <5>2. m = k + 1
          BY <5>1
        <5>. QED BY <5>2 DEF m
      <4>2. h[T] = step[<<g[T \ {k + 1}], k + 1>>]
        BY <3>2
      <4>. QED BY <2>1, <2>3, <4>1, <4>2
    <3>3. CASE k + 1 \notin T
      <4>1. T \in SUBSET (1 .. k) /\ T \ {Max(T)} \in SUBSET (1 .. k)
        BY <2>1, <3>3
      <4>2. g[T] = step[<<g[T \ {Max(T)}], Max(T)>>]
        BY <1>2, <2>4, <4>1
      <4>. QED BY <2>3, <4>1, <4>2
    <3>. QED BY <3>2, <3>3
  <2>5. h[{}] = base
    BY <2>0, <2>3
  <2>. HIDE DEF h
  <2>. QED BY <2>2, <2>4, <2>5
<1>3. ASSUME NEW k \in N PROVE k + 1 \in N
  <2>1. CASE k + 1 <= n
    <3>2. k \in Nat /\ k <= n /\ (k <= n => \E g : Follows(k, g))
      <4>. HIDE DEF Follows
      <4>. QED BY <2>1
    <3>. HIDE DEF Follows
    <3>1. PICK g : Follows(k, g)
      BY <3>2
    <3>3. \E h : Follows(k + 1, h)
      BY <1>2, <2>1, <3>1, <3>2
    <3>. QED BY <3>2, <3>3
  <2>2. CASE ~(k + 1 <= n)
    BY <2>2
  <2>. QED BY <2>1, <2>2
<1>4. n \in N
  <2>. HIDE DEF N
  <2>1. N \in SUBSET Nat
    BY DEF N
  <2>. QED BY <1>1, <1>3, <2>1, SetInduction
<1>5. PICK g : Follows(n, g)
  <2>. HIDE DEF Follows
  <2>. QED BY <1>4
<1>. QED BY <1>5 DEF Folding

\* The prefixes of a list, and the state after each
LEMMA FoldChain ==
  ASSUME NEW n, NEW State, NEW base, NEW step, NEW h,
         Stepping(n, State, base, step), Folding(n, State, base, step, h)
  PROVE  \E st : Chain(n, State, base, step, h, st)
<1>0. n \in Nat /\ base \in State /\ step \in [State \X (1 .. n) -> State]
  BY DEF Stepping
<1>. USE <1>0
<1>9. /\ h[{}] = base
       /\ \A T \in SUBSET (1 .. n) : T # {} /\ h[T \ {Max(T)}] \in State =>
              h[T] = step[<<h[T \ {Max(T)}], Max(T)>>]
  BY DEF Folding
<1> DEFINE N == {k \in Nat : k <= n => h[1 .. k] \in State}
<1>1. ASSUME NEW k \in 1 .. n
      PROVE  /\ (1 .. k) \in SUBSET (1 .. n) /\ (1 .. k) # {}
             /\ Max(1 .. k) = k /\ (1 .. k) \ {Max(1 .. k)} = 1 .. k - 1
  <2>1. (1 .. k) \in SUBSET (1 .. n) /\ (1 .. k) # {}
    OBVIOUS
  <2>2. Max(1 .. k) \in 1 .. k /\ \A x \in 1 .. k : x <= Max(1 .. k)
    BY <2>1, MaxUpto
  <2>3. Max(1 .. k) = k
    BY <2>2
  <2>. QED BY <2>1, <2>3
<1>2. ASSUME NEW k \in 1 .. n, h[1 .. k - 1] \in State
      PROVE  h[1 .. k] = step[<<h[1 .. k - 1], k>>]
  BY <1>9, <1>1, <1>2
<1>3. 1 .. 0 = {}
  OBVIOUS
<1>4. 0 \in N
  BY <1>9, <1>3
<1>5. ASSUME NEW k \in N PROVE k + 1 \in N
  <2>1. CASE k + 1 <= n
    <3>1. k + 1 \in 1 .. n /\ (k + 1) - 1 = k /\ h[1 .. k] \in State
      BY <2>1
    <3>2. h[1 .. k + 1] = step[<<h[1 .. k], k + 1>>]
      BY <1>2, <3>1
    <3>. QED BY <3>1, <3>2
  <2>2. CASE ~(k + 1 <= n)
    BY <2>2
  <2>. QED BY <2>1, <2>2
<1>6. \A k \in 0 .. n : h[1 .. k] \in State
  <2>1. Nat \subseteq N
    <3>. HIDE DEF N
    <3>1. N \in SUBSET Nat
      BY DEF N
    <3>. QED BY <1>4, <1>5, <3>1, SetInduction
  <2>. QED BY <2>1
<1> DEFINE st == [k \in 0 .. n |-> h[1 .. k]]
<1>7. st \in [0 .. n -> State] /\ st[0] = base /\ h[1 .. n] = st[n]
  BY <1>9, <1>3, <1>6
<1>8. ASSUME NEW k \in 1 .. n PROVE st[k] = step[<<st[k - 1], k>>]
  <2>1. k - 1 \in 0 .. n /\ k \in 0 .. n
    OBVIOUS
  <2>. QED BY <1>2, <1>6, <2>1
<1>. HIDE DEF st
<1>. QED BY <1>7, <1>8 DEF Chain

-----------------------------------------------------------------------------
(* How often a list names a module *)

CountTo(list, k, n) == Cardinality({i \in 1 .. k : list[i] = n})
Count(list, n) == CountTo(list, Len(list), n)

LEMMA CountNone ==
  ASSUME NEW list, NEW n
  PROVE  CountTo(list, 0, n) = 0 /\ IsFiniteSet({i \in 1 .. 0 : list[i] = n})
<1>1. {i \in 1 .. 0 : list[i] = n} = {}
  OBVIOUS
<1>. QED BY <1>1, FS_EmptySet DEF CountTo

LEMMA CountFinite ==
  ASSUME NEW list, NEW n, NEW k \in Nat
  PROVE  IsFiniteSet({i \in 1 .. k : list[i] = n}) /\ CountTo(list, k, n) \in Nat
<1> DEFINE S == {i \in 1 .. k : list[i] = n}
<1>1. IsFiniteSet(1 .. k)
  BY FS_Interval
<1>2. S \in SUBSET (1 .. k)
  OBVIOUS
<1>3. IsFiniteSet(S)
  <2>. HIDE DEF S
  <2>. QED BY <1>1, <1>2, FS_Subset
<1>. QED BY <1>3, FS_CardinalityType DEF CountTo

LEMMA CountNext ==
  ASSUME NEW list, NEW n, NEW k \in Nat
  PROVE  CountTo(list, k + 1, n) = CountTo(list, k, n) + IF list[k + 1] = n THEN 1 ELSE 0
<1> DEFINE S == {i \in 1 .. k : list[i] = n}
           T == {i \in 1 .. k + 1 : list[i] = n}
<1>1. IsFiniteSet(S) /\ Cardinality(S) \in Nat
  BY CountFinite DEF CountTo
<1>2. T = IF list[k + 1] = n THEN S \cup {k + 1} ELSE S
  <2>1. \A i : i \in 1 .. k + 1 <=> i \in 1 .. k \/ i = k + 1
    OBVIOUS
  <2>. QED BY <2>1
<1>3. k + 1 \notin S
  OBVIOUS
<1>4. Cardinality(S \cup {k + 1}) = Cardinality(S) + 1
  <2>. HIDE DEF S
  <2>. QED BY <1>1, <1>3, FS_AddElement
<1>. QED BY <1>1, <1>2, <1>4 DEF CountTo

LEMMA CountMore ==
  ASSUME NEW list, NEW n, NEW k \in Nat, NEW m \in Nat, k <= m
  PROVE  CountTo(list, k, n) <= CountTo(list, m, n)
<1> DEFINE S == {i \in 1 .. k : list[i] = n}
           T == {i \in 1 .. m : list[i] = n}
<1>1. IsFiniteSet(T)
  BY CountFinite
<1>2. S \in SUBSET T
  OBVIOUS
<1>. HIDE DEF S, T
<1>3. Cardinality(S) <= Cardinality(T)
  BY <1>1, <1>2, FS_Subset
<1>. QED BY <1>3 DEF CountTo, S, T

LEMMA CountAppend ==
  ASSUME NEW list \in Seq(Names), NEW m \in Names, NEW n
  PROVE  /\ Count(Append(list, m), n) = Count(list, n) + IF m = n THEN 1 ELSE 0
         /\ Count(list, n) \in Nat
<1> DEFINE len == Len(list)
           more == Append(list, m)
<1>1. /\ len \in Nat /\ Len(more) = len + 1 /\ more[len + 1] = m
      /\ \A i \in 1 .. len : more[i] = list[i]
  OBVIOUS
<1>. HIDE DEF more
<1>2. CountTo(more, len, n) = CountTo(list, len, n)
  <2>1. {i \in 1 .. len : more[i] = n} = {i \in 1 .. len : list[i] = n}
    BY <1>1
  <2>. QED BY <2>1 DEF CountTo
<1>. HIDE DEF len
<1>3. CountTo(more, len + 1, n) = CountTo(more, len, n) + IF more[len + 1] = n THEN 1 ELSE 0
  BY <1>1, CountNext
<1>4. CountTo(list, len, n) \in Nat
  BY <1>1, CountFinite
<1>. QED BY <1>1, <1>2, <1>3, <1>4 DEF Count, len, more

LEMMA CountEmpty ==
  ASSUME NEW n
  PROVE  Count(<<>>, n) = 0
BY CountNone DEF Count

-----------------------------------------------------------------------------
(* States with some of their fields changed *)

State(R, D, A, E, P, K, X) ==
    [refs |-> R, ready |-> D, active |-> A, et |-> E, pt |-> P, kept |-> K, error |-> X]

LEMMA Fields ==
  ASSUME NEW s \in States
  PROVE  /\ s = State(s.refs, s.ready, s.active, s.et, s.pt, s.kept, s.error)
         /\ DOMAIN s = {"refs", "ready", "active", "et", "pt", "kept", "error"}
BY DEF States, State

LEMMA Changed ==
  ASSUME NEW s \in States, NEW R, NEW D, NEW A, NEW E, NEW P, NEW K, NEW X
  PROVE  /\ [s EXCEPT !.refs = R, !.ready = D] =
                State(R, D, s.active, s.et, s.pt, s.kept, s.error)
         /\ [s EXCEPT !.refs = R, !.ready = D, !.active = A] =
                State(R, D, A, s.et, s.pt, s.kept, s.error)
         /\ [s EXCEPT !.refs = R] =
                State(R, s.ready, s.active, s.et, s.pt, s.kept, s.error)
         /\ [s EXCEPT !.active = A, !.et = E] =
                State(s.refs, s.ready, A, E, s.pt, s.kept, s.error)
         /\ [s EXCEPT !.pt = P] =
                State(s.refs, s.ready, s.active, s.et, P, s.kept, s.error)
         /\ [s EXCEPT !.kept = K] =
                State(s.refs, s.ready, s.active, s.et, s.pt, K, s.error)
         /\ [s EXCEPT !.error = X] =
                State(s.refs, s.ready, s.active, s.et, s.pt, s.kept, X)
<1>1. /\ s = State(s.refs, s.ready, s.active, s.et, s.pt, s.kept, s.error)
      /\ DOMAIN s = {"refs", "ready", "active", "et", "pt", "kept", "error"}
  BY Fields
<1>2. ASSUME NEW t, t = [s EXCEPT !.refs = R, !.ready = D]
      PROVE  t = State(R, D, s.active, s.et, s.pt, s.kept, s.error)
  BY <1>1, <1>2 DEF State
<1>3. ASSUME NEW t, t = [s EXCEPT !.refs = R, !.ready = D, !.active = A]
      PROVE  t = State(R, D, A, s.et, s.pt, s.kept, s.error)
  BY <1>1, <1>3 DEF State
<1>4. ASSUME NEW t, t = [s EXCEPT !.refs = R]
      PROVE  t = State(R, s.ready, s.active, s.et, s.pt, s.kept, s.error)
  BY <1>1, <1>4 DEF State
<1>5. ASSUME NEW t, t = [s EXCEPT !.active = A, !.et = E]
      PROVE  t = State(s.refs, s.ready, A, E, s.pt, s.kept, s.error)
  BY <1>1, <1>5 DEF State
<1>6. ASSUME NEW t, t = [s EXCEPT !.pt = P]
      PROVE  t = State(s.refs, s.ready, s.active, s.et, P, s.kept, s.error)
  BY <1>1, <1>6 DEF State
<1>7. ASSUME NEW t, t = [s EXCEPT !.kept = K]
      PROVE  t = State(s.refs, s.ready, s.active, s.et, s.pt, K, s.error)
  BY <1>1, <1>7 DEF State
<1>8. ASSUME NEW t, t = [s EXCEPT !.error = X]
      PROVE  t = State(s.refs, s.ready, s.active, s.et, s.pt, s.kept, X)
  BY <1>1, <1>8 DEF State
<1>. QED BY <1>2, <1>3, <1>4, <1>5, <1>6, <1>7, <1>8, Zenon

-----------------------------------------------------------------------------
(* Letting modules go *)

LEMMA ReleaseIs ==
  ASSUME NEW s \in States, NEW l \in Loaders, NEW n \in Names
  PROVE  ReleaseModule(s, l, n) =
             State([s.refs EXCEPT ![l][n] = @ - 1],
                   IF s.refs[l][n] = 1 THEN s.ready \ {File[n]} ELSE s.ready,
                   s.active, s.et, s.pt, s.kept, s.error)
<1> DEFINE R == [s.refs EXCEPT ![l][n] = @ - 1]
           D == IF s.refs[l][n] = 1 THEN s.ready \ {File[n]} ELSE s.ready
<1>1. ReleaseModule(s, l, n) = [s EXCEPT !.refs = R, !.ready = D]
  BY DEF ReleaseModule
<1>. HIDE DEF R, D
<1>2. ReleaseModule(s, l, n) = State(R, D, s.active, s.et, s.pt, s.kept, s.error)
  BY <1>1, Changed
<1>. QED BY <1>2 DEF R, D

LEMMA ReleaseTyped ==
  ASSUME NEW s \in States, NEW l \in Loaders, NEW n \in Names
  PROVE  ReleaseModule(s, l, n) \in States
<1> DEFINE R == [s.refs EXCEPT ![l][n] = @ - 1]
           D == IF s.refs[l][n] = 1 THEN s.ready \ {File[n]} ELSE s.ready
<1>1. R \in [Loaders -> [Names -> Int]] /\ D \in SUBSET {File[x] : x \in Names}
  BY DEF States
<1>2. ReleaseModule(s, l, n) = State(R, D, s.active, s.et, s.pt, s.kept, s.error)
  BY ReleaseIs
<1>. HIDE DEF R, D
<1>. QED BY <1>1, <1>2 DEF States, State

\* The states in which a handler lets go the modules of a list
LEMMA ReleasedSteps ==
  ASSUME NEW s \in States, NEW l \in Loaders, NEW list \in Seq(Names)
  PROVE  \E st \in [0 .. Len(list) -> States] :
            /\ st[0] = s /\ Released(s, l, list) = st[Len(list)]
            /\ \A k \in 1 .. Len(list) : st[k] = ReleaseModule(st[k - 1], l, list[k])
<1> DEFINE n == Len(list)
           step == [x \in States \X (1 .. n) |-> ReleaseModule(x[1], l, list[x[2]])]
           Rec(h) == h = [T \in SUBSET DOMAIN list |->
                             IF T = {} THEN s ELSE ReleaseModule(h[T \ {Max(T)}], l, list[Max(T)])]
           F == CHOOSE h : Rec(h)
<1>1. n \in Nat /\ DOMAIN list = 1 .. n /\ \A k \in 1 .. n : list[k] \in Names
  OBVIOUS
<1>2. step \in [States \X (1 .. n) -> States]
  BY <1>1, ReleaseTyped
<1>3. \A t \in States, k \in 1 .. n : step[<<t, k>>] = ReleaseModule(t, l, list[k])
  OBVIOUS
<1>4. Stepping(n, States, s, step)
  BY <1>1, <1>2 DEF Stepping
<1>. HIDE DEF step
<1>5. \E h : Rec(h)
  <2>1. PICK g \in [SUBSET (1 .. n) -> States] : Folding(n, States, s, step, g)
    BY <1>4, FoldExists
  <2>2. ASSUME NEW T \in SUBSET (1 .. n), T # {}
        PROVE  g[T] = ReleaseModule(g[T \ {Max(T)}], l, list[Max(T)])
    <3>1. Max(T) \in 1 .. n
      BY <1>1, <2>2, MaxUpto
    <3>2. T \ {Max(T)} \in SUBSET (1 .. n)
      OBVIOUS
    <3>. QED BY <1>3, <2>1, <2>2, <3>1, <3>2 DEF Folding
  <2>3. Rec(g)
    BY <1>1, <2>1, <2>2 DEF Folding
  <2>. QED BY <2>3
<1>6. Rec(F)
  <2>. HIDE DEF Rec
  <2>. QED BY <1>5
<1>7. Released(s, l, list) = F[DOMAIN list]
  BY DEF Released, FoldLeft, MapThenFoldSet
<1>8. Folding(n, States, s, step, F)
  <2>1. F[{}] = s /\ \A T \in SUBSET (1 .. n) :
            T # {} => F[T] = ReleaseModule(F[T \ {Max(T)}], l, list[Max(T)])
    <3>. HIDE DEF F
    <3>. QED BY <1>1, <1>6
  <2>. HIDE DEF F
  <2>2. \A T \in SUBSET (1 .. n) : T # {} /\ F[T \ {Max(T)}] \in States =>
            F[T] = step[<<F[T \ {Max(T)}], Max(T)>>]
    BY <1>1, <1>3, <2>1, MaxUpto
  <2>. QED BY <2>1, <2>2 DEF Folding
<1>. HIDE DEF F, Rec
<1>9. PICK st : Chain(n, States, s, step, F, st)
  BY <1>4, <1>8, FoldChain
<1>10. \A k \in 1 .. n : st[k - 1] \in States
  BY <1>1, <1>9 DEF Chain
<1>. QED BY <1>1, <1>3, <1>7, <1>9, <1>10 DEF Chain

\* All but the references and what is initialised
Rest(s) == <<s.active, s.et, s.pt, s.kept, s.error>>

\* A module whose library no other one uses is let go.
LEMMA ReleaseFits ==
  ASSUME NEW U, Apart(U), NEW s, Loaded(s, U), NEW l \in Loaders, NEW n \in Names,
         s.refs[l][n] > 0
  PROVE  /\ Loaded(ReleaseModule(s, l, n), U) /\ Rest(ReleaseModule(s, l, n)) = Rest(s)
         /\ \A m \in Loaders, x \in Names : ReleaseModule(s, l, n).refs[m][x] =
                s.refs[m][x] - IF m = l /\ x = n THEN 1 ELSE 0
<1> DEFINE t == ReleaseModule(s, l, n)
           R == [s.refs EXCEPT ![l][n] = @ - 1]
           D == IF s.refs[l][n] = 1 THEN s.ready \ {File[n]} ELSE s.ready
<1>1. s \in States /\ s.refs \in [Loaders -> [Names -> Int]]
  BY DEF Loaded, States
<1>2. t \in States /\ t = State(R, D, s.active, s.et, s.pt, s.kept, s.error)
  BY <1>1, ReleaseIs, ReleaseTyped
<1>3. t.refs = R /\ t.ready = D /\ Rest(t) = Rest(s) /\ t.kept = s.kept
  <2>. HIDE DEF R, D, t
  <2>. QED BY <1>2 DEF State, Rest
<1>4. \A m \in Loaders, x \in Names : t.refs[m][x] = s.refs[m][x] - IF m = l /\ x = n THEN 1 ELSE 0
  <2>. HIDE DEF t
  <2>. QED BY <1>1, <1>3
<1>5. ASSUME NEW m \in Loaders, NEW x \in Names
      PROVE  /\ t.refs[m][x] >= 0 /\ t.kept[m][x] >= 0
             /\ t.refs[m][x] > 0 => <<m, x>> \in U /\ File[x] \in t.ready /\ Kind[x] # "none"
  <2>1. /\ s.refs[m][x] \in Int /\ s.refs[l][n] \in Int /\ s.refs[m][x] >= 0 /\ s.kept[m][x] >= 0
        /\ s.refs[m][x] > 0 => <<m, x>> \in U /\ File[x] \in s.ready /\ Kind[x] # "none"
        /\ <<l, n>> \in U
    BY <1>1 DEF Loaded
  <2>2. t.refs[m][x] = s.refs[m][x] - IF m = l /\ x = n THEN 1 ELSE 0
    BY <1>4
  <2>. HIDE DEF t
  <2>3. t.refs[m][x] >= 0 /\ t.kept[m][x] >= 0 /\ (t.refs[m][x] > 0 => s.refs[m][x] > 0)
    BY <1>3, <2>1, <2>2
  <2>4. ASSUME t.refs[m][x] > 0 PROVE File[x] \in t.ready
    <3>1. CASE m = l /\ x = n
      <4>1. s.refs[l][n] # 1
        BY <2>1, <2>2, <2>4, <3>1
      <4>. QED BY <1>3, <2>1, <2>3, <2>4, <4>1
    <3>2. CASE ~(m = l /\ x = n)
      <4>1. File[x] # File[n]
        <5>1. <<m, x>> # <<l, n>> /\ <<m, x>> \in U
          BY <2>1, <2>3, <2>4, <3>2
        <5>. QED BY <2>1, <5>1 DEF Apart
      <4>. QED BY <1>3, <2>1, <2>3, <2>4, <4>1
    <3>. QED BY <3>1, <3>2
  <2>. QED BY <2>1, <2>3, <2>4
<1>. QED BY <1>2, <1>3, <1>4, <1>5 DEF Loaded

\* The references of a list of modules are given back.
LEMMA ReleasedIs ==
  ASSUME NEW U, Apart(U), NEW s, Loaded(s, U), NEW l \in Loaders, NEW list \in Seq(Names),
         \A n \in Names : s.refs[l][n] >= Count(list, n)
  PROVE  /\ Loaded(Released(s, l, list), U) /\ Rest(Released(s, l, list)) = Rest(s)
         /\ \A m \in Loaders, n \in Names : Released(s, l, list).refs[m][n] =
                s.refs[m][n] - IF m = l THEN Count(list, n) ELSE 0
<1> DEFINE len == Len(list)
<1>0. s \in States /\ len \in Nat /\ \A k \in 1 .. len : list[k] \in Names
  BY DEF Loaded
<1>1. PICK st \in [0 .. len -> States] :
         /\ st[0] = s /\ Released(s, l, list) = st[len]
         /\ \A k \in 1 .. len : st[k] = ReleaseModule(st[k - 1], l, list[k])
  BY <1>0, ReleasedSteps
<1> DEFINE Fits(k) ==
               /\ Loaded(st[k], U) /\ Rest(st[k]) = Rest(s)
               /\ \A m \in Loaders, n \in Names : st[k].refs[m][n] =
                      s.refs[m][n] - IF m = l THEN CountTo(list, k, n) ELSE 0
           N == {k \in Nat : k <= len => Fits(k)}
<1>. HIDE DEF len
<1>2. Fits(0)
  <2>1. \A m \in Loaders, n \in Names : s.refs[m][n] \in Int
    BY <1>0 DEF States
  <2>. QED BY <1>1, <2>1, CountNone
<1>3. ASSUME NEW k \in Nat, k + 1 <= len, Fits(k) PROVE Fits(k + 1)
  <2>1. k + 1 \in 1 .. len /\ (k + 1) - 1 = k
    BY <1>0, <1>3
  <2> DEFINE t == st[k]
             x == list[k + 1]
  <2>2. x \in Names /\ st[k + 1] = ReleaseModule(t, l, x)
    BY <1>0, <1>1, <2>1
  <2>3. \A n \in Names : /\ s.refs[l][n] \in Int /\ CountTo(list, k, n) \in Nat
                          /\ s.refs[l][n] >= CountTo(list, k + 1, n)
                          /\ CountTo(list, k + 1, n) = CountTo(list, k, n) + IF x = n THEN 1 ELSE 0
    <3>. TAKE n \in Names
    <3>1. s.refs[l][n] \in Int /\ s.refs[l][n] >= CountTo(list, len, n)
      <4>1. s.refs[l][n] \in Int
        BY <1>0 DEF States
      <4>2. Count(list, n) = CountTo(list, len, n)
        BY DEF Count, len
      <4>3. CountTo(list, len, n) \in Nat
        BY <1>0, CountFinite
      <4>. QED BY <4>1, <4>2, <4>3
    <3>2. k + 1 \in Nat /\ CountTo(list, len, n) \in Nat /\ CountTo(list, k + 1, n) \in Nat
      <4>1. k + 1 \in Nat /\ len \in Nat
        BY <1>0
      <4>2. CountTo(list, k + 1, n) \in Nat
        BY <4>1, CountFinite
      <4>. QED BY <4>1, <4>2, CountFinite
    <3>3. CountTo(list, k + 1, n) <= CountTo(list, len, n)
      <4>1. len \in Nat /\ k + 1 <= len
        BY <1>0, <1>3
      <4>. QED BY <3>2, <4>1, CountMore
    <3>4. CountTo(list, k, n) \in Nat
      BY CountFinite
    <3>5. CountTo(list, k + 1, n) = CountTo(list, k, n) + IF x = n THEN 1 ELSE 0
      BY CountNext
    <3>. HIDE DEF x
    <3>. QED BY <3>1, <3>2, <3>3, <3>4, <3>5
  <2>4. Loaded(t, U) /\ Rest(t) = Rest(s)
    BY <1>3
  <2>5. \A m \in Loaders, n \in Names :
           t.refs[m][n] = s.refs[m][n] - IF m = l THEN CountTo(list, k, n) ELSE 0
    BY <1>3
  <2>. HIDE DEF t, x
  <2>6. t.refs[l][x] > 0
    BY <2>2, <2>3, <2>5
  <2>7. /\ Loaded(ReleaseModule(t, l, x), U) /\ Rest(ReleaseModule(t, l, x)) = Rest(t)
        /\ \A m \in Loaders, n \in Names : ReleaseModule(t, l, x).refs[m][n] =
               t.refs[m][n] - IF m = l /\ n = x THEN 1 ELSE 0
    BY <2>2, <2>4, <2>6, ReleaseFits
  <2>8. \A m \in Loaders, n \in Names : s.refs[m][n] \in Int
    BY <1>0 DEF States
  <2>9. \A m \in Loaders, n \in Names : st[k + 1].refs[m][n] =
           s.refs[m][n] - IF m = l THEN CountTo(list, k + 1, n) ELSE 0
    <3>. TAKE m \in Loaders, n \in Names
    <3>1. st[k + 1].refs[m][n] = t.refs[m][n] - IF m = l /\ n = x THEN 1 ELSE 0
      BY <2>2, <2>7
    <3>2. t.refs[m][n] = s.refs[m][n] - IF m = l THEN CountTo(list, k, n) ELSE 0
      BY <2>5
    <3>. QED BY <2>3, <2>8, <3>1, <3>2
  <2>. QED BY <2>2, <2>4, <2>7, <2>9
<1>4. 0 \in N /\ N \in SUBSET Nat /\ \A k \in N : k + 1 \in N
  <2>1. ASSUME NEW k \in N PROVE k + 1 \in N
    <3>1. k \in Nat /\ (k <= len => Fits(k))
      <4>. HIDE DEF Fits
      <4>. QED OBVIOUS
    <3>. HIDE DEF Fits
    <3>2. k + 1 <= len => k <= len
      BY <1>0, <3>1
    <3>. QED BY <1>3, <3>1, <3>2
  <2>. HIDE DEF Fits
  <2>. QED BY <1>2, <2>1
<1>5. Fits(len)
  <2>. HIDE DEF Fits
  <2>1. Nat \subseteq N
    <3>. HIDE DEF N
    <3>. QED BY <1>4, SetInduction
  <2>. QED BY <1>0, <2>1
<1>. QED BY <1>1, <1>5 DEF Count, len

-----------------------------------------------------------------------------
(* Getting modules *)

LEMMA GetIs ==
  ASSUME NEW s \in States, NEW l \in Loaders, NEW n
  PROVE  /\ n \in Names /\ s.refs[l][n] > 0 =>
                GetModule(s, l, n) = State([s.refs EXCEPT ![l][n] = @ + 1], s.ready, s.active,
                                           s.et, s.pt, s.kept, s.error)
         /\ n \in Names /\ ~(s.refs[l][n] > 0) /\ Kind[n] # "none" /\ File[n] \in available =>
                GetModule(s, l, n) = State([s.refs EXCEPT ![l][n] = 1], s.ready \cup {File[n]},
                                           s.active \ {n}, s.et, s.pt, s.kept, s.error)
         /\ n \in Names /\ ~(s.refs[l][n] > 0) /\ ~(Kind[n] # "none" /\ File[n] \in available) =>
                GetModule(s, l, n) = State(s.refs, s.ready, s.active, s.et, s.pt, s.kept, TRUE)
         /\ n \notin Names =>
                GetModule(s, l, n) = State(s.refs, s.ready, s.active, s.et, s.pt, s.kept, TRUE)
<1>1. ASSUME n \in Names, s.refs[l][n] > 0
      PROVE  GetModule(s, l, n) = State([s.refs EXCEPT ![l][n] = @ + 1], s.ready, s.active,
                                        s.et, s.pt, s.kept, s.error)
  <2> DEFINE R == [s.refs EXCEPT ![l][n] = @ + 1]
  <2>1. GetModule(s, l, n) = [s EXCEPT !.refs = R]
    BY <1>1 DEF GetModule
  <2>. HIDE DEF R
  <2>2. GetModule(s, l, n) = State(R, s.ready, s.active, s.et, s.pt, s.kept, s.error)
    BY <2>1, Changed
  <2>. QED BY <2>2 DEF R
<1>2. ASSUME n \in Names, ~(s.refs[l][n] > 0), Kind[n] # "none", File[n] \in available
      PROVE  GetModule(s, l, n) = State([s.refs EXCEPT ![l][n] = 1], s.ready \cup {File[n]},
                                        s.active \ {n}, s.et, s.pt, s.kept, s.error)
  <2> DEFINE R == [s.refs EXCEPT ![l][n] = 1]
             D == s.ready \cup {File[n]}
             A == s.active \ {n}
  <2>1. GetModule(s, l, n) = [s EXCEPT !.refs = R, !.ready = D, !.active = A]
    BY <1>2 DEF GetModule, LoadModule
  <2>. HIDE DEF R, D, A
  <2>2. GetModule(s, l, n) = State(R, D, A, s.et, s.pt, s.kept, s.error)
    BY <2>1, Fields DEF State
  <2>. QED BY <2>2 DEF R, D, A
<1>3. ASSUME \/ n \in Names /\ ~(s.refs[l][n] > 0) /\ ~(Kind[n] # "none" /\ File[n] \in available)
             \/ n \notin Names
      PROVE  GetModule(s, l, n) = State(s.refs, s.ready, s.active, s.et, s.pt, s.kept, TRUE)
  <2>1. GetModule(s, l, n) = [s EXCEPT !.error = TRUE]
    BY <1>3 DEF GetModule, LoadModule
  <2>. QED BY <2>1, Changed
<1>. QED BY <1>1, <1>2, <1>3

LEMMA GetTyped ==
  ASSUME NEW s \in States, NEW l \in Loaders, NEW n
  PROVE  GetModule(s, l, n) \in States /\ (~GetModule(s, l, n).error => n \in Names)
<1> DEFINE g == GetModule(s, l, n)
<1>0. /\ s.refs \in [Loaders -> [Names -> Int]] /\ s.ready \in SUBSET {File[x] : x \in Names}
      /\ s.active \in SUBSET Names
  BY DEF States
<1>1. CASE n \in Names /\ s.refs[l][n] > 0
  <2> DEFINE R == [s.refs EXCEPT ![l][n] = @ + 1]
  <2>1. R \in [Loaders -> [Names -> Int]]
    BY <1>0, <1>1
  <2>2. g = State(R, s.ready, s.active, s.et, s.pt, s.kept, s.error)
    BY <1>1, GetIs
  <2>. HIDE DEF R, g
  <2>3. g \in States
    BY <2>1, <2>2 DEF States, State
  <2>. QED BY <1>1, <2>3 DEF g
<1>2. CASE n \in Names /\ ~(s.refs[l][n] > 0) /\ Kind[n] # "none" /\ File[n] \in available
  <2> DEFINE R == [s.refs EXCEPT ![l][n] = 1]
             D == s.ready \cup {File[n]}
             A == s.active \ {n}
  <2>1. /\ R \in [Loaders -> [Names -> Int]] /\ D \in SUBSET {File[x] : x \in Names}
        /\ A \in SUBSET Names
    BY <1>0, <1>2
  <2>2. g = State(R, D, A, s.et, s.pt, s.kept, s.error)
    BY <1>2, GetIs
  <2>. HIDE DEF R, D, A, g
  <2>3. g \in States
    BY <2>1, <2>2 DEF States, State
  <2>. QED BY <1>2, <2>3 DEF g
<1>3. CASE \/ n \in Names /\ ~(s.refs[l][n] > 0) /\ ~(Kind[n] # "none" /\ File[n] \in available)
           \/ n \notin Names
  <2>1. g = State(s.refs, s.ready, s.active, s.et, s.pt, s.kept, TRUE)
    <3>1. CASE n \notin Names
      BY <3>1, GetIs
    <3>2. CASE n \in Names /\ ~(s.refs[l][n] > 0) /\ ~(Kind[n] # "none" /\ File[n] \in available)
      BY <3>2, GetIs
    <3>. QED BY <1>3, <3>1, <3>2
  <2>. HIDE DEF g
  <2>2. g \in States /\ g.error
    BY <2>1 DEF States, State
  <2>. QED BY <2>2 DEF g
<1>. QED BY <1>1, <1>2, <1>3

\* A module is got, or it is the first time, and it is loaded.
LEMMA GotIs ==
  ASSUME NEW s \in States, NEW l \in Loaders, NEW n, ~GetModule(s, l, n).error,
         \A x \in Names : s.refs[l][x] >= 0
  PROVE  LET g == GetModule(s, l, n)
         IN  /\ n \in Names /\ g \in States
             /\ \A m \in Loaders, x \in Names :
                    g.refs[m][x] = s.refs[m][x] + IF m = l /\ x = n THEN 1 ELSE 0
             /\ g.et = s.et /\ g.pt = s.pt /\ g.kept = s.kept /\ g.error = s.error
             /\ s.ready \subseteq g.ready
             /\ \/ s.refs[l][n] > 0 /\ g.active = s.active
                \/ /\ s.refs[l][n] = 0 /\ g.active = s.active \ {n}
                   /\ Kind[n] # "none" /\ File[n] \in g.ready
<1> DEFINE g == GetModule(s, l, n)
<1>0. n \in Names /\ g \in States /\ s.refs \in [Loaders -> [Names -> Int]]
  BY GetTyped DEF States
<1>1. CASE s.refs[l][n] > 0
  <2> DEFINE R == [s.refs EXCEPT ![l][n] = @ + 1]
  <2>1. g = State(R, s.ready, s.active, s.et, s.pt, s.kept, s.error)
    BY <1>0, <1>1, GetIs
  <2>2. \A m \in Loaders, x \in Names : R[m][x] = s.refs[m][x] + IF m = l /\ x = n THEN 1 ELSE 0
    BY <1>0
  <2>. HIDE DEF R, g
  <2>3. /\ g.refs = R /\ g.ready = s.ready /\ g.active = s.active
        /\ g.et = s.et /\ g.pt = s.pt /\ g.kept = s.kept /\ g.error = s.error
    BY <2>1 DEF State
  <2>. QED BY <1>0, <1>1, <2>2, <2>3 DEF g
<1>2. CASE ~(s.refs[l][n] > 0)
  <2> DEFINE R == [s.refs EXCEPT ![l][n] = 1]
             D == s.ready \cup {File[n]}
             A == s.active \ {n}
  <2>1. s.refs[l][n] = 0
    BY <1>0, <1>2
  <2>2. Kind[n] # "none" /\ File[n] \in available
    <3>1. ASSUME ~(Kind[n] # "none" /\ File[n] \in available) PROVE FALSE
      <4>1. g = State(s.refs, s.ready, s.active, s.et, s.pt, s.kept, TRUE)
        BY <1>0, <1>2, <3>1, GetIs
      <4>2. g.error = TRUE
        <5>. HIDE DEF g
        <5>. QED BY <4>1 DEF State
      <4>. QED BY <4>2
    <3>. QED BY <3>1
  <2>3. g = State(R, D, A, s.et, s.pt, s.kept, s.error)
    BY <1>0, <1>2, <2>2, GetIs
  <2>4. \A m \in Loaders, x \in Names : R[m][x] = s.refs[m][x] + IF m = l /\ x = n THEN 1 ELSE 0
    BY <1>0, <2>1
  <2>. HIDE DEF R, D, A, g
  <2>5. /\ g.refs = R /\ g.ready = D /\ g.active = A
        /\ g.et = s.et /\ g.pt = s.pt /\ g.kept = s.kept /\ g.error = s.error
    BY <2>3 DEF State
  <2>6. s.ready \subseteq D /\ File[n] \in D
    BY DEF D
  <2>. QED BY <1>0, <2>1, <2>2, <2>4, <2>5, <2>6 DEF A, g
<1>. QED BY <1>1, <1>2

\* Modules with timers that are active
Ticking(s) == s.active \cap WithTimers

\* Loading does not disturb a module that has timers.
LEMMA GetFits ==
  ASSUME NEW U, Apart(U), NEW s, Loaded(s, U), TimersFit(s), NEW l \in Loaders, NEW n,
         n \in Names => <<l, n>> \in U, ~GetModule(s, l, n).error
  PROVE  /\ Loaded(GetModule(s, l, n), U) /\ TimersFit(GetModule(s, l, n))
         /\ Ticking(GetModule(s, l, n)) = Ticking(s)
<1> DEFINE g == GetModule(s, l, n)
<1>1. /\ s \in States /\ s.refs \in [Loaders -> [Names -> Int]]
      /\ \A m \in Loaders, x \in Names :
            /\ s.refs[m][x] \in Int /\ s.refs[m][x] >= 0 /\ s.kept[m][x] >= 0
            /\ s.refs[m][x] > 0 => <<m, x>> \in U /\ File[x] \in s.ready /\ Kind[x] # "none"
  BY DEF Loaded, States
<1>2. /\ n \in Names /\ g \in States
      /\ \A m \in Loaders, x \in Names :
             g.refs[m][x] = s.refs[m][x] + IF m = l /\ x = n THEN 1 ELSE 0
      /\ g.et = s.et /\ g.pt = s.pt /\ g.kept = s.kept /\ g.error = s.error
      /\ s.ready \subseteq g.ready
      /\ \/ s.refs[l][n] > 0 /\ g.active = s.active
         \/ /\ s.refs[l][n] = 0 /\ g.active = s.active \ {n}
            /\ Kind[n] # "none" /\ File[n] \in g.ready
  BY <1>1, GotIs
<1>. HIDE DEF g
<1>3. Ticking(g) = Ticking(s)
  <2>1. CASE s.refs[l][n] > 0 /\ g.active = s.active
    BY <2>1 DEF Ticking
  <2>2. CASE s.refs[l][n] = 0 /\ g.active = s.active \ {n}
    <3>1. n \notin s.active \cap WithTimers
      <4>1. ASSUME n \in s.active \cap WithTimers PROVE FALSE
        <5>1. s.refs["Export"][n] > 0 /\ "Export" \in Loaders
          BY <1>2, <4>1 DEF TimersFit, Loaders
        <5>2. <<"Export", n>> \in U /\ <<l, n>> \in U /\ l # "Export"
          BY <1>1, <1>2, <2>2, <5>1
        <5>3. <<"Export", n>> # <<l, n>> /\ <<"Export", n>>[2] = n /\ <<l, n>>[2] = n
          BY <5>2
        <5>. QED BY <5>2, <5>3 DEF Apart
      <4>. QED BY <4>1
    <3>. QED BY <2>2, <3>1 DEF Ticking
  <2>. QED BY <1>2, <2>1, <2>2
<1>4. Loaded(g, U)
  <2>1. ASSUME NEW m \in Loaders, NEW x \in Names
        PROVE  /\ g.refs[m][x] >= 0 /\ g.kept[m][x] >= 0
               /\ g.refs[m][x] > 0 => <<m, x>> \in U /\ File[x] \in g.ready /\ Kind[x] # "none"
    <3>1. CASE m = l /\ x = n
      BY <1>1, <1>2, <3>1
    <3>2. CASE ~(m = l /\ x = n)
      <4>1. g.refs[m][x] = s.refs[m][x]
        BY <1>1, <1>2, <3>2
      <4>. QED BY <1>1, <1>2, <4>1
    <3>. QED BY <3>1, <3>2
  <2>. QED BY <1>2, <2>1 DEF Loaded
<1>5. TimersFit(g)
  <2>1. ASSUME NEW x \in Names
        PROVE  /\ g.et[x] = IF x \in g.active \cap WithTimers THEN 1 ELSE 0
               /\ x \in g.active \cap WithTimers => g.refs["Export"][x] > 0
    <3>1. /\ s.et[x] = IF x \in s.active \cap WithTimers THEN 1 ELSE 0
          /\ x \in s.active \cap WithTimers => s.refs["Export"][x] > 0
      BY DEF TimersFit
    <3>2. g.active \cap WithTimers = s.active \cap WithTimers
      BY <1>3 DEF Ticking
    <3>3. /\ s.refs["Export"][x] \in Int
          /\ g.refs["Export"][x] = s.refs["Export"][x] + IF "Export" = l /\ x = n THEN 1 ELSE 0
      BY <1>1, <1>2 DEF Loaders
    <3>4. s.refs["Export"][x] > 0 => g.refs["Export"][x] > 0
      BY <3>3
    <3>. QED BY <1>2, <3>1, <3>2, <3>4
  <2>. QED BY <2>1 DEF TimersFit
<1>. QED BY <1>3, <1>4, <1>5 DEF g

\* An Error changes nothing else.
Failed(s) == [s EXCEPT !.error = TRUE]

LEMMA FailedIs ==
  ASSUME NEW s \in States
  PROVE  /\ Failed(s) \in States /\ Failed(s).error
         /\ Failed(s).refs = s.refs /\ Failed(s).ready = s.ready /\ Failed(s).active = s.active
         /\ Failed(s).et = s.et /\ Failed(s).pt = s.pt /\ Failed(s).kept = s.kept
<1>1. Failed(s) = State(s.refs, s.ready, s.active, s.et, s.pt, s.kept, TRUE)
  BY Changed DEF Failed
<1>. QED BY <1>1 DEF State, States

\* A reference is kept for good.
LEMMA UnfitIs ==
  ASSUME NEW s \in States, NEW l \in Loaders, NEW n \in Names
  PROVE  LET u == Unfit(s, l, n)
         IN  /\ u \in States /\ u.refs = s.refs /\ u.ready = s.ready /\ u.active = s.active
             /\ u.et = s.et /\ u.pt = s.pt /\ u.error = s.error
             /\ \A m \in Loaders, x \in Names :
                    u.kept[m][x] = s.kept[m][x] + IF m = l /\ x = n THEN 1 ELSE 0
<1> DEFINE u == Unfit(s, l, n)
           K == [s.kept EXCEPT ![l][n] = @ + 1]
<1>1. s.kept \in [Loaders -> [Names -> Int]]
  BY DEF States
<1>2. K \in [Loaders -> [Names -> Int]]
  BY <1>1
<1>3. u = [s EXCEPT !.kept = K]
  BY DEF Unfit
<1>4. \A m \in Loaders, x \in Names : K[m][x] = s.kept[m][x] + IF m = l /\ x = n THEN 1 ELSE 0
  BY <1>1
<1>. HIDE DEF K, u
<1>5. u = State(s.refs, s.ready, s.active, s.et, s.pt, K, s.error)
  BY <1>3, Changed
<1>6. u \in States /\ u.kept = K
  BY <1>2, <1>5 DEF State, States
<1>. QED BY <1>4, <1>5, <1>6 DEF State, u

\* What a check must not change: the timers, and the references that are uses.
Same(s, t) ==
    /\ Ticking(t) = Ticking(s) /\ t.pt = s.pt
    /\ \A l \in Loaders, n \in Names : Held(t, l, n) = Held(s, l, n)

\* States that differ in an error or in references kept
LEMMA KeepsFit ==
  ASSUME NEW U, NEW s, Loaded(s, U), TimersFit(s), NEW t \in States,
         t.refs = s.refs, t.ready = s.ready, t.active = s.active, t.et = s.et,
         \A l \in Loaders, n \in Names : t.kept[l][n] >= 0
  PROVE  Loaded(t, U) /\ TimersFit(t) /\ Ticking(t) = Ticking(s)
BY DEF Loaded, TimersFit, Ticking

-----------------------------------------------------------------------------
(* Checking a rule *)

LEMMA CheckTyped ==
  ASSUME NEW s \in States, NEW l \in Loaders, NEW n
  PROVE  CheckModule(s, l, n) \in States
<1> DEFINE g == GetModule(s, l, n)
<1>1. g \in States /\ (~g.error => n \in Names)
  BY GetTyped
<1>2. CASE s.error \/ g.error
  <2>1. CheckModule(s, l, n) = Failed(s)
    BY <1>2 DEF CheckModule, Failed
  <2>. QED BY <2>1, FailedIs
<1>3. CASE ~(s.error \/ g.error) /\ Kind[n] # KindOf(l)
  <2>1. CheckModule(s, l, n) = Unfit(g, l, n)
    BY <1>3 DEF CheckModule
  <2>. HIDE DEF g
  <2>. QED BY <1>1, <1>3, <2>1, UnfitIs
<1>4. CASE ~(s.error \/ g.error) /\ Kind[n] = KindOf(l)
  <2>1. CheckModule(s, l, n) = ReleaseModule(g, l, n)
    BY <1>4 DEF CheckModule
  <2>. HIDE DEF g
  <2>. QED BY <1>1, <1>4, <2>1, ReleaseTyped
<1>. QED BY <1>2, <1>3, <1>4

LEMMA CheckFits ==
  ASSUME NEW U, Apart(U), NEW s, Loaded(s, U), TimersFit(s), NEW l \in Loaders, NEW n,
         n \in Names => <<l, n>> \in U
  PROVE  LET t == CheckModule(s, l, n)
         IN  t \in States /\ Loaded(t, U) /\ TimersFit(t) /\ Same(s, t)
<1> DEFINE g == GetModule(s, l, n)
           t == CheckModule(s, l, n)
<1>1. /\ s \in States
      /\ \A m \in Loaders, x \in Names : /\ s.refs[m][x] \in Int /\ s.refs[m][x] >= 0
                                         /\ s.kept[m][x] \in Int /\ s.kept[m][x] >= 0
  <2>1. /\ s \in States /\ s.refs \in [Loaders -> [Names -> Int]]
        /\ s.kept \in [Loaders -> [Names -> Int]]
    BY DEF Loaded, States
  <2>. QED BY <2>1 DEF Loaded
<1>2. t \in States
  BY <1>1, CheckTyped
<1>3. CASE s.error \/ g.error
  <2>1. t = Failed(s)
    BY <1>3 DEF CheckModule, Failed
  <2>2. /\ t.refs = s.refs /\ t.ready = s.ready /\ t.active = s.active
        /\ t.et = s.et /\ t.pt = s.pt /\ t.kept = s.kept
    BY <1>1, <2>1, FailedIs
  <2>. HIDE DEF t
  <2>3. Loaded(t, U) /\ TimersFit(t) /\ Ticking(t) = Ticking(s)
    BY <1>1, <1>2, <2>2, KeepsFit
  <2>. QED BY <1>2, <2>2, <2>3 DEF Same, Held, t
<1>4. CASE ~(s.error \/ g.error)
  <2>1. /\ n \in Names /\ g \in States /\ g.pt = s.pt /\ g.kept = s.kept
        /\ \A m \in Loaders, x \in Names :
               g.refs[m][x] = s.refs[m][x] + IF m = l /\ x = n THEN 1 ELSE 0
    BY <1>1, <1>4, GotIs
  <2>2. Loaded(g, U) /\ TimersFit(g) /\ Ticking(g) = Ticking(s)
    BY <1>4, GetFits
  <2>3. CASE Kind[n] # KindOf(l)
    <3>1. t = Unfit(g, l, n)
      BY <1>4, <2>3 DEF CheckModule
    <3>. HIDE DEF g, t
    <3>2. /\ t.refs = g.refs /\ t.ready = g.ready /\ t.active = g.active
          /\ t.et = g.et /\ t.pt = g.pt
          /\ \A m \in Loaders, x \in Names :
                 t.kept[m][x] = g.kept[m][x] + IF m = l /\ x = n THEN 1 ELSE 0
      BY <2>1, <3>1, UnfitIs
    <3>3. \A m \in Loaders, x \in Names : t.kept[m][x] >= 0
      BY <1>1, <2>1, <3>2
    <3>4. Loaded(t, U) /\ TimersFit(t) /\ Ticking(t) = Ticking(g)
      BY <1>2, <2>2, <3>2, <3>3, KeepsFit
    <3>5. \A m \in Loaders, x \in Names : Held(t, m, x) = Held(s, m, x)
      BY <1>1, <2>1, <3>2 DEF Held
    <3>. QED BY <1>2, <2>1, <2>2, <3>2, <3>4, <3>5 DEF Same, t
  <2>4. CASE Kind[n] = KindOf(l)
    <3>1. t = ReleaseModule(g, l, n)
      BY <1>4, <2>4 DEF CheckModule
    <3>. HIDE DEF g, t
    <3>2. g.refs[l][n] > 0
      BY <1>1, <2>1
    <3>3. /\ Loaded(t, U) /\ Rest(t) = Rest(g)
          /\ \A m \in Loaders, x \in Names :
                 t.refs[m][x] = g.refs[m][x] - IF m = l /\ x = n THEN 1 ELSE 0
      BY <2>1, <2>2, <3>1, <3>2, ReleaseFits
    <3>4. t.active = g.active /\ t.et = g.et /\ t.pt = g.pt /\ t.kept = g.kept
      BY <3>3 DEF Rest
    <3>5. \A m \in Loaders, x \in Names : t.refs[m][x] = s.refs[m][x]
      BY <1>1, <2>1, <3>3
    <3>6. Ticking(t) = Ticking(s)
      BY <2>2, <3>4 DEF Ticking
    <3>7. TimersFit(t)
      <4>1. ASSUME NEW x \in Names
            PROVE  /\ t.et[x] = IF x \in t.active \cap WithTimers THEN 1 ELSE 0
                   /\ x \in t.active \cap WithTimers => t.refs["Export"][x] > 0
        <5>1. "Export" \in Loaders
          BY DEF Loaders
        <5>2. x \in s.active \cap WithTimers => s.refs["Export"][x] > 0
          BY DEF TimersFit
        <5>. QED BY <2>2, <3>4, <3>5, <3>6, <5>1, <5>2 DEF TimersFit, Ticking
      <4>. QED BY <4>1 DEF TimersFit
    <3>8. \A m \in Loaders, x \in Names : Held(t, m, x) = Held(s, m, x)
      BY <2>1, <3>4, <3>5 DEF Held
    <3>. QED BY <1>2, <2>1, <3>3, <3>4, <3>6, <3>7, <3>8 DEF Same, t
  <2>. QED BY <2>3, <2>4
<1>. QED BY <1>3, <1>4

\* What checks may make of a state
Checked(s, U) == {t \in States : Loaded(t, U) /\ TimersFit(t) /\ Same(s, t)}

LEMMA CheckedAgain ==
  ASSUME NEW U, Apart(U), NEW s, NEW t \in Checked(s, U), NEW l \in Loaders, NEW n,
         n \in Names => <<l, n>> \in U
  PROVE  CheckModule(t, l, n) \in Checked(s, U)
<1> DEFINE u == CheckModule(t, l, n)
<1>1. Loaded(t, U) /\ TimersFit(t) /\ Same(s, t)
  BY DEF Checked
<1>2. u \in States /\ Loaded(u, U) /\ TimersFit(u) /\ Same(t, u)
  BY <1>1, CheckFits
<1>. HIDE DEF u
<1>3. Same(s, u)
  BY <1>1, <1>2 DEF Same
<1>. QED BY <1>2, <1>3 DEF Checked, u

LEMMA ActionCheckedAgain ==
  ASSUME NEW U, Apart(U), NEW s, NEW t \in Checked(s, U), NEW n,
         n \in Names => <<"Proc", n>> \in U
  PROVE  CheckAction(t, n) \in Checked(s, U)
<1>1. CASE n = "bad parameters"
  <2> DEFINE u == Failed(t)
  <2>1. t \in States /\ Loaded(t, U) /\ TimersFit(t) /\ Same(s, t)
    BY DEF Checked
  <2>2. /\ u \in States /\ u.refs = t.refs /\ u.ready = t.ready /\ u.active = t.active
        /\ u.et = t.et /\ u.pt = t.pt /\ u.kept = t.kept
    BY <2>1, FailedIs
  <2>3. CheckAction(t, n) = u
    BY <1>1 DEF CheckAction, Failed
  <2>. HIDE DEF u
  <2>4. \A l \in Loaders, x \in Names : u.kept[l][x] >= 0
    BY <2>1, <2>2 DEF Loaded
  <2>5. Loaded(u, U) /\ TimersFit(u) /\ Ticking(u) = Ticking(t)
    BY <2>1, <2>2, <2>4, KeepsFit
  <2>6. Same(s, u)
    BY <2>1, <2>2, <2>5 DEF Same, Held
  <2>. QED BY <2>2, <2>3, <2>5, <2>6 DEF Checked
<1>2. CASE n # "bad parameters"
  <2>1. CheckAction(t, n) = CheckModule(t, "Proc", n) /\ "Proc" \in Loaders
    BY <1>2 DEF CheckAction, Loaders
  <2>. QED BY <2>1, CheckedAgain
<1>. QED BY <1>1, <1>2

\* A rule whose modules are in U
RuleTyped(rule) ==
    /\ rule.exports \in Seq(Names) /\ rule.actions \in Seq(Names \cup {"bad parameters"})

RuleIn(rule, U) ==
    /\ RuleTyped(rule)
    /\ \A k \in DOMAIN rule.exports : <<"Export", rule.exports[k]>> \in U
    /\ \A k \in DOMAIN rule.actions : rule.actions[k] \in Names => <<"Proc", rule.actions[k]>> \in U

LEMMA RuleLists ==
  ASSUME NEW rule, NEW U, RuleIn(rule, U)
  PROVE  /\ Len(rule.exports) \in Nat /\ DOMAIN rule.exports = 1 .. Len(rule.exports)
         /\ Len(rule.actions) \in Nat /\ DOMAIN rule.actions = 1 .. Len(rule.actions)
         /\ \A k \in DOMAIN rule.exports :
                rule.exports[k] \in Names /\ <<"Export", rule.exports[k]>> \in U
         /\ \A k \in DOMAIN rule.actions :
                rule.actions[k] \in Names => <<"Proc", rule.actions[k]>> \in U
<1> DEFINE e == rule.exports
           a == rule.actions
           V == Names \cup {"bad parameters"}
<1>1. e \in Seq(Names) /\ a \in Seq(V)
  BY DEF RuleIn, RuleTyped
<1>. HIDE DEF e, a, V
<1>2. /\ Len(e) \in Nat /\ DOMAIN e = 1 .. Len(e) /\ \A k \in DOMAIN e : e[k] \in Names
      /\ Len(a) \in Nat /\ DOMAIN a = 1 .. Len(a)
  BY <1>1
<1>. QED BY <1>2 DEF RuleIn, e, a

\* Exporter's part of a check
LEMMA ExportsChecked ==
  ASSUME NEW U, Apart(U), NEW s, Loaded(s, U), TimersFit(s), NEW rule, RuleIn(rule, U)
  PROVE  CheckExports(s, rule) \in Checked(s, U)
<1> DEFINE list == rule.exports
           n == Len(list)
           S == Checked(s, U)
           step == [x \in S \X (1 .. n) |-> CheckModule(x[1], "Export", list[x[2]])]
           Rec(h) == h = [T \in SUBSET DOMAIN list |->
                             IF T = {} THEN s ELSE CheckModule(h[T \ {Max(T)}], "Export", list[Max(T)])]
           F == CHOOSE h : Rec(h)
<1>1. n \in Nat /\ DOMAIN list = 1 .. n
  BY RuleLists
<1>2. s \in S /\ \A t \in S, k \in 1 .. n : CheckModule(t, "Export", list[k]) \in S
  <2>1. s \in S
    BY DEF Checked, Same, Loaded
  <2>2. ASSUME NEW t \in S, NEW k \in 1 .. n
        PROVE  CheckModule(t, "Export", list[k]) \in S
    <3>1. "Export" \in Loaders /\ <<"Export", list[k]>> \in U
      BY <1>1, RuleLists DEF Loaders
    <3>. QED BY <3>1, CheckedAgain
  <2>. QED BY <2>1, <2>2
<1>. HIDE DEF S
<1>3. step \in [S \X (1 .. n) -> S] /\ \A t \in S, k \in 1 .. n : step[<<t, k>>] = CheckModule(t, "Export", list[k])
  BY <1>2
<1>4. Stepping(n, S, s, step)
  BY <1>1, <1>2, <1>3 DEF Stepping
<1>. HIDE DEF step
<1>5. \E h : Rec(h)
  <2>1. PICK g \in [SUBSET (1 .. n) -> S] : Folding(n, S, s, step, g)
    BY <1>4, FoldExists
  <2>2. ASSUME NEW T \in SUBSET (1 .. n), T # {}
        PROVE  g[T] = CheckModule(g[T \ {Max(T)}], "Export", list[Max(T)])
    <3>1. Max(T) \in 1 .. n
      BY <1>1, <2>2, MaxUpto
    <3>2. T \ {Max(T)} \in SUBSET (1 .. n)
      OBVIOUS
    <3>. QED BY <1>3, <2>1, <2>2, <3>1, <3>2 DEF Folding
  <2>3. Rec(g)
    BY <1>1, <2>1, <2>2 DEF Folding
  <2>. QED BY <2>3
<1>6. Rec(F)
  <2>. HIDE DEF Rec
  <2>. QED BY <1>5
<1>7. CheckExports(s, rule) = F[DOMAIN list]
  BY DEF CheckExports, FoldLeft, MapThenFoldSet
<1>8. Folding(n, S, s, step, F)
  <2>1. F[{}] = s /\ \A T \in SUBSET (1 .. n) :
            T # {} => F[T] = CheckModule(F[T \ {Max(T)}], "Export", list[Max(T)])
    <3>. HIDE DEF F
    <3>. QED BY <1>1, <1>6
  <2>. HIDE DEF F
  <2>2. \A T \in SUBSET (1 .. n) : T # {} /\ F[T \ {Max(T)}] \in S =>
            F[T] = step[<<F[T \ {Max(T)}], Max(T)>>]
    BY <1>1, <1>3, <2>1, MaxUpto
  <2>. QED BY <2>1, <2>2 DEF Folding
<1>. HIDE DEF F, Rec
<1>9. PICK st : Chain(n, S, s, step, F, st)
  BY <1>4, <1>8, FoldChain
<1>10. CheckExports(s, rule) \in S
  <2>. HIDE DEF n, list
  <2>. QED BY <1>1, <1>7, <1>9 DEF Chain
<1>. QED BY <1>10 DEF S

\* The whole check leaves timers and uses as they were.
LEMMA RuleChecked ==
  ASSUME NEW U, Apart(U), NEW s, Loaded(s, U), TimersFit(s), NEW rule, RuleIn(rule, U)
  PROVE  CheckRule(s, rule) \in Checked(s, U)
<1> DEFINE list == rule.actions
           n == Len(list)
           S == Checked(s, U)
           step == [x \in S \X (1 .. n) |-> CheckAction(x[1], list[x[2]])]
           Rec(h) == h = [T \in SUBSET DOMAIN list |->
                             IF T = {} THEN CheckExports(s, rule) ELSE CheckAction(h[T \ {Max(T)}], list[Max(T)])]
           F == CHOOSE h : Rec(h)
<1>1. n \in Nat /\ DOMAIN list = 1 .. n
  BY RuleLists
<1>2. CheckExports(s, rule) \in S /\ \A t \in S, k \in 1 .. n : CheckAction(t, list[k]) \in S
  <2>1. CheckExports(s, rule) \in S
    BY ExportsChecked
  <2>2. ASSUME NEW t \in S, NEW k \in 1 .. n
        PROVE  CheckAction(t, list[k]) \in S
    <3>1. list[k] \in Names => <<"Proc", list[k]>> \in U
      BY <1>1, RuleLists
    <3>. QED BY <3>1, ActionCheckedAgain
  <2>. QED BY <2>1, <2>2
<1>. HIDE DEF S
<1>3. step \in [S \X (1 .. n) -> S] /\ \A t \in S, k \in 1 .. n : step[<<t, k>>] = CheckAction(t, list[k])
  BY <1>2
<1>4. Stepping(n, S, CheckExports(s, rule), step)
  BY <1>1, <1>2, <1>3 DEF Stepping
<1>. HIDE DEF step
<1>5. \E h : Rec(h)
  <2>1. PICK g \in [SUBSET (1 .. n) -> S] : Folding(n, S, CheckExports(s, rule), step, g)
    BY <1>4, FoldExists
  <2>2. ASSUME NEW T \in SUBSET (1 .. n), T # {}
        PROVE  g[T] = CheckAction(g[T \ {Max(T)}], list[Max(T)])
    <3>1. Max(T) \in 1 .. n
      BY <1>1, <2>2, MaxUpto
    <3>2. T \ {Max(T)} \in SUBSET (1 .. n)
      OBVIOUS
    <3>. QED BY <1>3, <2>1, <2>2, <3>1, <3>2 DEF Folding
  <2>3. Rec(g)
    BY <1>1, <2>1, <2>2 DEF Folding
  <2>. QED BY <2>3
<1>6. Rec(F)
  <2>. HIDE DEF Rec
  <2>. QED BY <1>5
<1>7. CheckRule(s, rule) = F[DOMAIN list]
  BY DEF CheckRule, FoldLeft, MapThenFoldSet
<1>8. Folding(n, S, CheckExports(s, rule), step, F)
  <2>1. F[{}] = CheckExports(s, rule) /\ \A T \in SUBSET (1 .. n) :
            T # {} => F[T] = CheckAction(F[T \ {Max(T)}], list[Max(T)])
    <3>. HIDE DEF F
    <3>. QED BY <1>1, <1>6
  <2>. HIDE DEF F
  <2>2. \A T \in SUBSET (1 .. n) : T # {} /\ F[T \ {Max(T)}] \in S =>
            F[T] = step[<<F[T \ {Max(T)}], Max(T)>>]
    BY <1>1, <1>3, <2>1, MaxUpto
  <2>. QED BY <2>1, <2>2 DEF Folding
<1>. HIDE DEF F, Rec
<1>9. PICK st : Chain(n, S, CheckExports(s, rule), step, F, st)
  BY <1>4, <1>8, FoldChain
<1>10. CheckRule(s, rule) \in S
  <2>. HIDE DEF n, list
  <2>. QED BY <1>1, <1>7, <1>9 DEF Chain
<1>. QED BY <1>10 DEF S

-----------------------------------------------------------------------------
(* Adding a rule: the state and the modules so far *)

Works == [s : States, list : Seq(Names)]

Work(s, list) == [s |-> s, list |-> list]

LEMMA Worked ==
  ASSUME NEW w \in Works, NEW s, NEW list
  PROVE  /\ [w EXCEPT !.s = s] = Work(s, w.list)
         /\ [w EXCEPT !.s = s, !.list = list] = Work(s, list)
<1>1. w = Work(w.s, w.list) /\ DOMAIN w = {"s", "list"}
  BY DEF Works, Work
<1>2. ASSUME NEW t, t = [w EXCEPT !.s = s] PROVE t = Work(s, w.list)
  BY <1>1, <1>2 DEF Work
<1>3. ASSUME NEW t, t = [w EXCEPT !.s = s, !.list = list] PROVE t = Work(s, list)
  BY <1>1, <1>3 DEF Work
<1>. QED BY <1>2, <1>3, Zenon

\* A loaded export module gets its timers, unless it has them.
LEMMA TimersAdded ==
  ASSUME NEW U, NEW s, Loaded(s, U), TimersFit(s), NEW n \in Names, s.refs["Export"][n] > 0
  PROVE  LET t == AddExportTimers(s, n)
         IN  /\ Loaded(t, U) /\ TimersFit(t) /\ t.active = s.active \cup {n}
             /\ t.refs = s.refs /\ t.pt = s.pt /\ t.kept = s.kept /\ t.error = s.error
<1> DEFINE t == AddExportTimers(s, n)
           A == s.active \cup {n}
           E == [s.et EXCEPT ![n] = IF n \in WithTimers THEN @ + 1 ELSE @]
<1>1. s \in States /\ s.active \in SUBSET Names /\ s.et \in [Names -> Int]
  BY DEF Loaded, States
<1>2. CASE n \in s.active
  <2>1. t = s /\ s.active \cup {n} = s.active
    BY <1>2 DEF AddExportTimers
  <2>. QED BY <2>1
<1>3. CASE n \notin s.active
  <2>1. t = [s EXCEPT !.active = A, !.et = E]
    BY <1>3 DEF AddExportTimers
  <2>2. A \in SUBSET Names /\ E \in [Names -> Int]
    BY <1>1
  <2>3. \A x \in Names : E[x] = IF x = n /\ n \in WithTimers THEN s.et[x] + 1 ELSE s.et[x]
    BY <1>1
  <2>. HIDE DEF A, E, t
  <2>4. t = State(s.refs, s.ready, A, E, s.pt, s.kept, s.error)
    BY <1>1, <2>1, Changed
  <2>5. /\ t.active = A /\ t.et = E /\ t.refs = s.refs /\ t.ready = s.ready
        /\ t.pt = s.pt /\ t.kept = s.kept /\ t.error = s.error
    BY <2>4 DEF State
  <2>6. t \in States
    BY <1>1, <2>2, <2>4 DEF State, States
  <2>7. Loaded(t, U)
    BY <2>5, <2>6 DEF Loaded
  <2>8. ASSUME NEW x \in Names
        PROVE  /\ t.et[x] = IF x \in t.active \cap WithTimers THEN 1 ELSE 0
               /\ x \in t.active \cap WithTimers => t.refs["Export"][x] > 0
    <3>1. /\ s.et[x] = IF x \in s.active \cap WithTimers THEN 1 ELSE 0
          /\ x \in s.active \cap WithTimers => s.refs["Export"][x] > 0
      BY DEF TimersFit
    <3>2. CASE x = n
      BY <1>3, <2>3, <2>5, <3>1, <3>2 DEF A
    <3>3. CASE x # n
      BY <2>3, <2>5, <3>1, <3>3 DEF A
    <3>. QED BY <3>2, <3>3
  <2>. QED BY <2>5, <2>7, <2>8 DEF TimersFit, A, t
<1>. QED BY <1>2, <1>3

\* What adding a rule's modules makes of a state, whichever they are
Added(s, l, U) ==
    {w \in Works :
        /\ Loaded(w.s, U) /\ TimersFit(w.s)
        /\ Ticking(s) \subseteq Ticking(w.s) /\ (l = "Proc" => Ticking(w.s) = Ticking(s))
        /\ l = "Export" => /\ w.s.pt = s.pt
                           /\ \A k \in DOMAIN w.list : w.list[k] \in WithTimers => w.list[k] \in w.s.active
        /\ \A m \in Loaders, n \in Names :
               Held(w.s, m, n) = Held(s, m, n) + IF m = l THEN Count(w.list, n) ELSE 0}

LEMMA NoneAdded ==
  ASSUME NEW U, NEW s, Loaded(s, U), TimersFit(s), NEW l \in Loaders
  PROVE  Work(s, <<>>) \in Added(s, l, U)
<1> DEFINE w == Work(s, <<>>)
<1>1. w \in Works /\ w.s = s /\ w.list = <<>>
  BY DEF Work, Works, Loaded
<1>. HIDE DEF w
<1>2. \A m \in Loaders, n \in Names : Held(s, m, n) \in Int
  <2>1. s.refs \in [Loaders -> [Names -> Int]] /\ s.kept \in [Loaders -> [Names -> Int]]
    BY DEF Loaded, States
  <2>. QED BY <2>1 DEF Held
<1>3. DOMAIN <<>> = {}
  OBVIOUS
<1>4. \A m \in Loaders, n \in Names :
         Held(w.s, m, n) = Held(s, m, n) + IF m = l THEN Count(w.list, n) ELSE 0
  BY <1>1, <1>2, CountEmpty
<1>. QED BY <1>1, <1>3, <1>4 DEF Added, w

\* A module that is not used changes nothing that matters.
LEMMA AddedSame ==
  ASSUME NEW U, NEW s, NEW l \in Loaders, NEW w \in Added(s, l, U),
         NEW t \in States, Loaded(t, U), TimersFit(t), Same(w.s, t)
  PROVE  Work(t, w.list) \in Added(s, l, U)
<1> DEFINE v == Work(t, w.list)
<1>1. v \in Works /\ v.s = t /\ v.list = w.list
  BY DEF Work, Works, Added
<1>. HIDE DEF v
<1>2. Ticking(t) = Ticking(w.s) /\ t.pt = w.s.pt
  BY DEF Same
<1>3. \A m \in Loaders, n \in Names : Held(t, m, n) = Held(w.s, m, n)
  BY DEF Same
<1>4. \A k \in DOMAIN w.list : w.list[k] \in WithTimers /\ w.list[k] \in w.s.active => w.list[k] \in t.active
  BY <1>2 DEF Ticking
<1>. QED BY <1>1, <1>2, <1>3, <1>4 DEF Added, v

\* A module that is used
LEMMA AddedOne ==
  ASSUME NEW U, NEW s, Loaded(s, U), NEW l \in Loaders, NEW w \in Added(s, l, U), NEW n \in Names,
         NEW t \in States, Loaded(t, U), TimersFit(t),
         Ticking(w.s) \subseteq Ticking(t), l = "Proc" => Ticking(t) = Ticking(w.s),
         l = "Export" => t.pt = w.s.pt /\ (n \in WithTimers => n \in t.active),
         \A m \in Loaders, x \in Names :
             Held(t, m, x) = Held(w.s, m, x) + IF m = l /\ x = n THEN 1 ELSE 0
  PROVE  Work(t, Append(w.list, n)) \in Added(s, l, U)
<1> DEFINE list == w.list
           more == Append(list, n)
           v == Work(t, more)
<1>1. /\ list \in Seq(Names)
      /\ Ticking(s) \subseteq Ticking(w.s) /\ (l = "Proc" => Ticking(w.s) = Ticking(s))
      /\ l = "Export" => /\ w.s.pt = s.pt
                         /\ \A k \in DOMAIN list : list[k] \in WithTimers => list[k] \in w.s.active
      /\ \A m \in Loaders, x \in Names :
             Held(w.s, m, x) = Held(s, m, x) + IF m = l THEN Count(list, x) ELSE 0
  BY DEF Added, Works
<1>. HIDE DEF list
<1>2. more \in Seq(Names)
  BY <1>1
<1>3. v \in Works /\ v.s = t /\ v.list = more
  BY <1>2 DEF Work, Works
<1>4. \A m \in Loaders, x \in Names :
         Held(t, m, x) = Held(s, m, x) + IF m = l THEN Count(more, x) ELSE 0
  <2>. TAKE m \in Loaders, x \in Names
  <2>1. Held(s, m, x) \in Int
    <3>1. s.refs \in [Loaders -> [Names -> Int]] /\ s.kept \in [Loaders -> [Names -> Int]]
      BY DEF Loaded, States
    <3>. QED BY <3>1 DEF Held
  <2>2. Count(more, x) = Count(list, x) + (IF n = x THEN 1 ELSE 0) /\ Count(list, x) \in Nat
    BY <1>1, CountAppend
  <2>3. /\ Held(t, m, x) = Held(w.s, m, x) + IF m = l /\ x = n THEN 1 ELSE 0
        /\ Held(w.s, m, x) = Held(s, m, x) + IF m = l THEN Count(list, x) ELSE 0
    BY <1>1
  <2>. HIDE DEF more
  <2>. QED BY <2>1, <2>2, <2>3
<1>5. ASSUME l = "Export", NEW k \in DOMAIN more, more[k] \in WithTimers
      PROVE  more[k] \in t.active
  <2>1. /\ Len(list) \in Nat /\ DOMAIN list = 1 .. Len(list) /\ DOMAIN more = 1 .. Len(list) + 1
        /\ more[Len(list) + 1] = n /\ \A i \in 1 .. Len(list) : more[i] = list[i]
    BY <1>1
  <2>2. CASE k = Len(list) + 1
    BY <1>5, <2>1, <2>2
  <2>3. CASE k # Len(list) + 1
    <3>1. k \in DOMAIN list /\ more[k] = list[k]
      BY <1>5, <2>1, <2>3
    <3>2. list[k] \in Ticking(w.s)
      BY <1>1, <1>5, <3>1 DEF Ticking
    <3>. QED BY <3>1, <3>2 DEF Ticking
  <2>. QED BY <2>2, <2>3
<1>. HIDE DEF more, v
<1>6. Loaded(v.s, U) /\ TimersFit(v.s)
  BY <1>3
<1>7. Ticking(s) \subseteq Ticking(v.s) /\ (l = "Proc" => Ticking(v.s) = Ticking(s))
  BY <1>1, <1>3
<1>8. l = "Export" => /\ v.s.pt = s.pt
                      /\ \A k \in DOMAIN v.list : v.list[k] \in WithTimers => v.list[k] \in v.s.active
  BY <1>1, <1>3, <1>5
<1>9. \A m \in Loaders, x \in Names :
         Held(v.s, m, x) = Held(s, m, x) + IF m = l THEN Count(v.list, x) ELSE 0
  BY <1>3, <1>4
<1>10. v \in Added(s, l, U)
  BY <1>3, <1>6, <1>7, <1>8, <1>9 DEF Added
<1>. QED BY <1>10 DEF v, more, list

\* The state after a module was got for a rule
LEMMA GotForRule ==
  ASSUME NEW U, Apart(U), NEW s, NEW l \in Loaders, NEW w \in Added(s, l, U), NEW n,
         n \in Names => <<l, n>> \in U, ~GetModule(w.s, l, n).error
  PROVE  LET g == GetModule(w.s, l, n)
         IN  /\ n \in Names /\ g \in States /\ Loaded(g, U) /\ TimersFit(g)
             /\ Ticking(g) = Ticking(w.s) /\ g.pt = w.s.pt /\ g.refs[l][n] > 0
             /\ \A m \in Loaders, x \in Names :
                    Held(g, m, x) = Held(w.s, m, x) + IF m = l /\ x = n THEN 1 ELSE 0
             /\ Kind[n] # "none"
<1> DEFINE v == w.s
           g == GetModule(v, l, n)
<1>1. Loaded(v, U) /\ TimersFit(v)
  BY DEF Added
<1>. HIDE DEF v
<1>2. /\ v \in States /\ v.refs \in [Loaders -> [Names -> Int]] /\ v.kept \in [Loaders -> [Names -> Int]]
      /\ \A x \in Names : v.refs[l][x] >= 0
  <2>1. v \in States /\ \A x \in Names : v.refs[l][x] >= 0
    BY <1>1 DEF Loaded
  <2>. QED BY <2>1 DEF States
<1>3. ~g.error
  BY DEF v
<1>4. /\ n \in Names /\ g \in States /\ g.pt = v.pt /\ g.kept = v.kept
      /\ \A m \in Loaders, x \in Names :
             g.refs[m][x] = v.refs[m][x] + IF m = l /\ x = n THEN 1 ELSE 0
  BY <1>2, <1>3, GotIs
<1>5. Loaded(g, U) /\ TimersFit(g) /\ Ticking(g) = Ticking(v)
  BY <1>1, <1>3, GetFits
<1>. HIDE DEF g
<1>6. g.refs[l][n] > 0
  BY <1>2, <1>4
<1>7. \A m \in Loaders, x \in Names : Held(g, m, x) = Held(v, m, x) + IF m = l /\ x = n THEN 1 ELSE 0
  <2>. TAKE m \in Loaders, x \in Names
  <2>1. v.refs[m][x] \in Int /\ v.kept[m][x] \in Int
    BY <1>2
  <2>2. /\ g.refs[m][x] = v.refs[m][x] + IF m = l /\ x = n THEN 1 ELSE 0
        /\ g.kept[m][x] = v.kept[m][x]
    BY <1>4
  <2>. QED BY <2>1, <2>2 DEF Held
<1>8. Kind[n] # "none"
  BY <1>4, <1>5, <1>6 DEF Loaded
<1>. QED BY <1>4, <1>5, <1>6, <1>7, <1>8 DEF g, v

LEMMA ErrorAdds ==
  ASSUME NEW U, NEW s, NEW l \in Loaders, NEW w \in Added(s, l, U)
  PROVE  /\ [w EXCEPT !.s.error = TRUE] = Work(Failed(w.s), w.list)
         /\ Work(Failed(w.s), w.list) \in Added(s, l, U) /\ Failed(w.s).error
<1> DEFINE v == w.s
           t == Failed(v)
<1>1. w \in Works /\ v \in States /\ Loaded(v, U) /\ TimersFit(v)
  BY DEF Added, Works
<1>2. [w EXCEPT !.s.error = TRUE] = Work(t, w.list)
  <2>1. [w EXCEPT !.s.error = TRUE] = [w EXCEPT !.s = t]
    BY <1>1 DEF Failed, Works
  <2>. HIDE DEF t
  <2>. QED BY <1>1, <2>1, Worked
<1>3. /\ t \in States /\ t.error /\ t.refs = v.refs /\ t.ready = v.ready /\ t.active = v.active
      /\ t.et = v.et /\ t.pt = v.pt /\ t.kept = v.kept
  <2>. HIDE DEF v
  <2>. QED BY <1>1, FailedIs
<1>. HIDE DEF t
<1>4. Loaded(t, U) /\ TimersFit(t) /\ Ticking(t) = Ticking(v)
  <2>. HIDE DEF v
  <2>1. \A m \in Loaders, n \in Names : t.kept[m][n] >= 0
    BY <1>1, <1>3 DEF Loaded
  <2>. QED BY <1>1, <1>3, <2>1, KeepsFit
<1>5. Same(v, t)
  BY <1>3, <1>4 DEF Same, Held
<1>6. Work(t, w.list) \in Added(s, l, U)
  BY <1>3, <1>4, <1>5, AddedSame
<1>. QED BY <1>2, <1>3, <1>6 DEF t

\* A module of the wrong kind
LEMMA UnfitAdds ==
  ASSUME NEW U, NEW s, NEW l \in Loaders, NEW w \in Added(s, l, U), NEW n \in Names,
         NEW g \in States, Loaded(g, U), TimersFit(g), Ticking(g) = Ticking(w.s), g.pt = w.s.pt,
         \A m \in Loaders, x \in Names :
             Held(g, m, x) = Held(w.s, m, x) + IF m = l /\ x = n THEN 1 ELSE 0
  PROVE  /\ [w EXCEPT !.s = Unfit(g, l, n)] = Work(Unfit(g, l, n), w.list)
         /\ Work(Unfit(g, l, n), w.list) \in Added(s, l, U)
         /\ Unfit(g, l, n).pt = w.s.pt /\ Unfit(g, l, n).error = g.error
<1> DEFINE u == Unfit(g, l, n)
<1>1. /\ u \in States /\ u.refs = g.refs /\ u.ready = g.ready /\ u.active = g.active
      /\ u.et = g.et /\ u.pt = g.pt /\ u.error = g.error
      /\ \A m \in Loaders, x \in Names :
             u.kept[m][x] = g.kept[m][x] + IF m = l /\ x = n THEN 1 ELSE 0
  BY UnfitIs
<1>. HIDE DEF u
<1>2. \A m \in Loaders, x \in Names :
         /\ g.refs[m][x] \in Int /\ g.kept[m][x] \in Int /\ g.kept[m][x] >= 0
         /\ w.s.refs[m][x] \in Int /\ w.s.kept[m][x] \in Int
  <2>1. w.s \in States
    BY DEF Added, Works
  <2>2. /\ g.refs \in [Loaders -> [Names -> Int]] /\ g.kept \in [Loaders -> [Names -> Int]]
        /\ w.s.refs \in [Loaders -> [Names -> Int]] /\ w.s.kept \in [Loaders -> [Names -> Int]]
    BY <2>1 DEF States
  <2>. QED BY <2>2 DEF Loaded
<1>3. \A m \in Loaders, x \in Names : u.kept[m][x] >= 0
  BY <1>1, <1>2
<1>4. Loaded(u, U) /\ TimersFit(u) /\ Ticking(u) = Ticking(g)
  BY <1>1, <1>3, KeepsFit
<1>5. Same(w.s, u)
  <2>1. \A m \in Loaders, x \in Names : Held(u, m, x) = Held(w.s, m, x)
    <3>. TAKE m \in Loaders, x \in Names
    <3>1. Held(g, m, x) = Held(w.s, m, x) + IF m = l /\ x = n THEN 1 ELSE 0
      OBVIOUS
    <3>. QED BY <1>1, <1>2, <3>1 DEF Held
  <2>. QED BY <1>1, <1>4, <2>1 DEF Same
<1>6. Work(u, w.list) \in Added(s, l, U)
  BY <1>1, <1>4, <1>5, AddedSame
<1>7. w \in Works
  BY DEF Added
<1>. QED BY <1>1, <1>6, <1>7, Worked DEF u

LEMMA ExportAdded ==
  ASSUME NEW U, Apart(U), NEW s, Loaded(s, U), NEW w \in Added(s, "Export", U), NEW n,
         n \in Names => <<"Export", n>> \in U
  PROVE  AddExport(w, n) \in Added(s, "Export", U)
<1> DEFINE g == GetModule(w.s, "Export", n)
<1>0. "Export" \in Loaders /\ "Export" # "Proc" /\ w \in Works
  BY DEF Loaders, Added
<1>1. CASE w.s.error \/ g.error
  <2>1. AddExport(w, n) = [w EXCEPT !.s.error = TRUE]
    BY <1>1 DEF AddExport
  <2>. QED BY <1>0, <2>1, ErrorAdds
<1>2. CASE ~(w.s.error \/ g.error)
  <2>1. /\ n \in Names /\ g \in States /\ Loaded(g, U) /\ TimersFit(g)
        /\ Ticking(g) = Ticking(w.s) /\ g.pt = w.s.pt /\ g.refs["Export"][n] > 0
        /\ \A m \in Loaders, x \in Names :
               Held(g, m, x) = Held(w.s, m, x) + IF m = "Export" /\ x = n THEN 1 ELSE 0
    BY <1>0, <1>2, GotForRule
  <2>2. CASE Kind[n] # "export"
    <3>1. AddExport(w, n) = [w EXCEPT !.s = Unfit(g, "Export", n)]
      BY <1>2, <2>2 DEF AddExport
    <3>. HIDE DEF g
    <3>. QED BY <1>0, <2>1, <3>1, UnfitAdds
  <2>3. CASE Kind[n] = "export"
    <3> DEFINE t == AddExportTimers(g, n)
               more == Append(w.list, n)
    <3>1. AddExport(w, n) = [w EXCEPT !.s = t, !.list = more]
      BY <1>2, <2>3 DEF AddExport
    <3>. HIDE DEF g
    <3>2. /\ Loaded(t, U) /\ TimersFit(t) /\ t.active = g.active \cup {n}
          /\ t.refs = g.refs /\ t.pt = g.pt /\ t.kept = g.kept
      BY <2>1, TimersAdded
    <3>. HIDE DEF t
    <3>3. t \in States /\ Ticking(w.s) \subseteq Ticking(t) /\ n \in t.active /\ t.pt = w.s.pt
      <4>1. Ticking(g) \subseteq Ticking(t)
        BY <3>2 DEF Ticking
      <4>. QED BY <2>1, <3>2, <4>1 DEF Loaded
    <3>4. \A m \in Loaders, x \in Names :
             Held(t, m, x) = Held(w.s, m, x) + IF m = "Export" /\ x = n THEN 1 ELSE 0
      BY <2>1, <3>2 DEF Held
    <3>5. Work(t, more) \in Added(s, "Export", U)
      BY <1>0, <2>1, <3>2, <3>3, <3>4, AddedOne
    <3>6. AddExport(w, n) = Work(t, more)
      <4>1. w = Work(w.s, w.list) /\ DOMAIN w = {"s", "list"}
        BY <1>0 DEF Works, Work
      <4>. HIDE DEF more
      <4>. QED BY <3>1, <4>1 DEF Work
    <3>. QED BY <3>5, <3>6
  <2>. QED BY <2>2, <2>3
<1>. QED BY <1>1, <1>2

\* An action's module is used at the next place, and has its timers there; or it
\* is an export module, or the rule is not added.
Acts(w, v, i, n, r) ==
    \/ v.s.error
    \/ /\ ~w.s.error /\ n \in Names
       /\ \/ Kind[n] = "export" /\ v.list = w.list /\ v.s.pt = w.s.pt
          \/ /\ v.list = Append(w.list, n)
             /\ v.s.pt = IF n \in WithTimers THEN w.s.pt \cup {<<r, i>>} ELSE w.s.pt

LEMMA ActionAdded ==
  ASSUME NEW U, Apart(U), NEW s, Loaded(s, U), NEW w \in Added(s, "Proc", U), NEW n,
         n \in Names => <<"Proc", n>> \in U, NEW i \in Nat, NEW r \in RuleIds
  PROVE  /\ AddAction(w, i, n, r) \in Added(s, "Proc", U)
         /\ Acts(w, AddAction(w, i, n, r), i, n, r)
<1> DEFINE g == GetModule(w.s, "Proc", n)
           v == AddAction(w, i, n, r)
<1>0. "Proc" \in Loaders /\ "Export" # "Proc" /\ w \in Works
  BY DEF Loaders, Added
<1>1. CASE w.s.error \/ g.error
  <2>1. v = [w EXCEPT !.s.error = TRUE]
    BY <1>1 DEF AddAction
  <2>2. v = Work(Failed(w.s), w.list) /\ v \in Added(s, "Proc", U) /\ Failed(w.s).error
    BY <1>0, <2>1, ErrorAdds
  <2>3. v.s = Failed(w.s)
    <3>. HIDE DEF v
    <3>. QED BY <2>2 DEF Work
  <2>. QED BY <2>2, <2>3 DEF Acts
<1>2. CASE ~(w.s.error \/ g.error)
  <2>1. /\ n \in Names /\ g \in States /\ Loaded(g, U) /\ TimersFit(g)
        /\ Ticking(g) = Ticking(w.s) /\ g.pt = w.s.pt /\ Kind[n] # "none"
        /\ \A m \in Loaders, x \in Names :
               Held(g, m, x) = Held(w.s, m, x) + IF m = "Proc" /\ x = n THEN 1 ELSE 0
    BY <1>0, <1>2, GotForRule
  <2>2. CASE Kind[n] # "proc"
    <3>1. v = [w EXCEPT !.s = Unfit(g, "Proc", n)]
      BY <1>2, <2>2 DEF AddAction
    <3>. HIDE DEF g
    <3>2. /\ v = Work(Unfit(g, "Proc", n), w.list) /\ v \in Added(s, "Proc", U)
          /\ Unfit(g, "Proc", n).pt = w.s.pt
      BY <1>0, <2>1, <3>1, UnfitAdds
    <3>3. Kind[n] = "export"
      BY <2>1, <2>2, ModuleUseAssumption
    <3>4. v.list = w.list /\ v.s = Unfit(g, "Proc", n)
      <4>. HIDE DEF v
      <4>. QED BY <3>2 DEF Work
    <3>. QED BY <1>2, <2>1, <3>2, <3>3, <3>4 DEF Acts
  <2>3. CASE Kind[n] = "proc"
    <3> DEFINE P == IF n \in WithTimers THEN g.pt \cup {<<r, i>>} ELSE g.pt
               t == IF n \in WithTimers THEN [g EXCEPT !.pt = @ \cup {<<r, i>>}] ELSE g
               more == Append(w.list, n)
    <3>1. v = [w EXCEPT !.s = t, !.list = more]
      BY <1>2, <2>3 DEF AddAction
    <3>2. P \in SUBSET (RuleIds \X Nat)
      <4>1. g.pt \in SUBSET (RuleIds \X Nat)
        BY <2>1 DEF States
      <4>. HIDE DEF g
      <4>. QED BY <4>1
    <3>. HIDE DEF g
    <3>3. t = State(g.refs, g.ready, g.active, g.et, P, g.kept, g.error)
      <4>1. CASE n \in WithTimers
        <5>1. t = [g EXCEPT !.pt = P]
          BY <4>1
        <5>. HIDE DEF t, P
        <5>. QED BY <2>1, <5>1, Changed
      <4>2. CASE n \notin WithTimers
        <5>1. t = g /\ P = g.pt
          BY <4>2
        <5>. QED BY <2>1, <5>1, Fields
      <4>. QED BY <4>1, <4>2
    <3>. HIDE DEF t
    <3>4. /\ t.refs = g.refs /\ t.ready = g.ready /\ t.active = g.active /\ t.et = g.et
          /\ t.pt = P /\ t.kept = g.kept
      <4>. HIDE DEF P
      <4>. QED BY <3>3 DEF State
    <3>5. t \in States
      <4>. HIDE DEF P
      <4>. QED BY <2>1, <3>2, <3>3 DEF State, States
    <3>6. Loaded(t, U) /\ TimersFit(t) /\ Ticking(t) = Ticking(g)
      <4>1. \A m \in Loaders, x \in Names : t.kept[m][x] >= 0
        BY <2>1, <3>4 DEF Loaded
      <4>. QED BY <2>1, <3>4, <3>5, <4>1, KeepsFit
    <3>7. \A m \in Loaders, x \in Names :
             Held(t, m, x) = Held(w.s, m, x) + IF m = "Proc" /\ x = n THEN 1 ELSE 0
      BY <2>1, <3>4 DEF Held
    <3>8. Work(t, more) \in Added(s, "Proc", U)
      BY <1>0, <2>1, <3>5, <3>6, <3>7, AddedOne
    <3>9. v = Work(t, more)
      <4>1. w = Work(w.s, w.list) /\ DOMAIN w = {"s", "list"}
        BY <1>0 DEF Works, Work
      <4>. HIDE DEF more, v
      <4>. QED BY <3>1, <4>1 DEF Work
    <3>10. v.s = t /\ v.list = more
      <4>. HIDE DEF v, more
      <4>. QED BY <3>9 DEF Work
    <3>11. Acts(w, v, i, n, r)
      <4>. HIDE DEF v
      <4>. QED BY <1>2, <2>1, <3>4, <3>10 DEF Acts
    <3>. QED BY <3>8, <3>9, <3>11
  <2>. QED BY <2>2, <2>3
<1>. QED BY <1>1, <1>2

\* Exporter adds a rule's modules, as far as it gets.
LEMMA ExportsAdded ==
  ASSUME NEW U, Apart(U), NEW s, Loaded(s, U), TimersFit(s), NEW rule, RuleIn(rule, U)
  PROVE  AddExports(s, rule) \in Added(s, "Export", U)
<1> DEFINE list == rule.exports
           n == Len(list)
           S == Added(s, "Export", U)
           step == [x \in S \X (1 .. n) |-> AddExport(x[1], list[x[2]])]
           Rec(h) == h = [T \in SUBSET DOMAIN list |->
                             IF T = {} THEN Work(s, <<>>) ELSE AddExport(h[T \ {Max(T)}], list[Max(T)])]
           F == CHOOSE h : Rec(h)
<1>1. n \in Nat /\ DOMAIN list = 1 .. n
  BY RuleLists
<1>2. Work(s, <<>>) \in S /\ \A t \in S, k \in 1 .. n : AddExport(t, list[k]) \in S
  <2>1. Work(s, <<>>) \in S
    BY NoneAdded DEF Loaders
  <2>2. ASSUME NEW t \in S, NEW k \in 1 .. n
        PROVE  AddExport(t, list[k]) \in S
    <3>1. <<"Export", list[k]>> \in U
      BY <1>1, RuleLists
    <3>. QED BY <3>1, ExportAdded
  <2>. QED BY <2>1, <2>2
<1>. HIDE DEF S
<1>3. step \in [S \X (1 .. n) -> S] /\ \A t \in S, k \in 1 .. n : step[<<t, k>>] = AddExport(t, list[k])
  BY <1>2
<1>4. Stepping(n, S, Work(s, <<>>), step)
  BY <1>1, <1>2, <1>3 DEF Stepping
<1>. HIDE DEF step
<1>5. \E h : Rec(h)
  <2>1. PICK g \in [SUBSET (1 .. n) -> S] : Folding(n, S, Work(s, <<>>), step, g)
    BY <1>4, FoldExists
  <2>2. ASSUME NEW T \in SUBSET (1 .. n), T # {}
        PROVE  g[T] = AddExport(g[T \ {Max(T)}], list[Max(T)])
    <3>1. Max(T) \in 1 .. n
      BY <1>1, <2>2, MaxUpto
    <3>2. T \ {Max(T)} \in SUBSET (1 .. n)
      OBVIOUS
    <3>. QED BY <1>3, <2>1, <2>2, <3>1, <3>2 DEF Folding
  <2>3. Rec(g)
    BY <1>1, <2>1, <2>2 DEF Folding
  <2>. QED BY <2>3
<1>6. Rec(F)
  <2>. HIDE DEF Rec
  <2>. QED BY <1>5
<1>7. AddExports(s, rule) = F[DOMAIN list]
  BY DEF AddExports, Work, FoldLeft, MapThenFoldSet
<1>8. Folding(n, S, Work(s, <<>>), step, F)
  <2>1. F[{}] = Work(s, <<>>) /\ \A T \in SUBSET (1 .. n) :
            T # {} => F[T] = AddExport(F[T \ {Max(T)}], list[Max(T)])
    <3>. HIDE DEF F
    <3>. QED BY <1>1, <1>6
  <2>. HIDE DEF F
  <2>2. \A T \in SUBSET (1 .. n) : T # {} /\ F[T \ {Max(T)}] \in S =>
            F[T] = step[<<F[T \ {Max(T)}], Max(T)>>]
    BY <1>1, <1>3, <2>1, MaxUpto
  <2>. QED BY <2>1, <2>2 DEF Folding
<1>. HIDE DEF F, Rec
<1>9. PICK st : Chain(n, S, Work(s, <<>>), step, F, st)
  BY <1>4, <1>8, FoldChain
<1>10. AddExports(s, rule) \in S
  <2>. HIDE DEF n, list
  <2>. QED BY <1>1, <1>7, <1>9 DEF Chain
<1>. QED BY <1>10 DEF S

\* Where names of N stand in a rule's list of modules, and the timers there
Stand(r, list, N) == {<<r, i>> : i \in {j \in DOMAIN list : list[j] \in N}}
TimersOf(r, list) == Stand(r, list, WithTimers)

\* PacketProcessor adds a rule's modules, as far as it gets.
LEMMA ActionsAdded ==
  ASSUME NEW U, Apart(U), NEW s, Loaded(s, U), TimersFit(s), NEW rule, RuleIn(rule, U),
         ~OtherAction(rule), NEW r \in RuleIds
  PROVE  /\ AddActions(s, rule, r) \in Added(s, "Proc", U)
         /\ ~AddActions(s, rule, r).s.error =>
                AddActions(s, rule, r).s.pt = s.pt \cup TimersOf(r, AddActions(s, rule, r).list)
<1> DEFINE list == [i \in DOMAIN rule.actions |-> i]
           n == Len(list)
           S == Added(s, "Proc", U)
           step == [x \in S \X (1 .. n) |-> AddAction(x[1], list[x[2]], rule.actions[list[x[2]]], r)]
           Rec(h) == h = [T \in SUBSET DOMAIN list |->
                             IF T = {} THEN Work(s, <<>>) ELSE AddAction(h[T \ {Max(T)}], list[Max(T)], rule.actions[list[Max(T)]], r)]
           F == CHOOSE h : Rec(h)
<1>1. n \in Nat /\ DOMAIN list = 1 .. n
  BY RuleLists
<1>2. Work(s, <<>>) \in S /\ \A t \in S, k \in 1 .. n : AddAction(t, list[k], rule.actions[list[k]], r) \in S
  <2>1. Work(s, <<>>) \in S
    BY NoneAdded DEF Loaders
  <2>2. ASSUME NEW t \in S, NEW k \in 1 .. n
        PROVE  AddAction(t, list[k], rule.actions[list[k]], r) \in S
    <3>1. k \in DOMAIN rule.actions /\ list[k] = k /\ k \in Nat
      BY <1>1
    <3>2. rule.actions[k] \in Names => <<"Proc", rule.actions[k]>> \in U
      BY <3>1, RuleLists
    <3>. QED BY <3>1, <3>2, ActionAdded
  <2>. QED BY <2>1, <2>2
<1>. HIDE DEF S
<1>3. step \in [S \X (1 .. n) -> S] /\ \A t \in S, k \in 1 .. n : step[<<t, k>>] = AddAction(t, list[k], rule.actions[list[k]], r)
  BY <1>2
<1>4. Stepping(n, S, Work(s, <<>>), step)
  BY <1>1, <1>2, <1>3 DEF Stepping
<1>. HIDE DEF step
<1>5. \E h : Rec(h)
  <2>1. PICK g \in [SUBSET (1 .. n) -> S] : Folding(n, S, Work(s, <<>>), step, g)
    BY <1>4, FoldExists
  <2>2. ASSUME NEW T \in SUBSET (1 .. n), T # {}
        PROVE  g[T] = AddAction(g[T \ {Max(T)}], list[Max(T)], rule.actions[list[Max(T)]], r)
    <3>1. Max(T) \in 1 .. n
      BY <1>1, <2>2, MaxUpto
    <3>2. T \ {Max(T)} \in SUBSET (1 .. n)
      OBVIOUS
    <3>. QED BY <1>3, <2>1, <2>2, <3>1, <3>2 DEF Folding
  <2>3. Rec(g)
    BY <1>1, <2>1, <2>2 DEF Folding
  <2>. QED BY <2>3
<1>6. Rec(F)
  <2>. HIDE DEF Rec
  <2>. QED BY <1>5
<1>7. AddActions(s, rule, r) = F[DOMAIN list]
  BY DEF AddActions, Work, FoldLeft, MapThenFoldSet
<1>8. Folding(n, S, Work(s, <<>>), step, F)
  <2>1. F[{}] = Work(s, <<>>) /\ \A T \in SUBSET (1 .. n) :
            T # {} => F[T] = AddAction(F[T \ {Max(T)}], list[Max(T)], rule.actions[list[Max(T)]], r)
    <3>. HIDE DEF F
    <3>. QED BY <1>1, <1>6
  <2>. HIDE DEF F
  <2>2. \A T \in SUBSET (1 .. n) : T # {} /\ F[T \ {Max(T)}] \in S =>
            F[T] = step[<<F[T \ {Max(T)}], Max(T)>>]
    BY <1>1, <1>3, <2>1, MaxUpto
  <2>. QED BY <2>1, <2>2 DEF Folding
<1>. HIDE DEF F, Rec
<1>9. PICK st : Chain(n, S, Work(s, <<>>), step, F, st)
  BY <1>4, <1>8, FoldChain
<1>. HIDE DEF list, n
<1> DEFINE a == rule.actions
           Fits(k) == \/ st[k].s.error
                      \/ /\ st[k].s.pt = s.pt \cup TimersOf(r, st[k].list)
                         /\ \/ Len(st[k].list) = k
                            \/ \E j \in 1 .. k : a[j] \in Names /\ Kind[a[j]] = "export"
           N == {k \in Nat : k <= n => Fits(k)}
<1>10. /\ \A k \in 0 .. n : st[k] \in Added(s, "Proc", U)
       /\ st[0] = Work(s, <<>>) /\ AddActions(s, rule, r) = st[n]
  BY <1>1, <1>7, <1>9 DEF Chain, S
<1>11. Fits(0)
  <2>1. st[0].s = s /\ st[0].list = <<>>
    BY <1>10 DEF Work
  <2>2. TimersOf(r, <<>>) = {}
    BY DEF TimersOf, Stand
  <2>. QED BY <2>1, <2>2
<1>12. ASSUME NEW k \in Nat, k + 1 <= n, Fits(k) PROVE Fits(k + 1)
  <2> DEFINE w == st[k]
             v == st[k + 1]
             x == a[k + 1]
  <2>1. /\ k \in 0 .. n /\ k + 1 \in 1 .. n /\ (k + 1) - 1 = k
        /\ k + 1 \in DOMAIN a /\ 1 .. n = DOMAIN a /\ list[k + 1] = k + 1
    BY <1>1, <1>12 DEF list
  <2>2. w \in Added(s, "Proc", U)
    BY <1>10, <2>1
  <2>3. v = AddAction(w, k + 1, x, r)
    <3>1. st[k + 1] = step[<<st[k], k + 1>>] /\ st[k] \in S
      BY <1>9, <2>1 DEF Chain
    <3>. QED BY <1>3, <2>1, <3>1
  <2>4. x \in Names => <<"Proc", x>> \in U
    BY <2>1, RuleLists
  <2>5. k + 1 \in Nat
    OBVIOUS
  <2>. HIDE DEF w, v, x, Fits
  <2>6. Acts(w, v, k + 1, x, r)
    BY <2>2, <2>3, <2>4, <2>5, ActionAdded
  <2>7. CASE v.s.error
    BY <2>7 DEF Fits, v
  <2>8. CASE ~w.s.error /\ x \in Names /\ Kind[x] = "export" /\ v.list = w.list /\ v.s.pt = w.s.pt
    <3>1. v.s.pt = s.pt \cup TimersOf(r, v.list)
      BY <1>12, <2>8 DEF Fits, w
    <3>2. k + 1 \in 1 .. k + 1
      OBVIOUS
    <3>. QED BY <2>8, <3>1, <3>2 DEF Fits, v, x
  <2>9. CASE /\ ~w.s.error /\ x \in Names /\ v.list = Append(w.list, x)
             /\ v.s.pt = IF x \in WithTimers THEN w.s.pt \cup {<<r, k + 1>>} ELSE w.s.pt
    <3> DEFINE old == w.list
               new == Append(old, x)
    <3>1. old \in Seq(Names)
      BY <2>2 DEF Added, Works
    <3>2. w.s.pt = s.pt \cup TimersOf(r, old)
      BY <1>12, <2>9 DEF Fits, w
    <3>3. \/ Len(old) = k
          \/ \E j \in 1 .. k : a[j] \in Names /\ Kind[a[j]] = "export"
      BY <1>12, <2>9 DEF Fits, w
    <3>. HIDE DEF old
    <3>4. /\ Len(old) \in Nat /\ DOMAIN old = 1 .. Len(old) /\ DOMAIN new = 1 .. Len(old) + 1
          /\ Len(new) = Len(old) + 1
          /\ new[Len(old) + 1] = x /\ \A j \in 1 .. Len(old) : new[j] = old[j]
      BY <2>9, <3>1
    <3>. HIDE DEF new
    <3>5. x \in WithTimers => Len(old) = k
      <4>1. ASSUME x \in WithTimers, NEW j \in 1 .. k, a[j] \in Names, Kind[a[j]] = "export" PROVE FALSE
        <5>1. j \in DOMAIN a /\ j < k + 1
          <6>. HIDE DEF a
          <6>. QED BY <1>1, <1>12, <2>1
        <5>. QED BY <2>1, <4>1, <5>1 DEF OtherAction, x
      <4>. QED BY <3>3, <4>1
    <3>6. TimersOf(r, new) = IF x \in WithTimers THEN TimersOf(r, old) \cup {<<r, Len(old) + 1>>}
                             ELSE TimersOf(r, old)
      <4> DEFINE A == {j \in DOMAIN old : old[j] \in WithTimers}
                 B == {j \in DOMAIN new : new[j] \in WithTimers}
      <4>1. \A j : j \in 1 .. Len(old) + 1 <=> j \in 1 .. Len(old) \/ j = Len(old) + 1
        BY <3>4
      <4>2. B = IF x \in WithTimers THEN A \cup {Len(old) + 1} ELSE A
        BY <3>4, <4>1
      <4>. HIDE DEF A, B
      <4>3. {<<r, i>> : i \in B} = IF x \in WithTimers THEN {<<r, i>> : i \in A} \cup {<<r, Len(old) + 1>>}
                                  ELSE {<<r, i>> : i \in A}
        BY <4>2
      <4>. QED BY <4>3 DEF TimersOf, Stand, A, B
    <3>7. v.list = new
      BY <2>9 DEF new, old
    <3>8. v.s.pt = s.pt \cup TimersOf(r, v.list)
      BY <2>9, <3>2, <3>5, <3>6, <3>7
    <3>9. \/ Len(v.list) = k + 1
          \/ \E j \in 1 .. k + 1 : a[j] \in Names /\ Kind[a[j]] = "export"
      <4>1. CASE Len(old) = k
        BY <3>4, <3>7, <4>1
      <4>2. CASE \E j \in 1 .. k : a[j] \in Names /\ Kind[a[j]] = "export"
        <5>1. \A j \in 1 .. k : j \in 1 .. k + 1
          OBVIOUS
        <5>. HIDE DEF a
        <5>. QED BY <4>2, <5>1
      <4>. QED BY <3>3, <4>1, <4>2
    <3>. QED BY <3>8, <3>9 DEF Fits, v
  <2>. QED BY <2>6, <2>7, <2>8, <2>9 DEF Acts
<1>13. 0 \in N /\ N \in SUBSET Nat /\ \A k \in N : k + 1 \in N
  <2>1. ASSUME NEW k \in N PROVE k + 1 \in N
    <3>1. k \in Nat /\ (k <= n => Fits(k))
      <4>. HIDE DEF Fits
      <4>. QED OBVIOUS
    <3>. HIDE DEF Fits
    <3>2. k + 1 <= n => k <= n
      BY <1>1, <3>1
    <3>. QED BY <1>12, <3>1, <3>2
  <2>. HIDE DEF Fits
  <2>. QED BY <1>11, <2>1
<1>14. Fits(n)
  <2>. HIDE DEF Fits
  <2>1. Nat \subseteq N
    <3>. HIDE DEF N
    <3>. QED BY <1>13, SetInduction
  <2>. QED BY <1>1, <2>1
<1>15. AddActions(s, rule, r) \in Added(s, "Proc", U)
  BY <1>1, <1>10
<1>16. ~st[n].s.error => st[n].s.pt = s.pt \cup TimersOf(r, st[n].list)
  BY <1>14
<1>. QED BY <1>10, <1>15, <1>16

\* When a rule is not added after all, its modules are let go.
LEMMA Undone ==
  ASSUME NEW U, Apart(U), NEW s, Loaded(s, U), NEW l \in Loaders, NEW w \in Added(s, l, U),
         \A n \in Names : Held(s, l, n) >= 0
  PROVE  LET v == UndoneOnError(w, l)
         IN  /\ Loaded(v.s, U) /\ v.list \in Seq(Names)
             /\ \A m \in Loaders, n \in Names :
                    Held(v.s, m, n) = Held(s, m, n) + IF m = l THEN Count(v.list, n) ELSE 0
             /\ v.s.error \in BOOLEAN /\ v.s.error = w.s.error /\ (~w.s.error => v = w)
             /\ w.s.error => v.list = <<>>
<1> DEFINE v == UndoneOnError(w, l)
<1>1. /\ w.s \in States /\ Loaded(w.s, U) /\ w.list \in Seq(Names) /\ w.s.error \in BOOLEAN
      /\ \A m \in Loaders, n \in Names :
             Held(w.s, m, n) = Held(s, m, n) + IF m = l THEN Count(w.list, n) ELSE 0
  <2>1. /\ w.s \in States /\ Loaded(w.s, U) /\ w.list \in Seq(Names)
        /\ \A m \in Loaders, n \in Names :
               Held(w.s, m, n) = Held(s, m, n) + IF m = l THEN Count(w.list, n) ELSE 0
    BY DEF Added, Works
  <2>. QED BY <2>1 DEF States
<1>2. CASE ~w.s.error
  <2>1. v = w
    BY <1>2 DEF UndoneOnError
  <2>. QED BY <1>1, <1>2, <2>1
<1>3. CASE w.s.error
  <2> DEFINE list == w.list
             old == w.s
             t == Released(old, l, list)
  <2>1. v = [s |-> t, list |-> <<>>]
    BY <1>3 DEF UndoneOnError
  <2>2. \A m \in Loaders, n \in Names :
           /\ s.refs[m][n] \in Int /\ s.kept[m][n] \in Int /\ Count(list, n) \in Nat
           /\ old.refs[m][n] \in Int /\ old.kept[m][n] \in Int /\ old.kept[m][n] >= 0
    <3>1. /\ s.refs \in [Loaders -> [Names -> Int]] /\ s.kept \in [Loaders -> [Names -> Int]]
          /\ old.refs \in [Loaders -> [Names -> Int]] /\ old.kept \in [Loaders -> [Names -> Int]]
      BY <1>1 DEF Loaded, States
    <3>2. \A n \in Names : Count(list, n) \in Nat
      BY <1>1, CountAppend
    <3>3. \A m \in Loaders, n \in Names : old.kept[m][n] >= 0
      BY <1>1 DEF Loaded
    <3>. QED BY <3>1, <3>2, <3>3
  <2>. HIDE DEF list, old
  <2>3. \A m \in Loaders, n \in Names :
           Held(old, m, n) = Held(s, m, n) + IF m = l THEN Count(list, n) ELSE 0
    BY <1>1 DEF list, old
  <2>4. \A n \in Names : old.refs[l][n] >= Count(list, n)
    <3>. TAKE n \in Names
    <3>1. Held(old, l, n) = Held(s, l, n) + Count(list, n) /\ Held(s, l, n) >= 0
      BY <2>3
    <3>. QED BY <2>2, <3>1 DEF Held
  <2>5. Loaded(old, U) /\ list \in Seq(Names)
    BY <1>1 DEF old, list
  <2>6. /\ Loaded(t, U) /\ Rest(t) = Rest(old)
        /\ \A m \in Loaders, n \in Names :
               t.refs[m][n] = old.refs[m][n] - IF m = l THEN Count(list, n) ELSE 0
    BY <2>4, <2>5, ReleasedIs
  <2>. HIDE DEF t
  <2>7. t.kept = old.kept /\ t.error = old.error
    BY <2>6 DEF Rest
  <2>8. \A m \in Loaders, n \in Names : Held(t, m, n) = Held(s, m, n)
    <3>. TAKE m \in Loaders, n \in Names
    <3>1. /\ Held(old, m, n) = Held(s, m, n) + IF m = l THEN Count(list, n) ELSE 0
          /\ t.refs[m][n] = old.refs[m][n] - IF m = l THEN Count(list, n) ELSE 0
      BY <2>3, <2>6
    <3>. QED BY <2>2, <2>7, <3>1 DEF Held
  <2>9. v.s = t /\ v.list = <<>>
    BY <2>1
  <2>10. \A m \in Loaders, n \in Names :
            Held(v.s, m, n) = Held(s, m, n) + IF m = l THEN Count(v.list, n) ELSE 0
    <3>. TAKE m \in Loaders, n \in Names
    <3>1. Count(<<>>, n) = 0 /\ Held(s, m, n) \in Int
      BY <2>2, CountEmpty DEF Held
    <3>. HIDE DEF v
    <3>. QED BY <2>8, <2>9, <3>1
  <2>11. v.s.error = w.s.error
    BY <2>7, <2>9 DEF old
  <2>. HIDE DEF v
  <2>. QED BY <1>1, <1>3, <2>6, <2>9, <2>10, <2>11 DEF v
<1>. QED BY <1>2, <1>3

-----------------------------------------------------------------------------
(* Where modules stand *)

PlacesIn(lists, N) ==
    UNION {{<<r, i>> : i \in {j \in DOMAIN lists[r] : lists[r][j] \in N}} : r \in RuleIds}

\* The places of the other rules
Others(places, r) == {t \in places : t[1] # r}

\* A rule that has no modules gets those of a list.
LEMMA PlacesAdded ==
  ASSUME NEW lists \in [RuleIds -> Seq(Names)], NEW r \in RuleIds, lists[r] = <<>>,
         NEW list \in Seq(Names), NEW N
  PROVE  /\ PlacesIn([lists EXCEPT ![r] = list], N) = PlacesIn(lists, N) \cup Stand(r, list, N)
         /\ PlacesIn(lists, N) \cap Stand(r, list, N) = {}
<1> DEFINE more == [lists EXCEPT ![r] = list]
<1>1. \A t, f : t \in PlacesIn(f, N) <=>
                  \E q \in RuleIds : \E i \in DOMAIN f[q] : f[q][i] \in N /\ t = <<q, i>>
  BY DEF PlacesIn
<1>2. \A t : t \in Stand(r, list, N) <=> \E i \in DOMAIN list : list[i] \in N /\ t = <<r, i>>
  BY DEF Stand
<1>3. more[r] = list /\ \A q \in RuleIds : q # r => more[q] = lists[q]
  OBVIOUS
<1>. HIDE DEF more
<1>4. DOMAIN lists[r] = {}
  OBVIOUS
<1>5. ASSUME NEW t PROVE t \in PlacesIn(lists, N) => t[1] # r /\ t \in PlacesIn(more, N)
  <2>. SUFFICES ASSUME t \in PlacesIn(lists, N) PROVE t[1] # r /\ t \in PlacesIn(more, N)
    OBVIOUS
  <2>0. PICK q \in RuleIds : \E i \in DOMAIN lists[q] : lists[q][i] \in N /\ t = <<q, i>>
    BY <1>1
  <2>1. PICK i \in DOMAIN lists[q] : lists[q][i] \in N /\ t = <<q, i>>
    BY <2>0
  <2>2. q # r
    BY <1>4, <2>1
  <2>. QED BY <1>1, <1>3, <2>1, <2>2
<1>6. ASSUME NEW t PROVE t \in Stand(r, list, N) => t[1] = r /\ t \in PlacesIn(more, N)
  BY <1>1, <1>2, <1>3
<1>7. ASSUME NEW t PROVE t \in PlacesIn(more, N) => t \in PlacesIn(lists, N) \/ t \in Stand(r, list, N)
  <2>. SUFFICES ASSUME t \in PlacesIn(more, N)
                PROVE  t \in PlacesIn(lists, N) \/ t \in Stand(r, list, N)
    OBVIOUS
  <2>0. PICK q \in RuleIds : \E i \in DOMAIN more[q] : more[q][i] \in N /\ t = <<q, i>>
    BY <1>1
  <2>1. PICK i \in DOMAIN more[q] : more[q][i] \in N /\ t = <<q, i>>
    BY <2>0
  <2>2. CASE q = r
    BY <1>2, <1>3, <2>1, <2>2
  <2>3. CASE q # r
    BY <1>1, <1>3, <2>1, <2>3
  <2>. QED BY <2>2, <2>3
<1>. QED BY <1>5, <1>6, <1>7 DEF more, Others

\* A rule loses its modules.
LEMMA PlacesRemoved ==
  ASSUME NEW lists \in [RuleIds -> Seq(Names)], NEW r \in RuleIds, NEW N
  PROVE  PlacesIn([lists EXCEPT ![r] = <<>>], N) = Others(PlacesIn(lists, N), r)
<1> DEFINE less == [lists EXCEPT ![r] = <<>>]
<1>1. \A t, f : t \in PlacesIn(f, N) <=>
                  \E q \in RuleIds : \E i \in DOMAIN f[q] : f[q][i] \in N /\ t = <<q, i>>
  BY DEF PlacesIn
<1>2. less[r] = <<>> /\ \A q \in RuleIds : q # r => less[q] = lists[q]
  OBVIOUS
<1>3. DOMAIN less[r] = {}
  BY <1>2
<1>. HIDE DEF less
<1>4. ASSUME NEW t PROVE t \in PlacesIn(less, N) => t[1] # r /\ t \in PlacesIn(lists, N)
  <2>. SUFFICES ASSUME t \in PlacesIn(less, N) PROVE t[1] # r /\ t \in PlacesIn(lists, N)
    OBVIOUS
  <2>0. PICK q \in RuleIds : \E i \in DOMAIN less[q] : less[q][i] \in N /\ t = <<q, i>>
    BY <1>1
  <2>1. PICK i \in DOMAIN less[q] : less[q][i] \in N /\ t = <<q, i>>
    BY <2>0
  <2>2. q # r
    BY <1>3, <2>1
  <2>. QED BY <1>1, <1>2, <2>1, <2>2
<1>5. ASSUME NEW t PROVE t \in PlacesIn(lists, N) /\ t[1] # r => t \in PlacesIn(less, N)
  <2>. SUFFICES ASSUME t \in PlacesIn(lists, N), t[1] # r PROVE t \in PlacesIn(less, N)
    OBVIOUS
  <2>0. PICK q \in RuleIds : \E i \in DOMAIN lists[q] : lists[q][i] \in N /\ t = <<q, i>>
    BY <1>1
  <2>1. PICK i \in DOMAIN lists[q] : lists[q][i] \in N /\ t = <<q, i>>
    BY <2>0
  <2>. QED BY <1>1, <1>2, <2>1
<1>. QED BY <1>4, <1>5 DEF less, Others

LEMMA StandCount ==
  ASSUME NEW r, NEW list \in Seq(Names), NEW n
  PROVE  IsFiniteSet(Stand(r, list, {n})) /\ Cardinality(Stand(r, list, {n})) = Count(list, n)
<1> DEFINE S == {i \in 1 .. Len(list) : list[i] = n}
           T == Stand(r, list, {n})
           f == [i \in S |-> <<r, i>>]
<1>1. Len(list) \in Nat /\ DOMAIN list = 1 .. Len(list)
  OBVIOUS
<1>2. T = {<<r, i>> : i \in S}
  BY <1>1 DEF Stand
<1>3. IsFiniteSet(S)
  BY <1>1, CountFinite
<1>. HIDE DEF S, T
<1>4. f \in [S -> T]
  BY <1>2
<1>5. (\A i, j \in S : f[i] = f[j] => i = j) /\ \A t \in T : \E i \in S : f[i] = t
  BY <1>2
<1>6. ExistsBijection(S, T)
  BY <1>4, <1>5, Zenon DEF ExistsBijection, Bijection, Injection, IsInjective, Surjection
<1>7. IsFiniteSet(T) /\ Cardinality(T) = Cardinality(S)
  BY <1>3, <1>6, FS_Bijection
<1>. QED BY <1>7 DEF Count, CountTo, S, T

LEMMA UsesAdded ==
  ASSUME NEW lists \in [RuleIds -> Seq(Names)], NEW r \in RuleIds, lists[r] = <<>>,
         NEW list \in Seq(Names), NEW n,
         \/ IsFiniteSet(PlacesIn(lists, {n}))
         \/ IsFiniteSet(PlacesIn([lists EXCEPT ![r] = list], {n}))
  PROVE  /\ IsFiniteSet(PlacesIn(lists, {n})) /\ IsFiniteSet(PlacesIn([lists EXCEPT ![r] = list], {n}))
         /\ Cardinality(PlacesIn(lists, {n})) \in Nat /\ Count(list, n) \in Nat
         /\ Cardinality(PlacesIn([lists EXCEPT ![r] = list], {n})) =
                Cardinality(PlacesIn(lists, {n})) + Count(list, n)
<1> DEFINE A == PlacesIn(lists, {n})
           B == Stand(r, list, {n})
           C == PlacesIn([lists EXCEPT ![r] = list], {n})
<1>1. C = A \cup B /\ A \cap B = {}
  BY PlacesAdded
<1>2. IsFiniteSet(B) /\ Cardinality(B) = Count(list, n)
  BY StandCount
<1>. HIDE DEF A, B, C
<1>3. IsFiniteSet(A)
  <2>1. CASE IsFiniteSet(C)
    <3>1. A \in SUBSET C
      BY <1>1
    <3>. QED BY <2>1, <3>1, FS_Subset
  <2>2. CASE IsFiniteSet(A)
    BY <2>2
  <2>. QED BY <2>1, <2>2 DEF A, C
<1>4. IsFiniteSet(C) /\ Cardinality(C) = Cardinality(A) + Cardinality(B) - Cardinality({})
  BY <1>1, <1>2, <1>3, FS_Union
<1>5. Cardinality(A) \in Nat /\ Cardinality(B) \in Nat /\ Cardinality({}) = 0
  BY <1>2, <1>3, FS_CardinalityType, FS_EmptySet
<1>6. Cardinality(C) = Cardinality(A) + Count(list, n) /\ Count(list, n) \in Nat
  BY <1>2, <1>4, <1>5
<1>. QED BY <1>3, <1>4, <1>5, <1>6 DEF A, C

-----------------------------------------------------------------------------
(* The inductive invariant *)

\* A handler's last state becomes that of the libraries.
LEMMA Becoming ==
  ASSUME NEW U, NEW s, Loaded(s, U), Becomes(s)
  PROVE  /\ Loaded(Now', Loads') /\ Loads' \subseteq U
         /\ \A l \in Loaders, n \in Names : Held(Now', l, n) = Held(s, l, n)
         /\ TimersFit(s) => TimersFit(Now')
         /\ Now'.pt = s.pt /\ Now'.active = s.active /\ Now'.refs = s.refs
<1> DEFINE t == Now'
<1>1. t = State(s.refs, s.ready, s.active, s.et, s.pt, s.kept, FALSE)
  BY DEF Becomes, Now, State
<1>2. refs' = s.refs
  BY DEF Becomes
<1>. HIDE DEF t
<1>3. /\ t.refs = s.refs /\ t.ready = s.ready /\ t.active = s.active /\ t.et = s.et
      /\ t.pt = s.pt /\ t.kept = s.kept
  BY <1>1 DEF State
<1>4. t \in States
  BY <1>1 DEF Loaded, State, States
<1>5. Loads' = {x \in Used : s.refs[x[1]][x[2]] > 0}
  BY <1>2 DEF Loads, Used
<1>6. Loads' \subseteq U
  <2>1. ASSUME NEW x \in Used, s.refs[x[1]][x[2]] > 0 PROVE x \in U
    <3>1. x = <<x[1], x[2]>> /\ x[1] \in Loaders /\ x[2] \in Names
      BY DEF Used
    <3>. QED BY <2>1, <3>1 DEF Loaded
  <2>. QED BY <1>5, <2>1
<1>7. Loaded(t, Loads')
  <2>1. ASSUME NEW l \in Loaders, NEW n \in Names
        PROVE  /\ t.refs[l][n] >= 0 /\ t.kept[l][n] >= 0
               /\ t.refs[l][n] > 0 => <<l, n>> \in Loads' /\ File[n] \in t.ready /\ Kind[n] # "none"
    <3>1. s.refs[l][n] > 0 => <<l, n>> \in Loads'
      <4>1. <<l, n>> \in Used /\ <<l, n>>[1] = l /\ <<l, n>>[2] = n
        BY DEF Used
      <4>. QED BY <1>5, <4>1
    <3>. QED BY <1>3, <3>1 DEF Loaded
  <2>. QED BY <1>4, <2>1 DEF Loaded
<1>8. TimersFit(s) => TimersFit(t)
  BY <1>3 DEF TimersFit
<1>. QED BY <1>3, <1>6, <1>7, <1>8 DEF Held, t

\* The modules that are loaded and those of a rule, if its libraries are its own
LEMMA RuleUsed ==
  ASSUME Loaded(Now, Loads), NEW rule, ~Excluded(rule), Exposed = {}, RuleTyped(rule)
  PROVE  ~OtherAction(rule) /\ \E U : Apart(U) /\ Loaded(Now, U) /\ RuleIn(rule, U)
<1> DEFINE U == {x \in Loaders \X Names : refs[x[1]][x[2]] > 0 \/ x[2] \in Named(rule, x[1])}
           e == rule.exports
           a == rule.actions
           V == Names \cup {"bad parameters"}
<1>1. ~OtherAction(rule) /\ ~TwoNames(rule)
  BY DEF Excluded
<1>2. Apart(U)
  BY <1>1 DEF TwoNames, Apart
<1>3. Loads \subseteq U
  BY DEF Loads, Used
<1>4. \A l \in Loaders, n \in Names : n \in Named(rule, l) => <<l, n>> \in U
  <2>. TAKE l \in Loaders, n \in Names
  <2>1. <<l, n>> \in Loaders \X Names /\ <<l, n>>[1] = l /\ <<l, n>>[2] = n
    OBVIOUS
  <2>. QED BY <2>1
<1>. HIDE DEF U
<1>5. Loaded(Now, U)
  BY <1>3 DEF Loaded
<1>6. e \in Seq(Names) /\ a \in Seq(V)
  BY DEF RuleTyped
<1>7. Named(rule, "Export") = ToSet(e) /\ Named(rule, "Proc") = ToSet(a)
  BY DEF Named
<1>. HIDE DEF e, a, V
<1>8. ASSUME NEW k \in DOMAIN e PROVE <<"Export", e[k]>> \in U
  <2>1. e[k] \in ToSet(e) /\ "Export" \in Loaders
    BY DEF ToSet, Loaders
  <2>2. e[k] \in Names
    BY <1>6
  <2>. QED BY <1>4, <1>7, <2>1, <2>2
<1>9. ASSUME NEW k \in DOMAIN a, a[k] \in Names PROVE <<"Proc", a[k]>> \in U
  <2>1. a[k] \in ToSet(a) /\ "Proc" \in Loaders
    BY DEF ToSet, Loaders
  <2>. QED BY <1>4, <1>7, <1>9, <2>1
<1>10. RuleIn(rule, U)
  BY <1>8, <1>9 DEF RuleIn, e, a
<1>. QED BY <1>1, <1>2, <1>5, <1>10

LEMMA PlacesAre ==
  ASSUME NEW l, NEW N
  PROVE  Places(l, N) = PlacesIn(IF l = "Proc" THEN actions ELSE mods, N)
BY DEF Places, PlacesIn

\* Nothing is loaded but what the configuration names.
LEMMA InitInv ==
  ASSUME Init
  PROVE  UseInv
<1>1. PICK p \in PreloadLists : preloaded = [l \in Loaders |-> Preloaded(p[l])]
  BY DEF Init
<1>2. \A l \in Loaders : preloaded[l] \in SUBSET Names /\ \A n \in preloaded[l] : Kind[n] # "none"
  <2>1. ASSUME NEW l \in Loaders
        PROVE  preloaded[l] \in SUBSET Names /\ \A n \in preloaded[l] : Kind[n] # "none"
    <3>1. p[l] \in Seq(Names) /\ \A n \in ToSet(p[l]) : Kind[n] # "none"
      BY ModuleUseAssumption DEF Loaders
    <3>2. ToSet(p[l]) \subseteq Names
      BY <3>1 DEF ToSet
    <3>. QED BY <1>1, <3>1, <3>2 DEF Preloaded
  <2>. QED BY <2>1
<1>3. Types
  <2>1. preloaded \in [Loaders -> SUBSET Names]
    BY <1>1, <1>2
  <2>2. <<>> \in Seq(Names)
    OBVIOUS
  <2>. QED BY <2>1, <2>2 DEF Types, Init
<1>4. /\ refs = [l \in Loaders |-> [n \in Names |-> IF n \in preloaded[l] THEN 1 ELSE 0]]
      /\ unreleased = [l \in Loaders |-> [n \in Names |-> 0]]
      /\ ready = {File[n] : n \in preloaded["Proc"] \cup preloaded["Export"]}
      /\ timersActive = {} /\ exportTimers = [n \in Names |-> 0] /\ procTimers = {}
      /\ known = [r \in RuleIds |-> NoRule]
      /\ actions = [r \in RuleIds |-> <<>>] /\ mods = [r \in RuleIds |-> <<>>]
  BY DEF Init
<1>5. Now = State(refs, ready, timersActive, exportTimers, procTimers, unreleased, FALSE)
  BY DEF Now, State
<1>6. /\ Now.refs = refs /\ Now.ready = ready /\ Now.active = timersActive /\ Now.et = exportTimers
      /\ Now.pt = procTimers /\ Now.kept = unreleased
  BY <1>5 DEF State
<1>7. Now \in States
  <2>1. refs \in [Loaders -> [Names -> Int]] /\ unreleased \in [Loaders -> [Names -> Int]]
        /\ exportTimers \in [Names -> Int]
    BY <1>4
  <2>2. ready \in SUBSET {File[n] : n \in Names}
    BY <1>2, <1>4 DEF Loaders
  <2>. QED BY <1>4, <1>5, <2>1, <2>2 DEF State, States
<1>8. Loaded(Now, Loads)
  <2>1. ASSUME NEW l \in Loaders, NEW n \in Names
        PROVE  /\ refs[l][n] >= 0 /\ unreleased[l][n] >= 0
               /\ refs[l][n] > 0 => <<l, n>> \in Loads /\ File[n] \in ready /\ Kind[n] # "none"
    <3>1. refs[l][n] = (IF n \in preloaded[l] THEN 1 ELSE 0) /\ unreleased[l][n] = 0
      BY <1>4
    <3>2. <<l, n>> \in Used /\ <<l, n>>[1] = l /\ <<l, n>>[2] = n
      BY DEF Used
    <3>3. n \in preloaded[l] => File[n] \in ready /\ Kind[n] # "none"
      BY <1>2, <1>4 DEF Loaders
    <3>. QED BY <3>1, <3>2, <3>3 DEF Loads
  <2>. QED BY <1>6, <1>7, <2>1 DEF Loaded
<1>9. \A l, N : Places(l, N) = {}
  <2>1. \A l : \A r \in RuleIds : (IF l = "Proc" THEN actions ELSE mods)[r] = <<>>
    BY <1>4
  <2>2. \A l, N : PlacesIn(IF l = "Proc" THEN actions ELSE mods, N) = {}
    BY <2>1 DEF PlacesIn
  <2>. QED BY <2>2, PlacesAre
<1>10. \A l \in Loaders, n \in Names :
          /\ IsFiniteSet(Places(l, {n}))
          /\ Held(Now, l, n) = Uses(l, n) + IF n \in preloaded[l] THEN 1 ELSE 0
  <2>. TAKE l \in Loaders, n \in Names
  <2>1. IsFiniteSet(Places(l, {n})) /\ Uses(l, n) = 0
    BY <1>9, FS_EmptySet DEF Uses
  <2>2. Held(Now, l, n) = IF n \in preloaded[l] THEN 1 ELSE 0
    BY <1>4, <1>6 DEF Held
  <2>. QED BY <2>1, <2>2
<1>11. TimersFit(Now) /\ RulesFit(Now)
  BY <1>4, <1>6, <1>9 DEF TimersFit, RulesFit
<1>. QED BY <1>3, <1>4, <1>8, <1>10, <1>11 DEF UseInv

LEMMA ShapesTyped ==
  ASSUME NEW rule \in Shapes
  PROVE  RuleTyped(rule)
BY ModuleUseAssumption DEF RuleTyped

LEMMA NowIs ==
  ASSUME Loaded(Now, Loads)
  PROVE  /\ Now.refs = refs /\ Now.active = timersActive /\ Now.pt = procTimers /\ ~Now.error
         /\ \A l \in Loaders, n \in Names : Held(Now, l, n) \in Int
<1>1. Now.refs \in [Loaders -> [Names -> Int]] /\ Now.kept \in [Loaders -> [Names -> Int]]
  BY DEF Loaded, States
<1>2. \A l \in Loaders, n \in Names : Held(Now, l, n) \in Int
  <2>. TAKE l \in Loaders, n \in Names
  <2>1. Now.refs[l][n] \in Int /\ Now.kept[l][n] \in Int
    BY <1>1
  <2>. QED BY <2>1 DEF Held
<1>. QED BY <1>2 DEF Now

\* The rules' modules stay; a module may have been tried.
LEMMA RulesStay ==
  ASSUME UseInv, ~stopped, NEW U, Apart(U), NEW s, Loaded(s, U), TimersFit(s), Same(Now, s),
         Becomes(s), UNCHANGED <<preloaded, actions, mods>>,
         known' \in [RuleIds -> Shapes \cup {NoRule}]
  PROVE  UseInv'
<1>1. Types'
  BY DEF UseInv, Types
<1>2. /\ Loaded(Now', Loads') /\ Loads' \subseteq U /\ TimersFit(Now')
      /\ \A l \in Loaders, n \in Names : Held(Now', l, n) = Held(s, l, n)
      /\ Now'.pt = s.pt /\ Now'.active = s.active
  BY Becoming
<1>3. \A l, N : Places(l, N)' = Places(l, N)
  BY DEF Places
<1>4. ASSUME NEW l \in Loaders, NEW n \in Names
      PROVE  /\ IsFiniteSet(Places(l, {n})')
             /\ Held(Now', l, n) = Cardinality(Places(l, {n})') + IF n \in preloaded'[l] THEN 1 ELSE 0
  <2>1. /\ IsFiniteSet(Places(l, {n}))
        /\ Held(Now, l, n) = Cardinality(Places(l, {n})) + IF n \in preloaded[l] THEN 1 ELSE 0
    BY DEF UseInv, Uses
  <2>2. Held(s, l, n) = Held(Now, l, n)
    BY DEF Same
  <2>. QED BY <1>2, <1>3, <2>1, <2>2
<1>5. Apart(Loads')
  BY <1>2 DEF Apart
<1>6. RulesFit(Now')
  <2>1. RulesFit(Now)
    BY DEF UseInv
  <2>2. Now'.pt = Now.pt /\ Ticking(Now') = Ticking(Now)
    BY <1>2 DEF Same, Ticking
  <2>. QED BY <2>1, <2>2 DEF RulesFit, Ticking
<1>7. RulesFit(Now)'
  <2>1. Now'.pt = Places("Proc", WithTimers) /\ \A n \in WithTimers : Places("Export", {n}) # {} => n \in Now'.active
    BY <1>6 DEF RulesFit
  <2>. QED BY <1>3, <2>1 DEF RulesFit
<1>. QED BY <1>1, <1>2, <1>4, <1>5, <1>7 DEF UseInv, Uses

LEMMA AddRuleInv ==
  ASSUME UseInv, Exposed = {}, NEW r \in RuleIds, NEW rule \in Shapes, AddRule(r, rule)
  PROVE  UseInv'
<1> DEFINE s == CheckRule(Now, rule)
<1>1. /\ ~stopped /\ ~Excluded(rule) /\ Becomes(s) /\ UNCHANGED <<preloaded, actions, mods>>
      /\ known' = IF s.error THEN known ELSE [known EXCEPT ![r] = rule]
  BY DEF AddRule
<1>2. Loaded(Now, Loads) /\ TimersFit(Now)
  BY <1>1 DEF UseInv
<1>3. PICK U : Apart(U) /\ Loaded(Now, U) /\ RuleIn(rule, U)
  BY <1>1, <1>2, RuleUsed, ShapesTyped
<1>4. s \in Checked(Now, U)
  BY <1>2, <1>3, RuleChecked
<1>. HIDE DEF s
<1>5. Loaded(s, U) /\ TimersFit(s) /\ Same(Now, s)
  BY <1>4 DEF Checked
<1>6. known' \in [RuleIds -> Shapes \cup {NoRule}]
  BY <1>1 DEF UseInv, Types
<1>. QED BY <1>1, <1>3, <1>5, <1>6, RulesStay

LEMMA GetModuleInfoInv ==
  ASSUME UseInv, Exposed = {}, NEW n \in Names, GetModuleInfo(n)
  PROVE  UseInv'
<1> DEFINE rule == [actions |-> <<n>>, exports |-> <<>>]
           g == GetModule(Now, "Proc", n)
           s == Unfit(g, "Proc", n)
           w == Work(Now, <<>>)
<1>1. /\ ~stopped /\ ~Excluded(rule) /\ ~g.error /\ Becomes(s)
      /\ UNCHANGED <<preloaded, known, actions, mods>>
  BY DEF GetModuleInfo
<1>2. Loaded(Now, Loads) /\ TimersFit(Now)
  BY <1>1 DEF UseInv
<1>3. RuleTyped(rule)
  <2> DEFINE V == Names \cup {"bad parameters"}
  <2>1. n \in V
    OBVIOUS
  <2>2. <<n>> \in Seq(V) /\ <<>> \in Seq(Names)
    <3>. HIDE DEF V
    <3>. QED BY <2>1
  <2>3. rule.actions = <<n>> /\ rule.exports = <<>>
    OBVIOUS
  <2>. HIDE DEF rule
  <2>. QED BY <2>2, <2>3 DEF RuleTyped
<1>4. PICK U : Apart(U) /\ Loaded(Now, U) /\ RuleIn(rule, U)
  <2>. HIDE DEF rule
  <2>. QED BY <1>1, <1>2, <1>3, RuleUsed
<1>5. <<"Proc", n>> \in U
  <2>1. rule.actions = <<n>> /\ 1 \in DOMAIN <<n>> /\ <<n>>[1] = n
    OBVIOUS
  <2>. HIDE DEF rule
  <2>. QED BY <1>4, <2>1 DEF RuleIn
<1>6. w \in Added(Now, "Proc", U) /\ "Proc" \in Loaders
  BY <1>2, <1>4, NoneAdded DEF Loaders
<1>7. w.s = Now /\ w.list = <<>>
  BY DEF Work
<1>. HIDE DEF w
<1>8. /\ g \in States /\ Loaded(g, U) /\ TimersFit(g) /\ Ticking(g) = Ticking(w.s) /\ g.pt = w.s.pt
      /\ \A m \in Loaders, x \in Names :
             Held(g, m, x) = Held(w.s, m, x) + IF m = "Proc" /\ x = n THEN 1 ELSE 0
  BY <1>1, <1>4, <1>5, <1>6, <1>7, GotForRule
<1>. HIDE DEF g
<1>9. Work(s, <<>>) \in Added(Now, "Proc", U) /\ s.pt = Now.pt
  <2>1. Work(s, w.list) \in Added(Now, "Proc", U) /\ s.pt = w.s.pt
    <3>1. s = Unfit(g, "Proc", n)
      BY DEF g
    <3> DEFINE v == [w EXCEPT !.s = Unfit(g, "Proc", n)]
    <3>2. v = [w EXCEPT !.s = Unfit(g, "Proc", n)]
      OBVIOUS
    <3>. HIDE DEF s, rule, v
    <3>. QED BY <1>6, <1>8, <3>1, <3>2, UnfitAdds
  <2>. HIDE DEF s
  <2>. QED BY <1>7, <2>1
<1>. HIDE DEF s
<1>10. /\ Loaded(s, U) /\ TimersFit(s) /\ Ticking(s) = Ticking(Now)
       /\ \A m \in Loaders, x \in Names :
              Held(s, m, x) = Held(Now, m, x) + IF m = "Proc" THEN Count(<<>>, x) ELSE 0
  <2>1. Work(s, <<>>).s = s /\ Work(s, <<>>).list = <<>>
    BY DEF Work
  <2>. QED BY <1>9, <2>1 DEF Added
<1>11. Same(Now, s)
  BY <1>2, <1>9, <1>10, CountEmpty, NowIs DEF Same
<1>12. known' \in [RuleIds -> Shapes \cup {NoRule}]
  BY <1>1 DEF UseInv, Types
<1>. QED BY <1>1, <1>4, <1>10, <1>11, <1>12, RulesStay

LEMMA UnchangedInv ==
  ASSUME UseInv, UNCHANGED <<preloaded, loaders, known, actions, mods, stopped>>
  PROVE  UseInv'
<1>1. Now' = Now /\ Loads' = Loads /\ Types' = Types
  BY DEF Now, Loads, Used, Types, loaders
<1>2. \A l, N : Places(l, N)' = Places(l, N)
  BY DEF Places
<1>3. RulesFit(Now)' = RulesFit(Now)
  BY <1>1, <1>2 DEF RulesFit
<1>4. \A l \in Loaders, n \in Names :
         /\ IsFiniteSet(Places(l, {n})')
         /\ Held(Now', l, n) = Cardinality(Places(l, {n})') + IF n \in preloaded'[l] THEN 1 ELSE 0
  BY <1>1, <1>2 DEF UseInv, Uses
<1>5. /\ Loaded(Now', Loads') /\ (~stopped => TimersFit(Now') /\ RulesFit(Now)')
      /\ Apart(Loads') \/ \A r \in RuleIds : known[r] = NoRule
  BY <1>1, <1>3 DEF UseInv
<1>6. Types'
  BY <1>1 DEF UseInv
<1>. QED BY <1>4, <1>5, <1>6 DEF UseInv, Uses

\* What the two parts make of a rule that is added, r's timers included; after
\* an Error, only its references matter.
LEMMA RuleAdded ==
  ASSUME NEW U, Apart(U), NEW s, Loaded(s, U), TimersFit(s), ~s.error, NEW rule, RuleIn(rule, U),
         ~OtherAction(rule), NEW r \in RuleIds,
         \A l \in Loaders, n \in Names : Held(s, l, n) \in Int /\ Held(s, l, n) >= 0
  PROVE  LET x == ExporterAddRule(s, rule)
             p == ProcessorAddRule(x.s, rule, r)
         IN  /\ Loaded(p.s, U) /\ x.list \in Seq(Names) /\ p.list \in Seq(Names)
             /\ \A n \in Names : /\ Held(p.s, "Proc", n) = Held(s, "Proc", n) + Count(p.list, n)
                                /\ Held(p.s, "Export", n) = Held(s, "Export", n) + Count(x.list, n)
             /\ ~p.s.error =>
                   /\ TimersFit(p.s) /\ p.s.pt = s.pt \cup TimersOf(r, p.list)
                   /\ Ticking(s) \subseteq Ticking(p.s)
                   /\ \A k \in DOMAIN x.list : x.list[k] \in WithTimers => x.list[k] \in p.s.active
<1> DEFINE X == AddExports(s, rule)
           x == ExporterAddRule(s, rule)
           P == AddActions(x.s, rule, r)
           p == ProcessorAddRule(x.s, rule, r)
<1>0. "Proc" \in Loaders /\ "Export" \in Loaders /\ "Proc" # "Export"
  BY DEF Loaders
<1>1. X \in Added(s, "Export", U) /\ x = UndoneOnError(X, "Export")
  BY ExportsAdded DEF ExporterAddRule
<1>. HIDE DEF X
<1>2. /\ Loaded(x.s, U) /\ x.list \in Seq(Names) /\ x.s.error = X.s.error
      /\ \A m \in Loaders, n \in Names :
             Held(x.s, m, n) = Held(s, m, n) + IF m = "Export" THEN Count(x.list, n) ELSE 0
      /\ ~X.s.error => x = X
  <2>. HIDE DEF x
  <2>. QED BY <1>0, <1>1, Undone
<1>. HIDE DEF x
<1>3. \A n \in Names : Count(x.list, n) \in Nat
  BY <1>2, CountAppend
<1>4. \A m \in Loaders, n \in Names : Held(x.s, m, n) \in Int /\ Held(x.s, m, n) >= 0
  <2>. TAKE m \in Loaders, n \in Names
  <2>1. /\ Held(x.s, m, n) = Held(s, m, n) + IF m = "Export" THEN Count(x.list, n) ELSE 0
        /\ Held(s, m, n) \in Int /\ Held(s, m, n) >= 0 /\ Count(x.list, n) \in Nat
    BY <1>2, <1>3
  <2>. QED BY <2>1
<1>5. /\ \A n \in Names : Held(x.s, "Proc", n) = Held(s, "Proc", n)
      /\ \A n \in Names : Held(x.s, "Export", n) = Held(s, "Export", n) + Count(x.list, n)
  BY <1>0, <1>2
<1>6. CASE x.s.error
  <2>1. p = [s |-> x.s, list |-> <<>>]
    BY <1>6 DEF ProcessorAddRule
  <2>2. p.s = x.s /\ p.list = <<>> /\ p.list \in Seq(Names)
    BY <2>1
  <2>. HIDE DEF p
  <2>3. ASSUME NEW n \in Names
        PROVE  /\ Held(p.s, "Proc", n) = Held(s, "Proc", n) + Count(p.list, n)
               /\ Held(p.s, "Export", n) = Held(s, "Export", n) + Count(x.list, n)
    <3>1. Count(p.list, n) = 0
      BY <2>2, CountEmpty
    <3>2. Held(s, "Proc", n) \in Int
      BY <1>0
    <3>. QED BY <1>5, <2>2, <3>1, <3>2
  <2>. QED BY <1>2, <1>6, <2>2, <2>3 DEF x, p
<1>7. CASE ~x.s.error
  <2>1. x = X
    BY <1>2, <1>7
  <2>2. /\ TimersFit(x.s) /\ x.s.pt = s.pt /\ Ticking(s) \subseteq Ticking(x.s)
        /\ \A k \in DOMAIN x.list : x.list[k] \in WithTimers => x.list[k] \in x.s.active
    BY <1>1, <2>1 DEF Added
  <2>3. /\ P \in Added(x.s, "Proc", U)
        /\ ~P.s.error => P.s.pt = x.s.pt \cup TimersOf(r, P.list)
    BY <1>2, <2>2, ActionsAdded
  <2>4. p = UndoneOnError(P, "Proc")
    BY <1>7 DEF ProcessorAddRule
  <2>. HIDE DEF P, p
  <2>5. /\ Loaded(p.s, U) /\ p.list \in Seq(Names) /\ p.s.error = P.s.error
        /\ \A m \in Loaders, n \in Names :
               Held(p.s, m, n) = Held(x.s, m, n) + IF m = "Proc" THEN Count(p.list, n) ELSE 0
        /\ ~P.s.error => p = P
    BY <1>0, <1>2, <1>4, <2>3, <2>4, Undone
  <2>6. ASSUME NEW n \in Names
        PROVE  /\ Held(p.s, "Proc", n) = Held(s, "Proc", n) + Count(p.list, n)
               /\ Held(p.s, "Export", n) = Held(s, "Export", n) + Count(x.list, n)
    <3>1. /\ Held(p.s, "Proc", n) = Held(x.s, "Proc", n) + Count(p.list, n)
          /\ Held(p.s, "Export", n) = Held(x.s, "Export", n) + 0
      BY <1>0, <2>5
    <3>2. Held(x.s, "Export", n) \in Int
      BY <1>0, <1>4
    <3>. QED BY <1>5, <3>1, <3>2
  <2>7. ASSUME ~p.s.error
        PROVE  /\ TimersFit(p.s) /\ p.s.pt = s.pt \cup TimersOf(r, p.list)
               /\ Ticking(s) \subseteq Ticking(p.s)
               /\ \A k \in DOMAIN x.list : x.list[k] \in WithTimers => x.list[k] \in p.s.active
    <3>1. p = P /\ ~P.s.error
      BY <2>5, <2>7
    <3>2. TimersFit(p.s) /\ Ticking(p.s) = Ticking(x.s)
      BY <2>3, <3>1 DEF Added
    <3>3. \A k \in DOMAIN x.list : x.list[k] \in WithTimers => x.list[k] \in p.s.active
      BY <2>2, <3>2 DEF Ticking
    <3>. QED BY <2>2, <2>3, <3>1, <3>2, <3>3
  <2>. QED BY <1>2, <2>5, <2>6, <2>7 DEF x, p
<1>. QED BY <1>6, <1>7

LEMMA ActivateInv ==
  ASSUME UseInv, Exposed = {}, NEW r \in RuleIds, ActivateRule(r)
  PROVE  UseInv'
<1> DEFINE rule == known[r]
           x == ExporterAddRule(Now, rule)
           p == ProcessorAddRule(x.s, rule, r)
<1>1. /\ ~stopped /\ rule # NoRule /\ actions[r] \o mods[r] = <<>> /\ ~Excluded(rule)
      /\ Becomes(p.s) /\ mods' = [mods EXCEPT ![r] = x.list]
      /\ actions' = [actions EXCEPT ![r] = p.list] /\ stopped' = p.s.error
      /\ UNCHANGED <<preloaded, known>>
  BY DEF ActivateRule
<1>2. Loaded(Now, Loads) /\ TimersFit(Now) /\ RulesFit(Now) /\ Types
  BY <1>1 DEF UseInv
<1>3. rule \in Shapes /\ actions \in [RuleIds -> Seq(Names)] /\ mods \in [RuleIds -> Seq(Names)]
  BY <1>1, <1>2 DEF Types
<1>4. actions[r] = <<>> /\ mods[r] = <<>>
  <2>1. actions[r] \in Seq(Names) /\ mods[r] \in Seq(Names)
    BY <1>3
  <2>2. Len(actions[r] \o mods[r]) = Len(actions[r]) + Len(mods[r]) /\ Len(<<>>) = 0
    BY <2>1
  <2>3. Len(actions[r]) \in Nat /\ Len(mods[r]) \in Nat
    BY <2>1
  <2>4. Len(actions[r]) = 0 /\ Len(mods[r]) = 0
    <3> DEFINE i == Len(actions[r])
               j == Len(mods[r])
    <3>1. i + j = 0
      BY <1>1, <2>2
    <3>2. i \in Nat /\ j \in Nat
      BY <2>3
    <3>. HIDE DEF i, j
    <3>3. i = 0 /\ j = 0
      BY <3>1, <3>2
    <3>. QED BY <3>3 DEF i, j
  <2>5. \A q \in Seq(Names) : Len(q) = 0 => q = <<>>
    BY EmptySeq
  <2>. QED BY <2>1, <2>4, <2>5
<1>. HIDE DEF rule
<1>5. ~OtherAction(rule) /\ \E U : Apart(U) /\ Loaded(Now, U) /\ RuleIn(rule, U)
  BY <1>1, <1>2, <1>3, RuleUsed, ShapesTyped
<1>6. PICK U : Apart(U) /\ Loaded(Now, U) /\ RuleIn(rule, U)
  BY <1>5
<1>7. ~Now.error /\ Now.pt = procTimers /\ \A l \in Loaders, n \in Names : Held(Now, l, n) \in Int
  BY <1>2, NowIs
<1>8. \A l \in Loaders, n \in Names :
         /\ IsFiniteSet(Places(l, {n}))
         /\ Held(Now, l, n) = Cardinality(Places(l, {n})) + IF n \in preloaded[l] THEN 1 ELSE 0
  BY DEF UseInv, Uses
<1>9. \A l \in Loaders, n \in Names : Held(Now, l, n) >= 0
  <2>. TAKE l \in Loaders, n \in Names
  <2>1. Cardinality(Places(l, {n})) \in Nat
    BY <1>8, FS_CardinalityType
  <2>. QED BY <1>8, <2>1
<1>10. /\ Loaded(p.s, U) /\ x.list \in Seq(Names) /\ p.list \in Seq(Names)
       /\ \A n \in Names : /\ Held(p.s, "Proc", n) = Held(Now, "Proc", n) + Count(p.list, n)
                          /\ Held(p.s, "Export", n) = Held(Now, "Export", n) + Count(x.list, n)
       /\ ~p.s.error =>
             /\ TimersFit(p.s) /\ p.s.pt = Now.pt \cup TimersOf(r, p.list)
             /\ Ticking(Now) \subseteq Ticking(p.s)
             /\ \A k \in DOMAIN x.list : x.list[k] \in WithTimers => x.list[k] \in p.s.active
  <2>1. \A l \in Loaders, n \in Names : Held(Now, l, n) \in Int /\ Held(Now, l, n) >= 0
    BY <1>7, <1>9
  <2>2. Apart(U) /\ Loaded(Now, U) /\ TimersFit(Now) /\ ~Now.error /\ RuleIn(rule, U) /\ ~OtherAction(rule)
    BY <1>2, <1>5, <1>6, <1>7
  <2> DEFINE s == Now
  <2>. HIDE DEF s
  <2>3. /\ Loaded(s, U) /\ TimersFit(s) /\ ~s.error
        /\ \A l \in Loaders, n \in Names : Held(s, l, n) \in Int /\ Held(s, l, n) >= 0
    BY <2>1, <2>2 DEF s
  <2> DEFINE X == ExporterAddRule(s, rule)
             P == ProcessorAddRule(X.s, rule, r)
  <2>4. /\ Loaded(P.s, U) /\ X.list \in Seq(Names) /\ P.list \in Seq(Names)
        /\ \A n \in Names : /\ Held(P.s, "Proc", n) = Held(s, "Proc", n) + Count(P.list, n)
                           /\ Held(P.s, "Export", n) = Held(s, "Export", n) + Count(X.list, n)
        /\ ~P.s.error =>
              /\ TimersFit(P.s) /\ P.s.pt = s.pt \cup TimersOf(r, P.list)
              /\ Ticking(s) \subseteq Ticking(P.s)
              /\ \A k \in DOMAIN X.list : X.list[k] \in WithTimers => X.list[k] \in P.s.active
    BY <2>2, <2>3, RuleAdded
  <2>5. s = Now /\ X = x /\ P = p
    BY DEF s
  <2>. HIDE DEF X, P, x, p
  <2>. QED BY <2>4, <2>5
<1>. HIDE DEF x, p
<1>11. /\ Loaded(Now', Loads') /\ Loads' \subseteq U
       /\ \A l \in Loaders, n \in Names : Held(Now', l, n) = Held(p.s, l, n)
       /\ TimersFit(p.s) => TimersFit(Now')
       /\ Now'.pt = p.s.pt /\ Now'.active = p.s.active
  BY <1>1, <1>10, Becoming
<1>12. Types'
  BY <1>1, <1>2, <1>10 DEF Types
<1>13. /\ \A N : Places("Proc", N) = PlacesIn(actions, N) /\ Places("Proc", N)' = PlacesIn(actions', N)
       /\ \A N : Places("Export", N) = PlacesIn(mods, N) /\ Places("Export", N)' = PlacesIn(mods', N)
  BY DEF Places, PlacesIn
<1>14. ASSUME NEW l \in Loaders, NEW n \in Names
       PROVE  /\ IsFiniteSet(Places(l, {n})')
              /\ Held(Now', l, n) = Cardinality(Places(l, {n})') + IF n \in preloaded'[l] THEN 1 ELSE 0
  <2>1. CASE l = "Proc"
    <3>1. IsFiniteSet(PlacesIn(actions, {n}))
      BY <1>8, <1>13, <2>1
    <3>2. /\ IsFiniteSet(PlacesIn(actions', {n}))
          /\ Cardinality(PlacesIn(actions, {n})) \in Nat /\ Count(p.list, n) \in Nat
          /\ Cardinality(PlacesIn(actions', {n})) = Cardinality(PlacesIn(actions, {n})) + Count(p.list, n)
      BY <1>1, <1>3, <1>4, <1>10, <3>1, UsesAdded
    <3>3. Held(Now', l, n) = Held(Now, l, n) + Count(p.list, n)
      BY <1>10, <1>11, <2>1
    <3>. QED BY <1>1, <1>8, <1>13, <2>1, <3>2, <3>3
  <2>2. CASE l = "Export"
    <3>1. IsFiniteSet(PlacesIn(mods, {n}))
      BY <1>8, <1>13, <2>2
    <3>2. /\ IsFiniteSet(PlacesIn(mods', {n}))
          /\ Cardinality(PlacesIn(mods, {n})) \in Nat /\ Count(x.list, n) \in Nat
          /\ Cardinality(PlacesIn(mods', {n})) = Cardinality(PlacesIn(mods, {n})) + Count(x.list, n)
      BY <1>1, <1>3, <1>4, <1>10, <3>1, UsesAdded
    <3>3. Held(Now', l, n) = Held(Now, l, n) + Count(x.list, n)
      BY <1>10, <1>11, <2>2
    <3>. QED BY <1>1, <1>8, <1>13, <2>2, <3>2, <3>3
  <2>. QED BY <2>1, <2>2 DEF Loaders
<1>15. Apart(Loads')
  BY <1>6, <1>11 DEF Apart
<1>16. ASSUME ~stopped' PROVE TimersFit(Now') /\ RulesFit(Now)'
  <2>1. /\ TimersFit(p.s) /\ p.s.pt = Now.pt \cup TimersOf(r, p.list)
        /\ Ticking(Now) \subseteq Ticking(p.s)
        /\ \A k \in DOMAIN x.list : x.list[k] \in WithTimers => x.list[k] \in p.s.active
    BY <1>1, <1>10, <1>16
  <2>2. Now'.pt = Places("Proc", WithTimers)'
    <3>1. PlacesIn(actions', WithTimers) = PlacesIn(actions, WithTimers) \cup Stand(r, p.list, WithTimers)
      BY <1>1, <1>3, <1>4, <1>10, PlacesAdded
    <3>. QED BY <1>2, <1>11, <1>13, <2>1, <3>1 DEF RulesFit, TimersOf
  <2>3. ASSUME NEW n \in WithTimers, Places("Export", {n})' # {} PROVE n \in Now'.active
    <3>1. PlacesIn(mods', {n}) = PlacesIn(mods, {n}) \cup Stand(r, x.list, {n})
      BY <1>1, <1>3, <1>4, <1>10, PlacesAdded
    <3>2. CASE PlacesIn(mods, {n}) # {}
      <4>1. n \in Ticking(Now)
        BY <1>2, <1>13, <3>2 DEF RulesFit, Ticking
      <4>. QED BY <1>11, <2>1, <4>1 DEF Ticking
    <3>3. CASE Stand(r, x.list, {n}) # {}
      <4>1. PICK k \in DOMAIN x.list : x.list[k] = n
        BY <3>3 DEF Stand
      <4>. QED BY <1>11, <2>1, <4>1
    <3>. QED BY <1>13, <2>3, <3>1, <3>2, <3>3
  <2>. QED BY <1>11, <2>1, <2>2, <2>3 DEF RulesFit
<1>. QED BY <1>11, <1>12, <1>14, <1>15, <1>16 DEF UseInv, Uses

LEMMA RemoveInv ==
  ASSUME UseInv, Exposed = {}, NEW r \in RuleIds, RemoveRule(r)
  PROVE  UseInv'
<1> DEFINE a == actions[r]
           e == mods[r]
           u == Released(Now, "Proc", a)
           v == Released(u, "Export", e)
           s == DelRules(Now, r)
<1>1. /\ ~stopped /\ known[r] # NoRule /\ ~LastUser(s) /\ Becomes(s)
      /\ known' = [known EXCEPT ![r] = NoRule] /\ actions' = [actions EXCEPT ![r] = <<>>]
      /\ mods' = [mods EXCEPT ![r] = <<>>] /\ UNCHANGED <<preloaded, stopped>>
  BY DEF RemoveRule
<1>2. Loaded(Now, Loads) /\ TimersFit(Now) /\ RulesFit(Now) /\ Types /\ Apart(Loads)
  BY <1>1 DEF UseInv
<1>3. /\ actions \in [RuleIds -> Seq(Names)] /\ mods \in [RuleIds -> Seq(Names)]
      /\ a \in Seq(Names) /\ e \in Seq(Names) /\ <<>> \in Seq(Names)
      /\ "Proc" \in Loaders /\ "Export" \in Loaders /\ "Proc" # "Export"
  BY <1>2 DEF Types, Loaders
<1>4. /\ actions' \in [RuleIds -> Seq(Names)] /\ mods' \in [RuleIds -> Seq(Names)]
      /\ actions'[r] = <<>> /\ mods'[r] = <<>>
      /\ actions = [actions' EXCEPT ![r] = a] /\ mods = [mods' EXCEPT ![r] = e]
  BY <1>1, <1>3
<1>. HIDE DEF a, e
<1>5. Types'
  BY <1>1, <1>2, <1>4 DEF Types
<1>6. /\ \A N : Places("Proc", N) = PlacesIn(actions, N) /\ Places("Proc", N)' = PlacesIn(actions', N)
      /\ \A N : Places("Export", N) = PlacesIn(mods, N) /\ Places("Export", N)' = PlacesIn(mods', N)
  BY DEF Places, PlacesIn
<1>7. \A l \in Loaders, n \in Names :
         /\ IsFiniteSet(Places(l, {n}))
         /\ Held(Now, l, n) = Cardinality(Places(l, {n})) + IF n \in preloaded[l] THEN 1 ELSE 0
  BY DEF UseInv, Uses
<1>8. ASSUME NEW n \in Names
      PROVE  /\ IsFiniteSet(PlacesIn(actions', {n})) /\ Count(a, n) \in Nat
             /\ Cardinality(PlacesIn(actions', {n})) \in Nat
             /\ Cardinality(PlacesIn(actions, {n})) = Cardinality(PlacesIn(actions', {n})) + Count(a, n)
             /\ IsFiniteSet(PlacesIn(mods', {n})) /\ Count(e, n) \in Nat
             /\ Cardinality(PlacesIn(mods', {n})) \in Nat
             /\ Cardinality(PlacesIn(mods, {n})) = Cardinality(PlacesIn(mods', {n})) + Count(e, n)
  <2>1. IsFiniteSet(PlacesIn(actions, {n})) /\ IsFiniteSet(PlacesIn(mods, {n}))
    BY <1>3, <1>6, <1>7
  <2>2. /\ IsFiniteSet(PlacesIn(actions', {n})) /\ Count(a, n) \in Nat
        /\ Cardinality(PlacesIn(actions', {n})) \in Nat
        /\ Cardinality(PlacesIn([actions' EXCEPT ![r] = a], {n})) =
               Cardinality(PlacesIn(actions', {n})) + Count(a, n)
    <3> DEFINE lists == actions'
    <3>1. lists \in [RuleIds -> Seq(Names)] /\ lists[r] = <<>> /\ actions = [lists EXCEPT ![r] = a]
      BY <1>4
    <3>. HIDE DEF lists
    <3>2. /\ lists \in [RuleIds -> Seq(Names)] /\ lists[r] = <<>> /\ a \in Seq(Names)
          /\ \/ IsFiniteSet(PlacesIn(lists, {n}))
             \/ IsFiniteSet(PlacesIn([lists EXCEPT ![r] = a], {n}))
      BY <1>3, <2>1, <3>1
    <3>3. /\ IsFiniteSet(PlacesIn(lists, {n})) /\ Count(a, n) \in Nat
          /\ Cardinality(PlacesIn(lists, {n})) \in Nat
          /\ Cardinality(PlacesIn([lists EXCEPT ![r] = a], {n})) =
                 Cardinality(PlacesIn(lists, {n})) + Count(a, n)
      BY <3>2, UsesAdded
    <3>. QED BY <3>3 DEF lists
  <2>3. /\ IsFiniteSet(PlacesIn(mods', {n})) /\ Count(e, n) \in Nat
        /\ Cardinality(PlacesIn(mods', {n})) \in Nat
        /\ Cardinality(PlacesIn([mods' EXCEPT ![r] = e], {n})) =
               Cardinality(PlacesIn(mods', {n})) + Count(e, n)
    <3> DEFINE lists == mods'
    <3>1. lists \in [RuleIds -> Seq(Names)] /\ lists[r] = <<>> /\ mods = [lists EXCEPT ![r] = e]
      BY <1>4
    <3>. HIDE DEF lists
    <3>2. /\ lists \in [RuleIds -> Seq(Names)] /\ lists[r] = <<>> /\ e \in Seq(Names)
          /\ \/ IsFiniteSet(PlacesIn(lists, {n}))
             \/ IsFiniteSet(PlacesIn([lists EXCEPT ![r] = e], {n}))
      BY <1>3, <2>1, <3>1
    <3>3. /\ IsFiniteSet(PlacesIn(lists, {n})) /\ Count(e, n) \in Nat
          /\ Cardinality(PlacesIn(lists, {n})) \in Nat
          /\ Cardinality(PlacesIn([lists EXCEPT ![r] = e], {n})) =
                 Cardinality(PlacesIn(lists, {n})) + Count(e, n)
      BY <3>2, UsesAdded
    <3>. QED BY <3>3 DEF lists
  <2>. QED BY <1>4, <2>2, <2>3
<1>9. \A n \in Names :
         /\ Held(Now, "Proc", n) = Cardinality(PlacesIn(actions, {n})) + IF n \in preloaded["Proc"] THEN 1 ELSE 0
         /\ Held(Now, "Export", n) = Cardinality(PlacesIn(mods, {n})) + IF n \in preloaded["Export"] THEN 1 ELSE 0
  BY <1>3, <1>6, <1>7
<1>10. \A l \in Loaders, n \in Names :
          /\ Now.refs[l][n] \in Int /\ Now.kept[l][n] \in Int /\ Now.kept[l][n] >= 0
  <2>1. Now.refs \in [Loaders -> [Names -> Int]] /\ Now.kept \in [Loaders -> [Names -> Int]]
    BY <1>2 DEF Loaded, States
  <2>. QED BY <1>2, <2>1 DEF Loaded
<1>11. \A n \in Names : Now.refs["Proc"][n] >= Count(a, n) /\ Now.refs["Export"][n] >= Count(e, n)
  <2>. TAKE n \in Names
  <2> DEFINE i == IF n \in preloaded["Proc"] THEN 1 ELSE 0
             j == IF n \in preloaded["Export"] THEN 1 ELSE 0
             A == Cardinality(PlacesIn(actions', {n}))
             E == Cardinality(PlacesIn(mods', {n}))
             R == Now.refs["Proc"][n]
             Q == Now.refs["Export"][n]
             K == Now.kept["Proc"][n]
             L == Now.kept["Export"][n]
  <2>1. i \in Nat /\ j \in Nat
    OBVIOUS
  <2>2. A \in Nat /\ E \in Nat /\ Count(a, n) \in Nat /\ Count(e, n) \in Nat
    BY <1>8
  <2>3. R - K = A + Count(a, n) + i /\ Q - L = E + Count(e, n) + j
    BY <1>8, <1>9 DEF Held
  <2>4. R \in Int /\ Q \in Int /\ K \in Int /\ L \in Int /\ K >= 0 /\ L >= 0
    BY <1>3, <1>10
  <2>. HIDE DEF i, j, A, E, R, Q, K, L
  <2>5. R >= Count(a, n) /\ Q >= Count(e, n)
    BY <2>1, <2>2, <2>3, <2>4
  <2>. QED BY <2>5 DEF R, Q
<1>12. /\ Loaded(u, Loads) /\ Rest(u) = Rest(Now)
       /\ \A l \in Loaders, n \in Names :
              u.refs[l][n] = Now.refs[l][n] - IF l = "Proc" THEN Count(a, n) ELSE 0
  BY <1>2, <1>3, <1>11, ReleasedIs
<1>. HIDE DEF u
<1>13. \A n \in Names : u.refs["Export"][n] >= Count(e, n)
  <2>. TAKE n \in Names
  <2>1. u.refs["Export"][n] = Now.refs["Export"][n] - 0
    BY <1>3, <1>12
  <2>. QED BY <1>3, <1>10, <1>11, <2>1
<1>14. /\ Loaded(v, Loads) /\ Rest(v) = Rest(u)
       /\ \A l \in Loaders, n \in Names :
              v.refs[l][n] = u.refs[l][n] - IF l = "Export" THEN Count(e, n) ELSE 0
  BY <1>2, <1>3, <1>12, <1>13, ReleasedIs
<1>. HIDE DEF v
<1>15. /\ s = State(v.refs, v.ready, v.active, v.et, {t \in v.pt : t[1] # r}, v.kept, v.error)
       /\ v \in States
  <2> DEFINE P == {t \in v.pt : t[1] # r}
  <2>1. s = [v EXCEPT !.pt = P]
    BY DEF DelRules, u, v, a, e
  <2>2. v \in States
    BY <1>14 DEF Loaded
  <2>. HIDE DEF P, s
  <2>3. s = State(v.refs, v.ready, v.active, v.et, P, v.kept, v.error)
    BY <2>1, <2>2, Changed
  <2>. QED BY <2>2, <2>3 DEF P
<1>. HIDE DEF s
<1>16. /\ s.refs = v.refs /\ s.ready = v.ready /\ s.active = Now.active /\ s.et = Now.et
       /\ s.pt = {t \in Now.pt : t[1] # r} /\ s.kept = Now.kept /\ v.kept = Now.kept
  BY <1>12, <1>14, <1>15 DEF State, Rest
<1>17. s \in States
  <2> DEFINE P == {t \in v.pt : t[1] # r}
  <2>1. P \in SUBSET (RuleIds \X Nat)
    BY <1>15 DEF States
  <2>2. s = State(v.refs, v.ready, v.active, v.et, P, v.kept, v.error) /\ v \in States
    BY <1>15
  <2>. HIDE DEF P
  <2>. QED BY <2>1, <2>2 DEF State, States
<1>18. Loaded(s, Loads)
  BY <1>14, <1>16, <1>17 DEF Loaded
<1>19. TimersFit(s)
  <2>1. ASSUME NEW n \in Names
        PROVE  /\ s.et[n] = IF n \in s.active \cap WithTimers THEN 1 ELSE 0
               /\ n \in s.active \cap WithTimers => s.refs["Export"][n] > 0
    <3>1. /\ Now.et[n] = IF n \in Now.active \cap WithTimers THEN 1 ELSE 0
          /\ n \in Now.active \cap WithTimers => Now.refs["Export"][n] > 0
      BY <1>2 DEF TimersFit
    <3>2. Now.active = timersActive /\ Now.refs = refs
      BY DEF Now
    <3>3. n \in Now.active \cap WithTimers => s.refs["Export"][n] # 0
      BY <1>1, <3>1, <3>2 DEF LastUser
    <3>4. s.refs["Export"][n] \in Int /\ s.refs["Export"][n] >= 0
      <4>1. s.refs \in [Loaders -> [Names -> Int]]
        BY <1>17 DEF States
      <4>. QED BY <1>3, <1>18, <4>1 DEF Loaded
    <3>. QED BY <1>16, <3>1, <3>3, <3>4
  <2>. QED BY <2>1 DEF TimersFit
<1>20. /\ Loaded(Now', Loads') /\ Loads' \subseteq Loads /\ TimersFit(Now')
       /\ \A l \in Loaders, n \in Names : Held(Now', l, n) = Held(s, l, n)
       /\ Now'.pt = s.pt /\ Now'.active = s.active
  BY <1>1, <1>18, <1>19, Becoming
<1>21. ASSUME NEW l \in Loaders, NEW n \in Names
       PROVE  /\ IsFiniteSet(Places(l, {n})')
              /\ Held(Now', l, n) = Cardinality(Places(l, {n})') + IF n \in preloaded'[l] THEN 1 ELSE 0
  <2>1. Held(Now', l, n) = Held(Now, l, n) - IF l = "Proc" THEN Count(a, n) ELSE Count(e, n)
    <3>1. s.refs[l][n] = Now.refs[l][n] - IF l = "Proc" THEN Count(a, n) ELSE Count(e, n)
      <4>1. /\ u.refs[l][n] = Now.refs[l][n] - IF l = "Proc" THEN Count(a, n) ELSE 0
            /\ v.refs[l][n] = u.refs[l][n] - IF l = "Export" THEN Count(e, n) ELSE 0
            /\ Now.refs[l][n] \in Int
        BY <1>10, <1>12, <1>14
      <4>2. Count(a, n) \in Nat /\ Count(e, n) \in Nat /\ s.refs[l][n] = v.refs[l][n]
        BY <1>8, <1>16
      <4>3. CASE l = "Proc"
        <5>1. u.refs[l][n] = Now.refs[l][n] - Count(a, n) /\ v.refs[l][n] = u.refs[l][n] - 0
          BY <1>3, <4>1, <4>3
        <5>. QED BY <4>1, <4>2, <4>3, <5>1
      <4>4. CASE l = "Export"
        <5>1. u.refs[l][n] = Now.refs[l][n] - 0 /\ v.refs[l][n] = u.refs[l][n] - Count(e, n)
          BY <1>3, <4>1, <4>4
        <5>. QED BY <1>3, <4>1, <4>2, <4>4, <5>1
      <4>. QED BY <4>3, <4>4 DEF Loaders
    <3>2. s.kept[l][n] = Now.kept[l][n]
      BY <1>16
    <3>3. Now.refs[l][n] \in Int /\ Now.kept[l][n] \in Int /\ Count(a, n) \in Nat /\ Count(e, n) \in Nat
      BY <1>8, <1>10
    <3>. QED BY <1>20, <3>1, <3>2, <3>3 DEF Held
  <2>2. CASE l = "Proc"
    <3>1. /\ Held(Now', l, n) = Held(Now, l, n) - Count(a, n)
          /\ Held(Now, l, n) = Cardinality(PlacesIn(actions, {n})) + IF n \in preloaded[l] THEN 1 ELSE 0
      BY <1>9, <2>1, <2>2
    <3> DEFINE i == IF n \in preloaded[l] THEN 1 ELSE 0
               A == Cardinality(PlacesIn(actions', {n}))
               B == Cardinality(PlacesIn(actions, {n}))
               C == Count(a, n)
    <3>2. A \in Nat /\ C \in Nat /\ B = A + C /\ i \in Nat
      BY <1>8
    <3>3. Held(Now', l, n) = B + i - C
      <4> DEFINE H == Held(Now, l, n)
                 J == Held(Now', l, n)
      <4>1. J = H - C /\ H = B + i
        BY <3>1
      <4>. HIDE DEF H, J, B, C, i
      <4>2. J = B + i - C
        BY <3>2, <4>1
      <4>. QED BY <4>2 DEF J
    <3>4. Held(Now', l, n) = A + i
      <4>. HIDE DEF A, B, C, i
      <4>. QED BY <3>2, <3>3
    <3>5. Places(l, {n})' = PlacesIn(actions', {n}) /\ IsFiniteSet(PlacesIn(actions', {n}))
      BY <1>6, <1>8, <2>2
    <3>6. preloaded' = preloaded
      BY <1>1
    <3>. QED BY <3>4, <3>5, <3>6
  <2>3. CASE l = "Export"
    <3>1. /\ Held(Now', l, n) = Held(Now, l, n) - Count(e, n)
          /\ Held(Now, l, n) = Cardinality(PlacesIn(mods, {n})) + IF n \in preloaded[l] THEN 1 ELSE 0
      BY <1>3, <1>9, <2>1, <2>3
    <3> DEFINE i == IF n \in preloaded[l] THEN 1 ELSE 0
               A == Cardinality(PlacesIn(mods', {n}))
               B == Cardinality(PlacesIn(mods, {n}))
               C == Count(e, n)
    <3>2. A \in Nat /\ C \in Nat /\ B = A + C /\ i \in Nat
      BY <1>8
    <3>3. Held(Now', l, n) = B + i - C
      <4> DEFINE H == Held(Now, l, n)
                 J == Held(Now', l, n)
      <4>1. J = H - C /\ H = B + i
        BY <3>1
      <4>. HIDE DEF H, J, B, C, i
      <4>2. J = B + i - C
        BY <3>2, <4>1
      <4>. QED BY <4>2 DEF J
    <3>4. Held(Now', l, n) = A + i
      <4>. HIDE DEF A, B, C, i
      <4>. QED BY <3>2, <3>3
    <3>5. Places(l, {n})' = PlacesIn(mods', {n}) /\ IsFiniteSet(PlacesIn(mods', {n}))
      BY <1>6, <1>8, <2>3
    <3>6. preloaded' = preloaded
      BY <1>1
    <3>. QED BY <3>4, <3>5, <3>6
  <2>. QED BY <2>2, <2>3 DEF Loaders
<1>22. Apart(Loads')
  BY <1>2, <1>20 DEF Apart
<1>23. RulesFit(Now)'
  <2>1. Now'.pt = Places("Proc", WithTimers)'
    <3>1. PlacesIn(actions', WithTimers) = Others(PlacesIn(actions, WithTimers), r)
      BY <1>1, <1>3, PlacesRemoved
    <3>2. Now.pt = PlacesIn(actions, WithTimers)
      BY <1>2, <1>6 DEF RulesFit
    <3>. QED BY <1>6, <1>16, <1>20, <3>1, <3>2 DEF Others
  <2>2. ASSUME NEW n \in WithTimers, Places("Export", {n})' # {} PROVE n \in Now'.active
    <3>1. PlacesIn(mods', {n}) = Others(PlacesIn(mods, {n}), r)
      BY <1>1, <1>3, PlacesRemoved
    <3>2. Places("Export", {n}) # {}
      BY <1>6, <2>2, <3>1 DEF Others
    <3>. QED BY <1>2, <1>16, <1>20, <3>2 DEF RulesFit
  <2>. QED BY <2>1, <2>2 DEF RulesFit
<1>. QED BY <1>5, <1>20, <1>21, <1>22, <1>23 DEF UseInv, Uses

-----------------------------------------------------------------------------
LEMMA StepInv ==
  ASSUME UseInv, Exposed = {}, [Next]_vars
  PROVE  UseInv'
<1>1. ASSUME NEW r \in RuleIds, NEW rule \in Shapes, AddRule(r, rule) PROVE UseInv'
  BY <1>1, AddRuleInv
<1>2. ASSUME NEW r \in RuleIds, ActivateRule(r) PROVE UseInv'
  BY <1>2, ActivateInv
<1>3. ASSUME NEW r \in RuleIds, RemoveRule(r) PROVE UseInv'
  BY <1>3, RemoveInv
<1>4. ASSUME NEW n \in Names, GetModuleInfo(n) PROVE UseInv'
  BY <1>4, GetModuleInfoInv
<1>5. ASSUME NEW f \in Removable, ChangeFile(f) PROVE UseInv'
  BY <1>5, UnchangedInv DEF ChangeFile
<1>6. CASE UNCHANGED vars
  BY <1>6, UnchangedInv DEF vars
<1>. QED BY <1>1, <1>2, <1>3, <1>4, <1>5, <1>6 DEF Next

\* What the libraries, the rules' modules and the timers have to do with each
\* other between any two handlers of the meter, in the code of ModuleLoader,
\* Exporter and PacketProcessor.
THEOREM UseInvariant == Exposed = {} => (Spec => []UseInv)
<1>. SUFFICES ASSUME Exposed = {} PROVE Spec => []UseInv
  OBVIOUS
<1>1. Init => UseInv
  BY InitInv
<1>2. UseInv /\ [Next]_vars => UseInv'
  BY StepInv
<1>. QED BY <1>1, <1>2, PTL DEF Spec

\* The references of a module are as many as the rules' uses of it, its
\* preloading and what is never given back: of ModuleLoader::getModule and
\* releaseModule, with checkRule, addRule and delRule that call them.
THEOREM UsesAreCounted == Exposed = {} => (Spec => []ReferencesAreUses)
<1>. SUFFICES ASSUME Exposed = {} PROVE Spec => []ReferencesAreUses
  OBVIOUS
<1>1. ASSUME UseInv PROVE ReferencesAreUses
  <2>. SUFFICES ASSUME NEW l \in Loaders, NEW n \in Names
                PROVE  refs[l][n] = Uses(l, n) + unreleased[l][n] + IF n \in preloaded[l] THEN 1 ELSE 0
    BY DEF ReferencesAreUses
  <2> DEFINE R == refs[l][n]
             K == unreleased[l][n]
             C == Uses(l, n)
             i == IF n \in preloaded[l] THEN 1 ELSE 0
  <2>1. R - K = C + i
    BY <1>1 DEF UseInv, Held, Now
  <2>2. R \in Int /\ K \in Int
    <3>1. Now \in States
      BY <1>1 DEF UseInv, Loaded
    <3>2. refs \in [Loaders -> [Names -> Int]] /\ unreleased \in [Loaders -> [Names -> Int]]
      BY <3>1 DEF States, Now
    <3>. QED BY <3>2
  <2>3. C \in Nat /\ i \in Nat
    <3>1. IsFiniteSet(Places(l, {n}))
      BY <1>1 DEF UseInv
    <3>. QED BY <3>1, FS_CardinalityType DEF Uses
  <2>. HIDE DEF R, K, C, i
  <2>4. R = C + K + i
    BY <2>1, <2>2, <2>3
  <2>. QED BY <2>4 DEF R, K, C, i
<1>. QED BY <1>1, UseInvariant, PTL

\* Every module that is loaded is initialised: no releaseModule by another
\* rule's check, Error or removal has called its destroyModule since.
THEOREM UsedModulesAreReady == Exposed = {} => (Spec => []ModulesReady)
<1>. SUFFICES ASSUME Exposed = {} PROVE Spec => []ModulesReady
  OBVIOUS
<1>1. ASSUME UseInv PROVE ModulesReady
  BY <1>1 DEF UseInv, Loaded, Now, ModulesReady
<1>. QED BY <1>1, UseInvariant, PTL

\* The timers that addTimerEvents of PacketProcessor and ExportModule put in
\* the scheduler, and delRule takes out, are those of modules in use.
THEOREM TimersAreOfModules == Exposed = {} => (Spec => []TimersHaveModules)
<1>. SUFFICES ASSUME Exposed = {} PROVE Spec => []TimersHaveModules
  OBVIOUS
<1>1. ASSUME UseInv PROVE TimersHaveModules
  <2>. SUFFICES ASSUME ~stopped
                PROVE  /\ procTimers = Places("Proc", WithTimers)
                       /\ \A n \in WithTimers : exportTimers[n] =
                              IF Uses("Export", n) = 0 /\ n \notin timersActive THEN 0 ELSE 1
                       /\ \A n \in Names : exportTimers[n] > 0 => refs["Export"][n] > 0
    BY DEF TimersHaveModules
  <2>1. /\ procTimers = Places("Proc", WithTimers)
        /\ \A n \in WithTimers : Places("Export", {n}) # {} => n \in timersActive
    BY <1>1 DEF UseInv, RulesFit, Now
  <2>2. \A n \in Names :
           /\ exportTimers[n] = IF n \in timersActive \cap WithTimers THEN 1 ELSE 0
           /\ n \in timersActive \cap WithTimers => refs["Export"][n] > 0
    BY <1>1 DEF UseInv, TimersFit, Now
  <2>3. ASSUME NEW n \in WithTimers, Uses("Export", n) # 0 PROVE n \in timersActive
    <3>1. Places("Export", {n}) # {}
      BY <2>3, FS_EmptySet DEF Uses
    <3>. QED BY <2>1, <3>1
  <2>4. WithTimers \subseteq Names
    BY ModuleUseAssumption
  <2>. QED BY <2>1, <2>2, <2>3, <2>4
<1>. QED BY <1>1, UseInvariant, PTL
=============================================================================
