--------------------------- MODULE ControlCommProofs ---------------------------
(***************************************************************************)
(* Proofs about ControlComm, for any clients, scripts, access list, times  *)
(* and numbers of connections: the requests that queued commands point to  *)
(* are there until the commands are executed, and a connection that waits  *)
(* for its next request has forgotten none.                                *)
(*                                                                         *)
(* The argument follows the parts of a request.  A client asks for one     *)
(* thing at a time, so what a connection has read, what it works on and    *)
(* what is on its way are the parts of one request, the number s, with g   *)
(* answers got: s = g while the connection is idle, s = g + 1 while it is  *)
(* read or executed.  The only other parts there can be are the body of a  *)
(* request that was answered before it was read, and they are refused.     *)
(* httpd_handle_event is a fold over the connections, and each connection  *)
(* a fold over its passes; both are shown to be sequences of states, and   *)
(* what they do by induction along them.                                   *)
(***************************************************************************)
EXTENDS ControlComm, FiniteSetTheorems, SequenceTheorems, TLAPS

\* The parts of request i of client c: where its header ends, how many there
\* are, and which is the p-th.
HeadAt(c, i) == IF Request(c, i).cut = "none" THEN 1 ELSE 2
Size(c, i) == HeadAt(c, i) + Request(c, i).body
PartAt(c, i, p) ==
    [kind |-> IF p < HeadAt(c, i) THEN Request(c, i).cut ELSE IF p = HeadAt(c, i) THEN "head" ELSE "body",
     i |-> i]

PartKinds == {"start", "bit", "head", "body", "none"}
PartSet == [kind : PartKinds, i : Nat]
IsSeq(q) == q \in Seq(Range(q))

\* What the connection k has read and what of w, beyond its first u parts, is
\* on its way are together the request i; its header has been read; what
\* comes is a body without its header, which is refused.
Whole(k, w, u, i) ==
    /\ Len(k.buf) + Len(w) - u = Size(k.client, i)
    /\ \A p \in 1 .. Len(k.buf) : k.buf[p] = PartAt(k.client, i, p)
    /\ \A q \in u + 1 .. Len(w) : w[q] = PartAt(k.client, i, Len(k.buf) + q - u)
Begun(k, w, u, i) == Whole(k, w, u, i) /\ k.lreq = HeadAt(k.client, i) /\ k.lreq <= Len(k.buf)
Doomed(w, u) == u < Len(w) /\ w[u + 1].kind = "body"

\* Of a connection that reads, where s requests were sent and g answers got
Coming(k, w, u, s, g) ==
    \/ s = g /\ k.buf = <<>> /\ u = Len(w)
    \/ s = g + 1 /\ Whole(k, w, u, s) /\ Len(k.buf) < HeadAt(k.client, s)
    \/ k.buf = <<>> /\ Doomed(w, u)
\* Nothing was read after the request that is answered.
Left(k, w, u) == Len(k.buf) = k.lreq + k.lb /\ (u = Len(w) \/ Doomed(w, u))
Asking == {"PARSE_HEADER", "PARSE_BODY", "PROCESS"}
States == Asking \cup {"READ_HEADER", "KEEPALIVE", "READ_BODY", "WRITE", "FINISHED", "CLOSE"}

\* What a connection's state says of its buffer and of its requests
Fits(k, w, u, s, g) ==
    /\ k.state \in States
    /\ k.wr => k.state \in {"WRITE", "FINISHED", "CLOSE"}
    /\ k.state \in {"READ_HEADER", "KEEPALIVE"} => Coming(k, w, u, s, g)
    /\ k.state = "KEEPALIVE" => k.buf = <<>>
    /\ k.state = "READ_BODY" =>
          s = g + 1 /\ Begun(k, w, u, s) /\ Len(k.buf) - k.lreq < Request(k.client, s).body
    /\ k.state \in Asking => /\ s = g + 1 /\ Begun(k, w, u, s)
                             /\ k.lb = Len(k.buf) - k.lreq /\ k.age = 0
    /\ k.state \in {"PARSE_BODY", "PROCESS"} => u = Len(w)
    /\ k.state = "WRITE" /\ k.keep => s = g + 1 /\ Left(k, w, u)
    /\ k.state = "FINISHED" /\ k.keep => s = g /\ Left(k, w, u)

ConnShape(k) ==
    /\ k = [client |-> k.client, state |-> k.state, wr |-> k.wr, keep |-> k.keep, age |-> k.age,
            buf |-> k.buf, lreq |-> k.lreq, lb |-> k.lb, answer |-> k.answer]
    /\ k.client \in Clients /\ k.wr \in BOOLEAN /\ k.keep \in BOOLEAN
    /\ k.buf \in Seq(PartSet) /\ k.lreq \in Nat /\ k.lb \in Nat

\* The events in q for a client: none; one for the request of connection k
NoEvent(q, c) == \A n \in DOMAIN q : q[n] # Timer => q[n].to # c
OneEvent(q, k) ==
    \E m \in DOMAIN q :
       /\ q[m] # Timer /\ q[m].to = k.client /\ q[m].client = k.client /\ q[m].i = RequestOf(k)
       /\ \A n \in DOMAIN q : q[n] # Timer /\ q[n].to = k.client => n = m
Asked(q, k) == IF k.state \in Asking THEN OneEvent(q, k) ELSE NoEvent(q, k.client)
\* A connection between two calls
Settled(k, w, s, g) ==
    /\ ConnShape(k) /\ Fits(k, w, 0, s, g)
    /\ k.state # "FINISHED" /\ k.state # "CLOSE" /\ (k.state \in Asking => w = <<>>)

\* The inductive invariant, part by part: the variables' values; the server
\* has one connection of each client that is open, and no others; each fits,
\* and has an event if it is asking; clients without a connection have no
\* events, no answers, and at most the first request on its way, and one that
\* has closed its side has all answers; and the timer's event comes first,
\* alone while select waits, and not while anything is to be parsed.
ControlTypes ==
    /\ script \in Scripts
    /\ status \in [Clients -> {"new", "queued", "open", "ended"}]
    /\ sent \in [Clients -> Nat] /\ wire \in [Clients -> Seq(PartSet)]
    /\ gone \in SUBSET Clients /\ polled \in BOOLEAN
    /\ got = [c \in Clients |-> got[c]] /\ \A c \in Clients : IsSeq(got[c])
    /\ \A c \in Clients : sent[c] <= Len(script[c])
    /\ IsSeq(events)
ConnsAreOpen ==
    /\ IsSeq(conns)
    /\ \A m, n \in DOMAIN conns : conns[m].client = conns[n].client => m = n
    /\ \A c \in Clients : status[c] = "open" <=> \E n \in DOMAIN conns : conns[n].client = c
ConnsFit ==
    \A n \in DOMAIN conns :
       LET k == conns[n]
       IN  Settled(k, wire[k.client], sent[k.client], Len(got[k.client])) /\ Asked(events, k)
Unopened ==
    /\ \A c \in Clients : status[c] # "open" => NoEvent(events, c)
    /\ \A n \in DOMAIN events : events[n] # Timer => events[n].to \in Clients
    /\ \A c \in Clients : status[c] \in {"new", "queued"} =>
          /\ got[c] = <<>>
          /\ \/ sent[c] = 0 /\ wire[c] = <<>>
             \/ sent[c] = 1 /\ status[c] = "queued" /\ wire[c] = Parts(c, 1)
    /\ \A c \in gone : sent[c] <= Len(got[c])
TimerFirst ==
    /\ \A n \in DOMAIN events : events[n] = Timer =>
          n = 1 /\ \A m \in DOMAIN conns : conns[m].state \notin {"PARSE_HEADER", "PARSE_BODY"}
    /\ polled => \A n \in DOMAIN events : events[n] = Timer
ControlInv == ControlTypes /\ ConnsAreOpen /\ ConnsFit /\ Unopened /\ TimerFirst

-----------------------------------------------------------------------------
(* Sequences *)

LEMMA SeqIsSeq ==
  ASSUME NEW S, NEW q \in Seq(S)
  PROVE  IsSeq(q)
<1>1. DOMAIN q = 1 .. Len(q) /\ Len(q) \in Nat
  BY LenProperties
<1>2. \A n \in 1 .. Len(q) : q[n] \in Range(q)
  BY <1>1 DEF Range
<1>3. q \in Seq(Range(q))
  BY <1>1, <1>2
<1>. QED BY <1>3 DEF IsSeq

LEMMA IsSeqFacts ==
  ASSUME NEW q, IsSeq(q)
  PROVE  Len(q) \in Nat /\ DOMAIN q = 1 .. Len(q)
BY LenProperties, Zenon DEF IsSeq

LEMMA AppendIsSeq ==
  ASSUME NEW q, IsSeq(q), NEW e
  PROVE  /\ IsSeq(Append(q, e)) /\ Len(Append(q, e)) = Len(q) + 1
         /\ DOMAIN Append(q, e) = 1 .. Len(q) + 1
         /\ \A n \in 1 .. Len(q) : Append(q, e)[n] = q[n]
         /\ Append(q, e)[Len(q) + 1] = e
<1> DEFINE S == Range(q) \cup {e}
<1>1. q \in Seq(S) /\ e \in S
  <2>1. q \in Seq(Range(q))
    BY Zenon DEF IsSeq
  <2>2. Range(q) \subseteq S
    OBVIOUS
  <2>. HIDE DEF S
  <2>3. q \in Seq(S)
    BY <2>1, <2>2, SeqMonotonic
  <2>. QED BY <2>3 DEF S
<1>. HIDE DEF S
<1>2. Append(q, e) \in Seq(S)
  BY <1>1
<1>3. IsSeq(Append(q, e))
  BY <1>2, SeqIsSeq
<1>4. Len(q) \in Nat /\ Len(Append(q, e)) = Len(q) + 1
  BY <1>1
<1>5. DOMAIN Append(q, e) = 1 .. Len(q) + 1
  BY <1>2, <1>4, LenProperties
<1>. QED BY <1>1, <1>3, <1>4, <1>5

LEMMA TailIsSeq ==
  ASSUME NEW q, IsSeq(q), q # <<>>
  PROVE  /\ IsSeq(Tail(q)) /\ Len(q) \in Nat /\ Len(q) >= 1 /\ Len(Tail(q)) = Len(q) - 1
         /\ DOMAIN q = 1 .. Len(q) /\ DOMAIN Tail(q) = 1 .. Len(q) - 1
         /\ \A n \in 1 .. Len(q) - 1 : Tail(q)[n] = q[n + 1]
         /\ Head(q) = q[1]
<1>1. q \in Seq(Range(q))
  BY Zenon DEF IsSeq
<1>2. Tail(q) \in Seq(Range(q)) /\ Len(Tail(q)) = Len(q) - 1
      /\ \A n \in 1 .. Len(Tail(q)) : Tail(q)[n] = q[n + 1]
  BY <1>1, HeadTailProperties
<1>3. Len(q) \in Nat /\ Len(q) >= 1 /\ DOMAIN q = 1 .. Len(q)
  BY <1>1, EmptySeq, LenProperties
<1>4. IsSeq(Tail(q)) /\ DOMAIN Tail(q) = 1 .. Len(q) - 1
  <2>1. IsSeq(Tail(q))
    BY <1>2, SeqIsSeq
  <2>2. DOMAIN Tail(q) = 1 .. Len(Tail(q))
    BY <1>2, LenProperties
  <2>. QED BY <1>2, <2>1, <2>2
<1>5. Head(q) = q[1]
  OBVIOUS
<1>. QED BY <1>2, <1>3, <1>4, <1>5

\* Joined: two sequences of parts
JoinedParts(b, p, q, m, n) ==
    /\ b \in Seq(PartSet) /\ Len(p) \in Nat /\ Len(b) = Len(p) + n - m
    /\ \A x \in 1 .. Len(p) : b[x] = p[x]
    /\ \A x \in Len(p) + 1 .. Len(p) + n - m : b[x] = q[x - Len(p) + m]
ReadsOn(b, p, r, q, m, n) == JoinedParts(b, p, q, m, n) /\ Len(r) = n - m /\ (r = <<>> <=> m = n)
LEMMA PartsJoined ==
  ASSUME NEW p \in Seq(PartSet), NEW q \in Seq(PartSet), NEW m \in Nat, NEW n \in Nat,
         m <= n, n <= Len(q), NEW r, r = SubSeq(q, m + 1, n), NEW b, b = p \o r
  PROVE  ReadsOn(b, p, r, q, m, n)
<1>1. Len(q) \in Nat /\ Len(p) \in Nat /\ DOMAIN q = 1 .. Len(q)
  BY LenProperties
<1>2. \A i \in m + 1 .. n : q[i] \in PartSet
  BY <1>1, ElementOfSeq
<1>3. /\ r \in Seq(PartSet) /\ Len(r) = n - m
      /\ \A i \in 1 .. n - m : r[i] = q[m + i]
  <2>1. m + 1 \in Int /\ n \in Int
    OBVIOUS
  <2>2. /\ r \in Seq(PartSet) /\ Len(r) = IF m + 1 <= n THEN n - (m + 1) + 1 ELSE 0
        /\ \A i \in 1 .. n - (m + 1) + 1 : r[i] = q[(m + 1) + i - 1]
    BY <1>2, <2>1, SubSeqProperties
  <2>3. n - (m + 1) + 1 = n - m /\ \A i \in 1 .. n - m : (m + 1) + i - 1 = m + i
    OBVIOUS
  <2>. QED BY <2>2, <2>3
<1>4. /\ p \o r \in Seq(PartSet) /\ Len(p \o r) = Len(p) + Len(r)
      /\ \A i \in 1 .. Len(p) + Len(r) : (p \o r)[i] = IF i <= Len(p) THEN p[i] ELSE r[i - Len(p)]
  <2>1. r \in Seq(PartSet)
    BY <1>3
  <2>. QED BY <2>1, ConcatProperties
<1>5. ASSUME NEW x \in 1 .. Len(p) PROVE (p \o r)[x] = p[x]
  <2>1. x \in 1 .. Len(p) + Len(r) /\ x <= Len(p)
    BY <1>1, <1>3
  <2>. QED BY <1>4, <2>1
<1>6. ASSUME NEW x \in Len(p) + 1 .. Len(p) + n - m
      PROVE  (p \o r)[x] = q[x - Len(p) + m]
  <2>1. x - Len(p) \in 1 .. n - m /\ ~(x <= Len(p)) /\ x \in 1 .. Len(p) + Len(r)
    BY <1>1, <1>3
  <2>2. PICK y \in 1 .. n - m : y = x - Len(p)
    BY <2>1
  <2>3. r[y] = q[m + y] /\ m + y = x - Len(p) + m
    BY <1>1, <1>3, <2>2
  <2>4. (p \o r)[x] = r[x - Len(p)]
    BY <1>4, <2>1
  <2>. QED BY <2>2, <2>3, <2>4
<1>7. r = <<>> <=> m = n
  <2>1. Len(<<>>) = 0 /\ (r # <<>> => Len(r) # 0)
    <3>1. r \in Seq(PartSet)
      BY <1>3
    <3>. HIDE <1>3
    <3>. QED BY <3>1, EmptySeq
  <2>2. r = <<>> <=> Len(r) = 0
    BY <2>1, Zenon
  <2>3. PICK l : l = Len(r)
    OBVIOUS
  <2>4. l = n - m
    BY <1>3, <2>3
  <2>5. l = 0 <=> m = n
    BY <2>4
  <2>. QED BY <2>2, <2>3, <2>5, Zenon
<1>8. Len(p \o r) = Len(p) + n - m
  BY <1>1, <1>3, <1>4
<1>. QED BY <1>1, <1>3, <1>4, <1>5, <1>6, <1>7, <1>8 DEF JoinedParts, ReadsOn

-----------------------------------------------------------------------------
(* Requests and their parts *)

LEMMA RequestFacts ==
  ASSUME script \in Scripts, NEW c \in Clients, NEW i \in 1 .. Len(script[c])
  PROVE  /\ Request(c, i).body \in Nat /\ Request(c, i).get \in BOOLEAN
         /\ Request(c, i).get => Request(c, i).body = 0
         /\ Request(c, i).cut \in {"none", "start", "bit"}
         /\ HeadAt(c, i) \in {1, 2} /\ Size(c, i) = HeadAt(c, i) + Request(c, i).body
<1>1. script[c] \in Seq(Range(script[c])) /\ \A u \in Range(script[c]) : IsCommand(u)
  BY ControlCommAssumption
<1>2. script[c][i] \in Range(script[c])
  BY <1>1, ElementOfSeq
<1>3. IsCommand(Request(c, i))
  BY <1>1, <1>2 DEF Request
<1>. QED BY <1>3 DEF IsCommand, HeadAt, Size

\* A client's script has a length.
LEMMA ScriptLength ==
  ASSUME script \in Scripts, NEW c \in Clients
  PROVE  Len(script[c]) \in Nat
<1>1. script[c] \in Seq(Range(script[c]))
  BY ControlCommAssumption
<1>. QED BY <1>1, LenProperties

\* The kinds of the parts
LEMMA PartFacts ==
  ASSUME script \in Scripts, NEW c \in Clients, NEW i \in 1 .. Len(script[c]), NEW p \in Int
  PROVE  /\ p >= 1 => PartAt(c, i, p) \in PartSet
         /\ PartAt(c, i, p).kind = "head" <=> p = HeadAt(c, i)
         /\ PartAt(c, i, p).kind = "body" <=> p > HeadAt(c, i)
         /\ PartAt(c, i, p).i = i
<1>1. /\ Request(c, i).cut \in {"none", "start", "bit"} /\ HeadAt(c, i) \in {1, 2}
  BY RequestFacts
<1>2. Len(script[c]) \in Nat /\ i \in Nat
  BY ScriptLength
<1>. QED BY <1>1, <1>2 DEF PartAt, PartSet, PartKinds

\* The parts of a request are those that PartAt says.
LEMMA PartsFacts ==
  ASSUME script \in Scripts, NEW c \in Clients, NEW i \in 1 .. Len(script[c])
  PROVE  /\ Parts(c, i) \in Seq(PartSet) /\ Len(Parts(c, i)) = Size(c, i)
         /\ \A p \in 1 .. Size(c, i) : Parts(c, i)[p] = PartAt(c, i, p)
<1> DEFINE u == Request(c, i)
           Part(kind) == [kind |-> kind, i |-> i]
           first == IF u.cut = "none" THEN <<>> ELSE <<Part(u.cut)>>
           bodies == [n \in 1 .. u.body |-> Part("body")]
<1>1. /\ u.body \in Nat /\ u.cut \in {"none", "start", "bit"} /\ HeadAt(c, i) \in {1, 2}
      /\ Size(c, i) = HeadAt(c, i) + u.body
  BY RequestFacts
<1>2. Len(script[c]) \in Nat /\ i \in Nat
  BY ScriptLength
<1>3. Part("head") \in PartSet /\ Part("body") \in PartSet /\ Part(u.cut) \in PartSet
  BY <1>1, <1>2 DEF PartSet, PartKinds
<1>4. Parts(c, i) = (first \o <<Part("head")>>) \o bodies
  BY Zenon DEF Parts
<1>. HIDE DEF u, Part
<1>5. first \in Seq(PartSet) /\ Len(first) = HeadAt(c, i) - 1
  BY <1>1, <1>3 DEF HeadAt, u
<1>6. \A p \in 1 .. Len(first) : first[p] = Part(u.cut) /\ p = 1
  BY <1>1 DEF HeadAt, u
<1>7. bodies \in Seq(PartSet) /\ Len(bodies) = u.body /\ \A p \in 1 .. u.body : bodies[p] = Part("body")
  BY <1>1, <1>3
<1> DEFINE start == first \o <<Part("head")>>
<1>. HIDE DEF first, bodies
<1>8. /\ start \in Seq(PartSet) /\ Len(start) = HeadAt(c, i)
      /\ \A p \in 1 .. HeadAt(c, i) : start[p] = IF p = HeadAt(c, i) THEN Part("head") ELSE Part(u.cut)
  <2>1. <<Part("head")>> \in Seq(PartSet) /\ Len(<<Part("head")>>) = 1 /\ <<Part("head")>>[1] = Part("head")
    BY <1>3
  <2>2. /\ start \in Seq(PartSet) /\ Len(start) = Len(first) + 1
        /\ \A p \in 1 .. Len(first) + 1 :
              start[p] = IF p <= Len(first) THEN first[p] ELSE <<Part("head")>>[p - Len(first)]
    BY <1>5, <2>1, ConcatProperties
  <2>. QED BY <1>1, <1>5, <1>6, <2>1, <2>2
<1>. HIDE DEF start
<1>9. /\ Parts(c, i) \in Seq(PartSet) /\ Len(Parts(c, i)) = Len(start) + Len(bodies)
      /\ \A p \in 1 .. Len(start) + Len(bodies) :
            Parts(c, i)[p] = IF p <= Len(start) THEN start[p] ELSE bodies[p - Len(start)]
  <2>1. Parts(c, i) = start \o bodies
    BY <1>4 DEF start
  <2>2. start \in Seq(PartSet) /\ bodies \in Seq(PartSet)
    BY <1>7, <1>8
  <2>. QED BY <2>1, <2>2, ConcatProperties
<1>10. ASSUME NEW p \in 1 .. Size(c, i) PROVE Parts(c, i)[p] = PartAt(c, i, p)
  <2>1. CASE p < HeadAt(c, i)
    <3>1. Parts(c, i)[p] = Part(u.cut)
      BY <1>1, <1>7, <1>8, <1>9, <2>1
    <3>. QED BY <2>1, <3>1 DEF PartAt, Part, u
  <2>2. CASE p = HeadAt(c, i)
    <3>1. Parts(c, i)[p] = Part("head")
      BY <1>1, <1>7, <1>8, <1>9, <2>2
    <3>. QED BY <2>2, <3>1 DEF PartAt, Part
  <2>3. CASE p > HeadAt(c, i)
    <3>1. Parts(c, i)[p] = Part("body")
      <4>1. p \in 1 .. Len(start) + Len(bodies) /\ ~(p <= Len(start)) /\ p - Len(start) \in 1 .. u.body
        BY <1>1, <1>7, <1>8, <2>3
      <4>. QED BY <1>7, <1>9, <4>1
    <3>2. ~(p < HeadAt(c, i)) /\ p # HeadAt(c, i)
      BY <1>1, <2>3
    <3>. QED BY <3>1, <3>2 DEF PartAt, Part
  <2>. QED BY <1>1, <2>1, <2>2, <2>3
<1>. QED BY <1>1, <1>7, <1>8, <1>9, <1>10

-----------------------------------------------------------------------------
(* Connections *)

\* More of what the client sends is read.
ReadUpTo(k1, k, w, u, t) ==
    /\ ConnShape(k1)
    /\ k1.client = k.client /\ k1.state = k.state /\ k1.wr = k.wr /\ k1.keep = k.keep
    /\ k1.age = k.age /\ k1.lreq = k.lreq /\ k1.lb = k.lb
    /\ Len(k1.buf) = Len(k.buf) + t - u
    /\ \A x \in 1 .. Len(k.buf) : k1.buf[x] = k.buf[x]
    /\ \A x \in Len(k.buf) + 1 .. Len(k.buf) + t - u : k1.buf[x] = w[x - Len(k.buf) + u]
    /\ \A i : Whole(k, w, u, i) => Whole(k1, w, t, i)
LEMMA ReadOn ==
  ASSUME NEW k, ConnShape(k), NEW w \in Seq(PartSet), NEW u \in Nat, NEW t \in Nat, u <= t, t <= Len(w),
         NEW b, JoinedParts(b, k.buf, w, u, t), NEW k1, k1 = [k EXCEPT !.buf = b]
  PROVE  ReadUpTo(k1, k, w, u, t)
<1>1. /\ b \in Seq(PartSet) /\ Len(k.buf) \in Nat /\ Len(b) = Len(k.buf) + t - u
      /\ \A x \in 1 .. Len(k.buf) : b[x] = k.buf[x]
      /\ \A x \in Len(k.buf) + 1 .. Len(k.buf) + t - u : b[x] = w[x - Len(k.buf) + u]
  BY DEF JoinedParts
<1>2. k1 = [k EXCEPT !.buf = b]
  OBVIOUS
<1>3. /\ ConnShape(k1) /\ k1.buf = b
      /\ k1.client = k.client /\ k1.state = k.state /\ k1.wr = k.wr /\ k1.keep = k.keep
      /\ k1.age = k.age /\ k1.lreq = k.lreq /\ k1.lb = k.lb
  BY <1>1, <1>2 DEF ConnShape
<1>4. Len(w) \in Nat
  BY LenProperties
<1>5. ASSUME NEW i, Whole(k, w, u, i) PROVE Whole(k1, w, t, i)
  <2>1. /\ Len(k.buf) + Len(w) - u = Size(k.client, i)
        /\ \A p \in 1 .. Len(k.buf) : k.buf[p] = PartAt(k.client, i, p)
        /\ \A q \in u + 1 .. Len(w) : w[q] = PartAt(k.client, i, Len(k.buf) + q - u)
    BY <1>5 DEF Whole
  <2>2. Len(b) + Len(w) - t = Size(k.client, i)
    BY <1>1, <1>4, <2>1
  <2>3. ASSUME NEW p \in 1 .. Len(b) PROVE b[p] = PartAt(k.client, i, p)
    <3>1. CASE p <= Len(k.buf)
      <4>1. p \in 1 .. Len(k.buf)
        BY <1>1, <3>1
      <4>. QED BY <1>1, <2>1, <4>1
    <3>2. CASE ~(p <= Len(k.buf))
      <4>1. PICK q \in u + 1 .. Len(w) : q = p - Len(k.buf) + u
        BY <1>1, <1>4, <3>2
      <4>2. b[p] = w[q]
        <5>1. p \in Len(k.buf) + 1 .. Len(k.buf) + t - u
          BY <1>1, <3>2
        <5>2. b[p] = w[p - Len(k.buf) + u]
          BY <1>1, <5>1
        <5>. QED BY <4>1, <5>2
      <4>3. Len(k.buf) + q - u = p
        BY <1>1, <4>1
      <4>. QED BY <2>1, <4>2, <4>3
    <3>. QED BY <3>1, <3>2
  <2>4. ASSUME NEW q \in t + 1 .. Len(w) PROVE w[q] = PartAt(k.client, i, Len(b) + q - t)
    <3>1. PICK l \in Nat : l = Len(k.buf)
      BY <1>1
    <3>2. Len(b) = l + t - u
      BY <1>1, <3>1
    <3>3. q \in u + 1 .. Len(w) /\ q \in Int
      BY <1>4
    <3>4. Len(b) + q - t = Len(k.buf) + q - u
      <4>1. l \in Int /\ t \in Int /\ u \in Int /\ q \in Int
        BY <3>3
      <4>2. (l + t - u) + q - t = l + q - u
        BY <4>1
      <4>. QED BY <3>1, <3>2, <4>2
    <3>. QED BY <2>1, <3>3, <3>4, Zenon
  <2>. QED BY <1>3, <2>2, <2>3, <2>4 DEF Whole
<1>. QED BY <1>1, <1>3, <1>5, Zenon DEF ReadUpTo

\* The header is looked for in what has been read of a request.
LEMMA HeaderLookedFor ==
  ASSUME script \in Scripts, NEW k, ConnShape(k), NEW w \in Seq(PartSet), NEW u \in Nat, u <= Len(w),
         NEW s \in 1 .. Len(script[k.client]), NEW g, s = g + 1,
         k.state = "READ_HEADER", ~k.wr, k.age = 0, Len(k.buf) >= 1, Whole(k, w, u, s),
         NEW k1, k1 = CheckHeader(k)
  PROVE  /\ ConnShape(k1) /\ k1.client = k.client /\ Fits(k1, w, u, s, g)
         /\ k1.state \in {"READ_HEADER", "PARSE_HEADER", "WRITE"}
<1> DEFINE c == k.client
           heads == {n \in 1 .. Len(k.buf) : k.buf[n].kind = "head"}
<1>1. c \in Clients /\ k.buf \in Seq(PartSet) /\ Len(k.buf) \in Nat /\ HeadAt(c, s) \in {1, 2}
      /\ Len(w) \in Nat
  BY RequestFacts, LenProperties DEF ConnShape
<1>2. \A n \in 1 .. Len(k.buf) : /\ k.buf[n].kind = "head" <=> n = HeadAt(c, s)
                                 /\ k.buf[n].kind = "body" <=> n > HeadAt(c, s)
  <2>1. ASSUME NEW n \in 1 .. Len(k.buf)
        PROVE  /\ k.buf[n].kind = "head" <=> n = HeadAt(c, s)
               /\ k.buf[n].kind = "body" <=> n > HeadAt(c, s)
    <3>1. k.buf[n] = PartAt(c, s, n)
      BY DEF Whole
    <3>. QED BY <1>1, <3>1, PartFacts
  <2>. QED BY <2>1
<1>3. Head(k.buf) = k.buf[1] /\ Head(k.buf).kind # "body"
  BY <1>1, <1>2
<1>4. /\ ~k.wr /\ k.wr = FALSE
      /\ k = [client |-> k.client, state |-> k.state, wr |-> k.wr, keep |-> k.keep, age |-> k.age,
              buf |-> k.buf, lreq |-> k.lreq, lb |-> k.lb, answer |-> k.answer]
      /\ k.client \in Clients /\ k.keep \in BOOLEAN /\ k.lreq \in Nat /\ k.lb \in Nat
  BY DEF ConnShape
<1>5. CASE Len(k.buf) = 1 /\ Head(k.buf).kind = "start"
  <2>1. k1 = MkError(k, "400", FALSE)
    BY <1>5 DEF CheckHeader
  <2>2. k1 = [k EXCEPT !.state = "WRITE", !.keep = FALSE, !.answer = [status |-> "400", of |-> RequestOf(k)]]
    BY <2>1, <1>4 DEF MkError
  <2>3. /\ ConnShape(k1) /\ k1.client = k.client /\ k1.state = "WRITE" /\ k1.keep = FALSE
    BY <1>1, <1>4, <2>2 DEF ConnShape
  <2>. QED BY <2>3 DEF Fits, States, Asking
<1>6. CASE ~(Len(k.buf) = 1 /\ Head(k.buf).kind = "start") /\ Len(k.buf) < HeadAt(c, s)
  <2>1. heads = {}
    BY <1>1, <1>2, <1>6
  <2>2. k1 = k
    BY <1>3, <1>6, <2>1 DEF CheckHeader
  <2>3. Coming(k, w, u, s, g)
    BY <1>6 DEF Coming
  <2>. QED BY <2>2, <2>3 DEF Fits, States, Asking
<1>7. CASE ~(Len(k.buf) = 1 /\ Head(k.buf).kind = "start") /\ Len(k.buf) >= HeadAt(c, s)
  <2>1. heads = {HeadAt(c, s)}
    BY <1>1, <1>2, <1>7
  <2>2. Min({HeadAt(c, s)}) = HeadAt(c, s)
    BY <1>1 DEF Min
  <2>3. k1 = [k EXCEPT !.lreq = HeadAt(c, s), !.state = "PARSE_HEADER", !.lb = Len(k.buf) - HeadAt(c, s)]
    <3>1. Min(heads) = HeadAt(c, s) /\ heads # {}
      BY <2>1, <2>2
    <3>. QED BY <1>3, <1>7, <3>1 DEF CheckHeader
  <2>4. /\ ConnShape(k1) /\ k1.client = k.client /\ k1.state = "PARSE_HEADER" /\ k1.wr = FALSE /\ k1.age = 0
        /\ k1.lreq = HeadAt(c, s) /\ k1.lb = Len(k1.buf) - HeadAt(c, s) /\ k1.buf = k.buf
    <3>1. Len(k.buf) - HeadAt(c, s) \in Nat /\ HeadAt(c, s) \in Nat
      BY <1>1, <1>7
    <3>2. k1 = [client |-> k.client, state |-> "PARSE_HEADER", wr |-> k.wr, keep |-> k.keep, age |-> k.age,
                buf |-> k.buf, lreq |-> HeadAt(c, s), lb |-> Len(k.buf) - HeadAt(c, s), answer |-> k.answer]
      BY <1>4, <2>3
    <3>. QED BY <1>1, <1>4, <3>1, <3>2 DEF ConnShape
  <2>5. Begun(k1, w, u, s)
    BY <1>1, <1>7, <2>4 DEF Begun, Whole
  <2>. QED BY <2>4, <2>5 DEF Fits, States, Asking
<1>. QED BY <1>1, <1>5, <1>6, <1>7

\* A body is no request.
LEMMA BodyIsNoRequest ==
  ASSUME NEW k, ConnShape(k), k.state = "READ_HEADER", Len(k.buf) >= 1, k.buf[1].kind = "body",
         NEW k1, k1 = CheckHeader(k)
  PROVE  /\ ConnShape(k1) /\ k1.client = k.client /\ k1.state = "WRITE" /\ k1.keep = FALSE
         /\ \A w, u, s, g : Fits(k1, w, u, s, g)
<1>1. Head(k.buf) = k.buf[1]
  BY DEF ConnShape
<1>2. k1 = MkError(k, "400", FALSE)
  BY <1>1 DEF CheckHeader
<1>3. /\ ConnShape(k1) /\ k1.client = k.client /\ k1.state = "WRITE" /\ k1.keep = FALSE
  BY <1>2 DEF MkError, ConnShape
<1>4. \A w, u, s, g : Fits(k1, w, u, s, g)
  BY <1>3 DEF Fits, States, Asking
<1>. QED BY <1>3, <1>4

\* A body is complete when all of it has been read.
BodyRead(k, w, u, s) ==
    /\ Len(k.buf) - k.lreq <= Request(k.client, s).body /\ Len(k.buf) - k.lreq \in Nat
    /\ Request(k.client, s).body \in Nat
    /\ Len(k.buf) - k.lreq = Request(k.client, s).body <=> u = Len(w)
    /\ u < Len(w) => w[u + 1].kind = "body"
    /\ RequestOf(k) = s /\ Current(k) = Request(k.client, s)
LEMMA BodyComplete ==
  ASSUME script \in Scripts, NEW k, ConnShape(k), NEW w \in Seq(PartSet), NEW u \in Nat, u <= Len(w),
         NEW s \in 1 .. Len(script[k.client]), Begun(k, w, u, s)
  PROVE  BodyRead(k, w, u, s)
<1>1. k.client \in Clients /\ k.buf \in Seq(PartSet) /\ Len(k.buf) \in Nat /\ Len(w) \in Nat
  BY LenProperties DEF ConnShape
<1>2. /\ HeadAt(k.client, s) \in {1, 2} /\ Request(k.client, s).body \in Nat
      /\ Size(k.client, s) = HeadAt(k.client, s) + Request(k.client, s).body
  BY <1>1, RequestFacts
<1>3. /\ Len(k.buf) + Len(w) - u = Size(k.client, s) /\ k.lreq = HeadAt(k.client, s) /\ k.lreq <= Len(k.buf)
      /\ \A p \in 1 .. Len(k.buf) : k.buf[p] = PartAt(k.client, s, p)
      /\ \A q \in u + 1 .. Len(w) : w[q] = PartAt(k.client, s, Len(k.buf) + q - u)
  BY DEF Begun, Whole
<1>4. u < Len(w) => w[u + 1].kind = "body"
  <2>1. SUFFICES ASSUME u < Len(w) PROVE w[u + 1].kind = "body"
    OBVIOUS
  <2>2. w[u + 1] = PartAt(k.client, s, Len(k.buf) + 1)
    <3>1. PICK q \in u + 1 .. Len(w) : q = u + 1
      BY <1>1, <2>1
    <3>2. w[q] = PartAt(k.client, s, Len(k.buf) + q - u) /\ Len(k.buf) + q - u = Len(k.buf) + 1
      BY <1>1, <1>3, <3>1
    <3>. QED BY <3>1, <3>2
  <2>3. Len(k.buf) + 1 > HeadAt(k.client, s) /\ Len(k.buf) + 1 \in Int
    BY <1>1, <1>2, <1>3
  <2>. QED BY <1>1, <2>2, <2>3, PartFacts
<1>5. RequestOf(k) = s
  <2>1. k.lreq \in 1 .. Len(k.buf) /\ k.lreq # 0
    BY <1>1, <1>2, <1>3
  <2>2. k.buf[k.lreq] = PartAt(k.client, s, k.lreq)
    BY <1>3, <2>1
  <2>. QED BY <2>1, <2>2 DEF RequestOf, PartAt
<1>. QED BY <1>1, <1>2, <1>3, <1>4, <1>5 DEF Current, BodyRead

-----------------------------------------------------------------------------
(* A call for one connection *)

CallShape(s) ==
    /\ s.again \in BOOLEAN
    /\ s = [k |-> s.k, in |-> s.in, used |-> s.used, n |-> s.n, conns |-> s.conns, ret |-> s.ret,
            again |-> s.again, pass |-> s.pass, events |-> s.events, got |-> s.got, wire |-> s.wire]
\* What is known of a client and its requests
ClientOK(c) ==
    /\ script \in Scripts /\ c \in Clients /\ wire[c] \in Seq(PartSet)
    /\ sent[c] \in Nat /\ sent[c] <= Len(script[c]) /\ IsSeq(got[c])
    /\ c \in gone => sent[c] <= Len(got[c])
\* The parts that have come follow those that were read.
InOf(s, w) == \E t \in s.used .. Len(w) : s.in = SubSeq(w, s.used + 1, t)
CallOK(s, c) ==
    /\ CallShape(s) /\ ConnShape(s.k) /\ s.k.client = c
    /\ s.used \in 0 .. Len(wire[c]) /\ InOf(s, wire[c])
    /\ s.got = [d \in Clients |-> s.got[d]] /\ IsSeq(s.got[c]) /\ Len(got[c]) <= Len(s.got[c])
FitsNow(s, c) == Fits(s.k, wire[c], s.used, sent[c], Len(s.got[c]))
\* Nothing but the connection c has changed.
Beside(t, s, c) ==
    /\ t.conns = s.conns /\ t.wire = s.wire /\ t.again = s.again
    /\ \A d \in Clients \ {c} : t.got[d] = s.got[d]
Moved(t, s, c) ==
    CallOK(t, c) /\ FitsNow(t, c) /\ Beside(t, s, c) /\ t.events = s.events

LEMMA ClientFacts ==
  ASSUME NEW c, ClientOK(c)
  PROVE  /\ Len(wire[c]) \in Nat /\ Len(script[c]) \in Nat /\ Len(got[c]) \in Nat
         /\ sent[c] >= 1 => sent[c] \in 1 .. Len(script[c])
<1>1. Len(script[c]) \in Nat
  BY ScriptLength DEF ClientOK
<1>2. Len(got[c]) \in Nat
  BY IsSeqFacts DEF ClientOK
<1>3. Len(wire[c]) \in Nat
  BY LenProperties DEF ClientOK
<1>. QED BY <1>1, <1>2, <1>3 DEF ClientOK

\* What is known in a call
LEMMA CallFacts ==
  ASSUME NEW c, ClientOK(c), NEW s, CallOK(s, c)
  PROVE  /\ Len(s.got[c]) \in Nat /\ s.used \in Nat /\ s.used <= Len(wire[c]) /\ Len(s.k.buf) \in Nat
         /\ s.k.buf \in Seq(PartSet) /\ s.k.client = c
         /\ sent[c] = Len(s.got[c]) + 1 => sent[c] \in 1 .. Len(script[c]) /\ c \notin gone
<1>1. Len(s.got[c]) \in Nat
  BY IsSeqFacts DEF CallOK
<1>2. s.k.buf \in Seq(PartSet) /\ Len(s.k.buf) \in Nat
  BY LenProperties DEF CallOK, ConnShape
<1>3. /\ Len(wire[c]) \in Nat /\ Len(script[c]) \in Nat /\ Len(got[c]) \in Nat
      /\ sent[c] >= 1 => sent[c] \in 1 .. Len(script[c])
  BY ClientFacts
<1>4. s.used \in Nat /\ s.used <= Len(wire[c]) /\ s.k.client = c /\ Len(got[c]) <= Len(s.got[c])
  BY <1>3 DEF CallOK
<1>5. sent[c] \in Nat /\ (c \in gone => sent[c] <= Len(got[c]))
  BY DEF ClientOK
<1>. QED BY <1>1, <1>2, <1>3, <1>4, <1>5

\* Only the connection changes.
LEMMA ConnChanged ==
  ASSUME NEW c, NEW s, CallOK(s, c), NEW k1, ConnShape(k1), k1.client = c,
         NEW t, t = [s EXCEPT !.k = k1]
  PROVE  /\ CallOK(t, c) /\ t.k = k1 /\ Beside(t, s, c) /\ t.events = s.events /\ t.used = s.used /\ t.got = s.got
         /\ t.in = s.in /\ t.ret = s.ret
         /\ Fits(k1, wire[c], s.used, sent[c], Len(s.got[c])) => Moved(t, s, c)
<1>1. /\ t.k = k1 /\ t.in = s.in /\ t.used = s.used /\ t.n = s.n /\ t.conns = s.conns /\ t.ret = s.ret
      /\ t.again = s.again /\ t.pass = s.pass /\ t.events = s.events /\ t.got = s.got /\ t.wire = s.wire
      /\ CallShape(t)
  BY DEF CallOK, CallShape
<1>2. CallOK(t, c)
  BY <1>1 DEF CallOK, InOf
<1>3. Beside(t, s, c)
  BY <1>1 DEF Beside
<1>4. Fits(k1, wire[c], s.used, sent[c], Len(s.got[c])) => FitsNow(t, c)
  BY <1>1 DEF FitsNow
<1>. QED BY <1>1, <1>2, <1>3, <1>4 DEF Moved

LEMMA MkErrorIs ==
  ASSUME NEW k, ConnShape(k), NEW code, NEW ka \in BOOLEAN, NEW k1, k1 = MkError(k, code, ka)
  PROVE  /\ ConnShape(k1) /\ k1.client = k.client /\ k1.state = "WRITE" /\ k1.wr = k.wr /\ k1.age = k.age
         /\ k1.keep = (k.keep /\ ka) /\ k1.buf = k.buf /\ k1.lreq = k.lreq /\ k1.lb = k.lb
<1>1. k1 = [k EXCEPT !.state = "WRITE", !.keep = (k.keep /\ ka), !.answer = [status |-> code, of |-> RequestOf(k)]]
  BY DEF MkError
<1>2. (k.keep /\ ka) \in BOOLEAN
  OBVIOUS
<1>3. PICK kk \in BOOLEAN : kk = (k.keep /\ ka)
  BY <1>2
<1>4. k1 = [k EXCEPT !.state = "WRITE", !.keep = kk, !.answer = [status |-> code, of |-> RequestOf(k)]]
  BY <1>1, <1>3
<1>5. k1.keep = kk /\ ConnShape(k1) /\ k1.client = k.client /\ k1.state = "WRITE" /\ k1.wr = k.wr /\ k1.age = k.age
      /\ k1.buf = k.buf /\ k1.lreq = k.lreq /\ k1.lb = k.lb
  BY <1>4 DEF ConnShape
<1>. QED BY <1>3, <1>5

LEMMA MkHeaderIs ==
  ASSUME NEW k, ConnShape(k), NEW result, NEW k1, k1 = MkHeader(k, result)
  PROVE  /\ ConnShape(k1) /\ k1.client = k.client /\ k1.state = "WRITE" /\ k1.wr = k.wr /\ k1.age = k.age
         /\ k1.keep = k.keep /\ k1.buf = k.buf /\ k1.lreq = k.lreq /\ k1.lb = k.lb
BY DEF MkHeader, ConnShape

\* A closed connection fits.
LEMMA ClosedFits ==
  ASSUME NEW c, NEW s, CallOK(s, c), NEW t, t = Closed(s)
  PROVE  Moved(t, s, c) /\ t.k.state = "CLOSE"
<1>1. PICK k1 : k1 = [s.k EXCEPT !.state = "CLOSE"]
  OBVIOUS
<1>2. ConnShape(k1) /\ k1.client = c /\ k1.state = "CLOSE"
  BY <1>1 DEF CallOK, ConnShape
<1>3. t = [s EXCEPT !.k = k1]
  BY <1>1 DEF Closed
<1>4. Fits(k1, wire[c], s.used, sent[c], Len(s.got[c]))
  BY <1>2 DEF Fits, States, Asking
<1>. QED BY <1>2, <1>3, <1>4, ConnChanged

\* What has come is read.
LEMMA TakenIs ==
  ASSUME NEW c, ClientOK(c), NEW s, CallOK(s, c), NEW t, t = Taken(s)
  PROVE  /\ CallOK(t, c) /\ Beside(t, s, c) /\ t.events = s.events /\ t.got = s.got /\ t.in = <<>> /\ t.ret = s.ret
         /\ t.k.state = s.k.state /\ t.k.wr = s.k.wr /\ t.k.keep = s.k.keep /\ t.k.age = s.k.age
         /\ t.k.lreq = s.k.lreq /\ t.k.lb = s.k.lb
         /\ s.used <= t.used /\ Len(t.k.buf) = Len(s.k.buf) + t.used - s.used
         /\ s.in = <<>> <=> t.used = s.used
         /\ \A x \in 1 .. Len(s.k.buf) : t.k.buf[x] = s.k.buf[x]
         /\ \A x \in Len(s.k.buf) + 1 .. Len(s.k.buf) + t.used - s.used :
               t.k.buf[x] = wire[c][x - Len(s.k.buf) + s.used]
         /\ \A i : Whole(s.k, wire[c], s.used, i) => Whole(t.k, wire[c], t.used, i)
<1>1. PICK x \in s.used .. Len(wire[c]) : s.in = SubSeq(wire[c], s.used + 1, x)
  BY DEF CallOK, InOf
<1>2. /\ Len(s.got[c]) \in Nat /\ s.used \in Nat /\ s.used <= Len(wire[c]) /\ Len(s.k.buf) \in Nat
      /\ s.k.buf \in Seq(PartSet) /\ s.k.client = c
  BY CallFacts
<1>3. Len(wire[c]) \in Nat /\ wire[c] \in Seq(PartSet) /\ x \in Nat /\ s.used <= x /\ x <= Len(wire[c])
  BY <1>1, <1>2, ClientFacts DEF ClientOK
<1>4. PICK b : b = s.k.buf \o s.in
  OBVIOUS
<1>9. JoinedParts(b, s.k.buf, wire[c], s.used, x) /\ Len(s.in) = x - s.used /\ (s.in = <<>> <=> s.used = x)
  <2>1. ReadsOn(b, s.k.buf, s.in, wire[c], s.used, x)
    BY <1>1, <1>2, <1>3, <1>4, PartsJoined, Zenon
  <2>. QED BY <2>1, Zenon DEF ReadsOn
<1>10. PICK k1 : k1 = [s.k EXCEPT !.buf = b]
  OBVIOUS
<1>11. t = [s EXCEPT !.k = k1, !.used = x, !.in = <<>>]
  <2>1. s.used + Len(s.in) = x
    BY <1>2, <1>3, <1>9
  <2>2. t = [s EXCEPT !.k = [s.k EXCEPT !.buf = s.k.buf \o s.in], !.used = s.used + Len(s.in), !.in = <<>>]
    BY DEF Taken, CallOK, CallShape
  <2>3. t = [s EXCEPT !.k = k1, !.used = s.used + Len(s.in), !.in = <<>>]
    BY <1>4, <1>10, <2>2, Zenon
  <2>. QED BY <2>1, <2>3, Zenon
<1>12. /\ t.k = k1 /\ t.in = <<>> /\ t.used = x /\ t.n = s.n /\ t.conns = s.conns /\ t.ret = s.ret
       /\ t.again = s.again /\ t.pass = s.pass /\ t.events = s.events /\ t.got = s.got /\ t.wire = s.wire
       /\ CallShape(t)
  BY <1>11 DEF CallOK, CallShape
<1>13. /\ ConnShape(k1)
       /\ k1.client = s.k.client /\ k1.state = s.k.state /\ k1.wr = s.k.wr /\ k1.keep = s.k.keep
       /\ k1.age = s.k.age /\ k1.lreq = s.k.lreq /\ k1.lb = s.k.lb
       /\ Len(k1.buf) = Len(s.k.buf) + x - s.used
       /\ \A y \in 1 .. Len(s.k.buf) : k1.buf[y] = s.k.buf[y]
       /\ \A y \in Len(s.k.buf) + 1 .. Len(s.k.buf) + x - s.used : k1.buf[y] = wire[c][y - Len(s.k.buf) + s.used]
       /\ \A i : Whole(s.k, wire[c], s.used, i) => Whole(k1, wire[c], x, i)
  <2>1. JoinedParts(b, s.k.buf, wire[c], s.used, x) /\ ConnShape(s.k)
    BY <1>9, Zenon DEF CallOK
  <2>2. ReadUpTo(k1, s.k, wire[c], s.used, x)
    BY <1>2, <1>3, <1>10, <2>1, ReadOn, Zenon
  <2>. QED BY <2>2, Zenon DEF ReadUpTo
<1>14. InOf(t, wire[c])
  <2>1. SubSeq(wire[c], x + 1, x) = <<>>
    BY <1>3, SubSeqEmpty
  <2>2. x \in x .. Len(wire[c])
    BY <1>3
  <2>. QED BY <1>12, <2>1, <2>2, Zenon DEF InOf
<1>15. CallOK(t, c) /\ Beside(t, s, c)
  <2>1. x \in 0 .. Len(wire[c])
    BY <1>3
  <2>. QED BY <1>12, <1>13, <1>14, <2>1 DEF CallOK, Beside
<1>16. s.in = <<>> <=> t.used = s.used
  BY <1>9, <1>12
<1>. QED BY <1>3, <1>12, <1>13, <1>15, <1>16, Zenon

-----------------------------------------------------------------------------
(* Reading *)

LEMMA MovedOn ==
  ASSUME NEW c, NEW r, NEW s, NEW t, Beside(s, r, c), s.events = r.events, Moved(t, s, c)
  PROVE  Moved(t, r, c)
BY DEF Moved, Beside

\* read_header keeps what is known of a connection.
LEMMA ReadHeaderMoves ==
  ASSUME NEW c, ClientOK(c), NEW s, CallOK(s, c), s.k.state = "READ_HEADER", ~s.k.wr, s.k.age = 0,
         Coming(s.k, wire[c], s.used, sent[c], Len(s.got[c])), NEW t, t = ReadHeader(s)
  PROVE  Moved(t, s, c) /\ t.k.state \in {"READ_HEADER", "PARSE_HEADER", "WRITE", "CLOSE"}
<1>1. PICK g : g = Len(s.got[c])
  OBVIOUS
<1>2. PICK tk : tk = Taken(s)
  OBVIOUS
<1>3. PICK k1 : k1 = CheckHeader(tk.k)
  OBVIOUS
<1>4. PICK read : read = [tk EXCEPT !.k = k1]
  OBVIOUS
<1>5. t = IF s.in = <<>> THEN IF AtEnd(s) THEN Closed(s) ELSE s
          ELSE IF AtEnd(s) /\ read.k.state = "READ_HEADER" THEN Closed(read) ELSE read
  <2>1. read = [Taken(s) EXCEPT !.k = CheckHeader(@)]
    BY <1>2, <1>3, <1>4, Zenon
  <2>. QED BY <2>1, Zenon DEF ReadHeader
<1>6. /\ g \in Nat /\ s.used \in Nat /\ s.used <= Len(wire[c]) /\ Len(s.k.buf) \in Nat /\ s.k.client = c
      /\ sent[c] = g + 1 => sent[c] \in 1 .. Len(script[c])
      /\ Len(wire[c]) \in Nat /\ wire[c] \in Seq(PartSet)
  BY <1>1, CallFacts, ClientFacts DEF ClientOK
<1>7. /\ CallOK(tk, c) /\ Beside(tk, s, c) /\ tk.events = s.events /\ tk.got = s.got /\ tk.in = <<>>
      /\ tk.k.state = "READ_HEADER" /\ tk.k.wr = s.k.wr /\ tk.k.age = 0 /\ tk.k.client = c
      /\ s.used <= tk.used /\ Len(tk.k.buf) = Len(s.k.buf) + tk.used - s.used
      /\ s.in = <<>> <=> tk.used = s.used
      /\ \A x \in Len(s.k.buf) + 1 .. Len(s.k.buf) + tk.used - s.used :
            tk.k.buf[x] = wire[c][x - Len(s.k.buf) + s.used]
      /\ \A i : Whole(s.k, wire[c], s.used, i) => Whole(tk.k, wire[c], tk.used, i)
  <2>1. /\ CallOK(tk, c) /\ Beside(tk, s, c) /\ tk.events = s.events /\ tk.got = s.got /\ tk.in = <<>>
        /\ tk.k.state = s.k.state /\ tk.k.wr = s.k.wr /\ tk.k.age = s.k.age
        /\ s.used <= tk.used /\ Len(tk.k.buf) = Len(s.k.buf) + tk.used - s.used
        /\ s.in = <<>> <=> tk.used = s.used
    BY <1>2, TakenIs
  <2>2. tk.k.client = c
    BY <2>1 DEF CallOK
  <2>3. \A x \in Len(s.k.buf) + 1 .. Len(s.k.buf) + tk.used - s.used :
            tk.k.buf[x] = wire[c][x - Len(s.k.buf) + s.used]
    BY <1>2, TakenIs
  <2>4. \A i : Whole(s.k, wire[c], s.used, i) => Whole(tk.k, wire[c], tk.used, i)
    BY <1>2, TakenIs
  <2>. QED BY <2>1, <2>2, <2>3, <2>4, Zenon
<1>8. tk.used \in Nat /\ tk.used <= Len(wire[c]) /\ ConnShape(tk.k)
  BY <1>7, CallFacts DEF CallOK
<1>9. CASE s.in = <<>>
  <2>1. CASE AtEnd(s)
    <3>1. t = Closed(s)
      BY <1>5, <1>9, <2>1
    <3>. QED BY <3>1, ClosedFits
  <2>2. CASE ~AtEnd(s)
    <3>1. t = s
      BY <1>5, <1>9, <2>2
    <3>2. FitsNow(s, c)
      BY DEF FitsNow, Fits, States, Asking
    <3>3. Moved(s, s, c)
      BY <3>2 DEF Moved, Beside
    <3>. QED BY <3>1, <3>3
  <2>. QED BY <2>1, <2>2
<1>10. CASE s.in # <<>>
  <2>1. tk.used > s.used /\ Len(tk.k.buf) >= 1
    BY <1>6, <1>7, <1>8, <1>10
  <2>2. /\ ConnShape(k1) /\ k1.client = c /\ Fits(k1, wire[c], tk.used, sent[c], g)
        /\ k1.state \in {"READ_HEADER", "PARSE_HEADER", "WRITE"}
    <3>1. CASE sent[c] = g + 1 /\ Whole(s.k, wire[c], s.used, sent[c])
      <4>1. Whole(tk.k, wire[c], tk.used, sent[c]) /\ sent[c] \in 1 .. Len(script[tk.k.client])
        BY <1>6, <1>7, <3>1
      <4>2. script \in Scripts
        BY DEF ClientOK
      <4>. QED BY <1>3, <1>6, <1>7, <1>8, <2>1, <3>1, <4>1, <4>2, HeaderLookedFor
    <3>2. CASE s.k.buf = <<>> /\ Doomed(wire[c], s.used)
      <4>1. Len(s.k.buf) = 0
        BY <3>2
      <4>2. tk.k.buf[1] = wire[c][s.used + 1]
        <5>1. 1 \in Len(s.k.buf) + 1 .. Len(s.k.buf) + tk.used - s.used
          BY <1>6, <1>8, <2>1, <4>1
        <5>2. tk.k.buf[1] = wire[c][1 - Len(s.k.buf) + s.used]
          BY <1>7, <5>1
        <5>3. 1 - Len(s.k.buf) + s.used = s.used + 1
          BY <1>6, <4>1
        <5>. QED BY <5>2, <5>3
      <4>3. tk.k.buf[1].kind = "body"
        BY <3>2, <4>2 DEF Doomed
      <4>. QED BY <1>3, <1>7, <1>8, <2>1, <4>3, BodyIsNoRequest
    <3>3. ~(s.k.buf = <<>> /\ s.used = Len(wire[c]))
      BY <1>6, <1>8, <2>1
    <3>. QED BY <1>1, <3>1, <3>2, <3>3 DEF Coming
  <2>3. Moved(read, tk, c) /\ read.k = k1
    <3>1. g = Len(tk.got[c])
      BY <1>1, <1>7
    <3>. QED BY <1>4, <1>7, <2>2, <3>1, ConnChanged
  <2>4. Moved(read, s, c)
    BY <1>7, <2>3, MovedOn
  <2>5. CASE AtEnd(s) /\ read.k.state = "READ_HEADER"
    <3>1. t = Closed(read)
      BY <1>5, <1>10, <2>5
    <3>2. Moved(t, read, c) /\ t.k.state = "CLOSE"
      BY <2>3, <3>1, ClosedFits DEF Moved
    <3>3. Beside(read, s, c) /\ read.events = s.events
      BY <2>4 DEF Moved
    <3>. QED BY <3>2, <3>3, MovedOn
  <2>6. CASE ~(AtEnd(s) /\ read.k.state = "READ_HEADER")
    <3>1. t = read
      BY <1>5, <1>10, <2>6
    <3>. QED BY <2>2, <2>3, <2>4, <3>1
  <2>. QED BY <2>5, <2>6
<1>. QED BY <1>9, <1>10

\* Of a request whose header has been read, more or all of the body.
LEMMA ReadBodyDoes ==
  ASSUME NEW c, ClientOK(c), NEW s, CallOK(s, c), sent[c] = Len(s.got[c]) + 1,
         Begun(s.k, wire[c], s.used, sent[c]), NEW t, t = ReadBody(s)
  PROVE  /\ CallOK(t, c) /\ Beside(t, s, c) /\ t.events = s.events /\ t.got = s.got /\ t.ret = s.ret
         /\ Begun(t.k, wire[c], t.used, sent[c])
         /\ t.k.wr = s.k.wr /\ t.k.keep = s.k.keep /\ t.k.age = s.k.age
         /\ \/ /\ t.k.state = "PARSE_BODY" /\ t.used > s.used
               /\ t.used = Len(wire[c]) /\ t.k.lb = Len(t.k.buf) - t.k.lreq
            \/ /\ t.k.state = s.k.state /\ t.k.lb = s.k.lb
               /\ \/ Len(t.k.buf) = Len(s.k.buf) /\ t.used = s.used
                  \/ Len(t.k.buf) > Len(s.k.buf) /\ t.used < Len(wire[c])
<1>1. PICK tk : tk = Taken(s)
  OBVIOUS
<1>2. PICK body : body = Request(c, sent[c]).body
  OBVIOUS
<1>3. /\ s.used \in Nat /\ s.used <= Len(wire[c]) /\ Len(s.k.buf) \in Nat /\ s.k.client = c
      /\ sent[c] \in 1 .. Len(script[c]) /\ c \notin gone
      /\ Len(wire[c]) \in Nat /\ wire[c] \in Seq(PartSet) /\ script \in Scripts
  BY CallFacts, ClientFacts DEF ClientOK
<1>4. /\ CallOK(tk, c) /\ Beside(tk, s, c) /\ tk.events = s.events /\ tk.got = s.got /\ tk.in = <<>> /\ tk.ret = s.ret
      /\ tk.k.state = s.k.state /\ tk.k.wr = s.k.wr /\ tk.k.keep = s.k.keep /\ tk.k.age = s.k.age
      /\ tk.k.lreq = s.k.lreq /\ tk.k.lb = s.k.lb
      /\ s.used <= tk.used /\ Len(tk.k.buf) = Len(s.k.buf) + tk.used - s.used
      /\ s.in = <<>> <=> tk.used = s.used
      /\ Whole(s.k, wire[c], s.used, sent[c]) => Whole(tk.k, wire[c], tk.used, sent[c])
  BY <1>1, TakenIs
<1>5. tk.used \in Nat /\ tk.used <= Len(wire[c]) /\ ConnShape(tk.k) /\ tk.k.client = c /\ Len(tk.k.buf) \in Nat
  BY <1>4, CallFacts DEF CallOK
<1>6. Begun(tk.k, wire[c], tk.used, sent[c])
  <2>1. /\ Whole(s.k, wire[c], s.used, sent[c]) /\ s.k.lreq = HeadAt(s.k.client, sent[c])
        /\ s.k.lreq <= Len(s.k.buf) /\ s.k.lreq \in Nat
    BY DEF Begun, CallOK, ConnShape
  <2>2. s.k.lreq <= Len(tk.k.buf)
    BY <1>3, <1>4, <1>5, <2>1
  <2>. QED BY <1>3, <1>4, <1>5, <2>1, <2>2 DEF Begun
<1>7. Current(s.k) = Request(c, sent[c])
  <2>1. ConnShape(s.k)
    BY DEF CallOK
  <2>2. sent[c] \in 1 .. Len(script[s.k.client])
    BY <1>3
  <2>3. BodyRead(s.k, wire[c], s.used, sent[c])
    BY <1>3, <2>1, <2>2, BodyComplete, Zenon
  <2>. QED BY <1>3, <2>3 DEF BodyRead
<1>8. ~AtEnd(s)
  BY <1>3 DEF AtEnd
<1>9. t = IF s.in # <<>> /\ Len(tk.k.buf) - s.k.lreq = body
            THEN [tk EXCEPT !.k = [tk.k EXCEPT !.state = "PARSE_BODY", !.lb = body]] ELSE tk
  <2>1. CASE s.in # <<>> /\ Len(tk.k.buf) - s.k.lreq = body
    <3>1. t = [tk EXCEPT !.k.state = "PARSE_BODY", !.k.lb = body]
      BY <1>1, <1>2, <1>7, <2>1, Zenon DEF ReadBody
    <3>2. t = [tk EXCEPT !.k = [tk.k EXCEPT !.state = "PARSE_BODY", !.lb = body]]
      BY <1>4, <3>1 DEF CallOK, CallShape, ConnShape
    <3>. QED BY <2>1, <3>2
  <2>2. CASE ~(s.in # <<>> /\ Len(tk.k.buf) - s.k.lreq = body)
    <3>1. t = tk
      BY <1>1, <1>2, <1>7, <1>8, <2>2, Zenon DEF ReadBody
    <3>. QED BY <2>2, <3>1
  <2>. QED BY <2>1, <2>2
<1>10. /\ Len(tk.k.buf) - tk.k.lreq <= body /\ Len(tk.k.buf) - tk.k.lreq \in Nat /\ body \in Nat
       /\ Len(tk.k.buf) - tk.k.lreq = body <=> tk.used = Len(wire[c])
  <2>1. sent[c] \in 1 .. Len(script[tk.k.client]) /\ tk.k.client = c
    BY <1>3, <1>5
  <2>2. /\ Len(tk.k.buf) - tk.k.lreq <= Request(tk.k.client, sent[c]).body
        /\ Len(tk.k.buf) - tk.k.lreq \in Nat /\ Request(tk.k.client, sent[c]).body \in Nat
        /\ Len(tk.k.buf) - tk.k.lreq = Request(tk.k.client, sent[c]).body <=> tk.used = Len(wire[c])
    <3>1. BodyRead(tk.k, wire[c], tk.used, sent[c])
      BY <1>3, <1>5, <1>6, <2>1, BodyComplete, Zenon
    <3>. QED BY <3>1, Zenon DEF BodyRead
  <2>. QED BY <1>2, <2>1, <2>2
<1>11. CASE s.in # <<>> /\ Len(tk.k.buf) - s.k.lreq = body
  <2>1. PICK k1 : k1 = [tk.k EXCEPT !.state = "PARSE_BODY", !.lb = body]
    OBVIOUS
  <2>2. /\ ConnShape(k1) /\ k1.client = c /\ k1.state = "PARSE_BODY" /\ k1.lb = body /\ k1.buf = tk.k.buf
        /\ k1.wr = tk.k.wr /\ k1.keep = tk.k.keep /\ k1.age = tk.k.age /\ k1.lreq = tk.k.lreq
    BY <1>5, <1>10, <2>1 DEF ConnShape
  <2>3. t = [tk EXCEPT !.k = k1]
    BY <1>9, <1>11, <2>1
  <2>4. /\ CallOK(t, c) /\ t.k = k1 /\ Beside(t, tk, c) /\ t.events = tk.events /\ t.used = tk.used /\ t.got = tk.got
        /\ t.ret = tk.ret
    BY <1>4, <2>2, <2>3, ConnChanged
  <2>5. Begun(t.k, wire[c], t.used, sent[c])
    BY <1>5, <1>6, <2>2, <2>4 DEF Begun, Whole
  <2>6. Beside(t, s, c)
    BY <1>4, <2>4 DEF Beside
  <2>7. t.used = Len(wire[c]) /\ t.k.lb = Len(t.k.buf) - t.k.lreq /\ t.used > s.used
    <3>1. tk.used > s.used
      BY <1>3, <1>4, <1>5, <1>11
    <3>. QED BY <1>4, <1>10, <1>11, <2>2, <2>4, <3>1
  <2>. QED BY <1>4, <2>2, <2>4, <2>5, <2>6, <2>7
<1>12. CASE ~(s.in # <<>> /\ Len(tk.k.buf) - s.k.lreq = body)
  <2>1. t = tk
    BY <1>9, <1>12
  <2>2. CASE s.in = <<>>
    <3>1. tk.used = s.used /\ Len(tk.k.buf) = Len(s.k.buf)
      BY <1>3, <1>4, <2>2
    <3>. QED BY <1>4, <1>6, <2>1, <3>1
  <2>3. CASE s.in # <<>>
    <3>1. tk.used # Len(wire[c]) /\ tk.used > s.used
      BY <1>3, <1>4, <1>5, <1>10, <1>12, <2>3
    <3>2. tk.used < Len(wire[c]) /\ Len(tk.k.buf) > Len(s.k.buf)
      BY <1>3, <1>4, <1>5, <3>1
    <3>. QED BY <1>4, <1>6, <2>1, <3>2
  <2>. QED BY <2>2, <2>3
<1>. QED BY <1>11, <1>12

-----------------------------------------------------------------------------
(* A command *)

EventAdded(t, s, c) ==
    /\ IsSeq(t.events)
    /\ t.events = s.events \/ \E e : e # Timer /\ e.to = c /\ t.events = Append(s.events, e)
\* A pass has come so far.
Parsed(t, s, c) ==
    /\ CallOK(t, c) /\ FitsNow(t, c) /\ Beside(t, s, c) /\ EventAdded(t, s, c) /\ Asked(t.events, t.k)
    /\ t.k.state \in Asking => t.used = Len(wire[c])

LEMMA EventIsOne ==
  ASSUME NEW q, IsSeq(q), NEW k, NoEvent(q, k.client), NEW e, e # Timer, e.to = k.client, e.client = k.client,
         e.i = RequestOf(k)
  PROVE  OneEvent(Append(q, e), k)
<1>1. PICK n \in Nat : n = Len(q)
  BY IsSeqFacts
<1>2. PICK r : r = Append(q, e)
  OBVIOUS
<1>3. /\ DOMAIN q = 1 .. n /\ DOMAIN r = 1 .. n + 1 /\ r[n + 1] = e
      /\ \A m \in 1 .. n : r[m] = q[m]
  BY <1>1, <1>2, IsSeqFacts, AppendIsSeq
<1>4. \A m \in 1 .. n : q[m] # Timer => q[m].to # k.client
  BY <1>3 DEF NoEvent
<1>5. ASSUME NEW m \in DOMAIN r, r[m] # Timer, r[m].to = k.client PROVE m = n + 1
  <2>1. CASE m \in 1 .. n
    BY <1>3, <1>4, <1>5, <2>1
  <2>2. CASE m \notin 1 .. n
    BY <1>3, <2>2
  <2>. QED BY <2>1, <2>2
<1>6. n + 1 \in DOMAIN r
  BY <1>3
<1>7. OneEvent(r, k)
  BY <1>3, <1>5, <1>6, Zenon DEF OneEvent
<1>. QED BY <1>2, <1>7

NewEvent(k) == [type |-> Path(Current(k)), client |-> k.client, i |-> RequestOf(k), to |-> k.client]

\* The event is for the connection and its request.
LEMMA NewEventIs ==
  ASSUME NEW k, NEW e, e = NewEvent(k)
  PROVE  e # Timer /\ e.to = k.client /\ e.client = k.client /\ e.i = RequestOf(k)
<1>1. "client" \in DOMAIN e /\ "client" \notin DOMAIN Timer
  BY DEF NewEvent, Timer
<1>2. e # Timer
  BY <1>1
<1>. QED BY <1>2 DEF NewEvent

\* The four outcomes of CtrlComm::processCmd
LEMMA ProcessCmdCases ==
  ASSUME NEW s, CallShape(s), NEW t, t = ProcessCmd(s)
  PROVE  \/ t.again = TRUE /\ CallShape(t)
         \/ \E k1 : /\ t = [s EXCEPT !.k = k1]
                    /\ \/ k1 = MkHeader(s.k, "OK") \/ k1 = MkHeader(s.k, "Error")
                       \/ k1 = MkError(s.k, "404", TRUE)
         \/ t = [s EXCEPT !.ret = NewEvent(s.k), !.events = Append(s.events, NewEvent(s.k))]
<1> DEFINE u == Current(s.k)
           c == s.k.client
           new == NewEvent(s.k)
           again == [s.ret EXCEPT !.to = c]
           Same(e) == e # Timer /\ e.client = s.ret.client /\ e.i = s.ret.i
           page == [s EXCEPT !.k = MkHeader(s.k, "OK")]
           queue == Append([n \in DOMAIN s.events |-> IF Same(s.events[n]) THEN again ELSE s.events[n]], again)
           twice == [page EXCEPT !.ret = again, !.again = TRUE, !.events = queue]
<1>1. t = IF Path(u) \in Pages THEN IF s.ret = None THEN page ELSE twice
          ELSE IF Path(u) \notin Commands THEN [s EXCEPT !.k = MkError(s.k, "404", TRUE)]
          ELSE IF ~(HasParameter(s.k) /\ KnownInfo(u)) THEN [s EXCEPT !.k = MkHeader(s.k, "Error")]
          ELSE [s EXCEPT !.ret = new, !.events = Append(s.events, new)]
  BY Zenon DEF ProcessCmd, NewEvent
<1>2. CASE Path(u) \in Pages /\ s.ret = None
  <2>1. t = page
    BY <1>1, <1>2
  <2>. QED BY <2>1
<1>3. CASE Path(u) \in Pages /\ s.ret # None
  <2>1. t = twice
    BY <1>1, <1>3, Zenon
  <2>. HIDE DEF queue, again
  <2>2. t = [[s EXCEPT !.k = MkHeader(s.k, "OK")] EXCEPT !.ret = again, !.again = TRUE, !.events = queue]
    BY <2>1
  <2>3. t.again = TRUE /\ CallShape(t)
    BY <2>2 DEF CallShape
  <2>. QED BY <2>3
<1>4. CASE Path(u) \notin Pages /\ Path(u) \notin Commands
  BY <1>1, <1>4
<1>5. CASE Path(u) \notin Pages /\ Path(u) \in Commands /\ ~(HasParameter(s.k) /\ KnownInfo(u))
  BY <1>1, <1>5
<1>6. CASE Path(u) \notin Pages /\ Path(u) \in Commands /\ HasParameter(s.k) /\ KnownInfo(u)
  BY <1>1, <1>6
<1>. QED BY <1>2, <1>3, <1>4, <1>5, <1>6

\* A request that has been read can be executed.
Ready(s, c) ==
    /\ CallOK(s, c) /\ sent[c] = Len(s.got[c]) + 1 /\ Begun(s.k, wire[c], s.used, sent[c])
    /\ s.used = Len(wire[c]) /\ s.k.lb = Len(s.k.buf) - s.k.lreq /\ s.k.age = 0 /\ ~s.k.wr
    /\ s.k.state \in Asking /\ IsSeq(s.events) /\ NoEvent(s.events, c)

LEMMA AnswerFits ==
  ASSUME NEW c, ClientOK(c), NEW s, CallOK(s, c), sent[c] = Len(s.got[c]) + 1,
         IsSeq(s.events), NoEvent(s.events, c),
         NEW k1, ConnShape(k1), k1.client = c, k1.state = "WRITE", ~k1.wr, k1.keep => Left(k1, wire[c], s.used),
         NEW t, t = [s EXCEPT !.k = k1]
  PROVE  Parsed(t, s, c) /\ t.k.state = "WRITE"
<1>1. Fits(k1, wire[c], s.used, sent[c], Len(s.got[c]))
  BY DEF Fits, States, Asking
<1>2. /\ CallOK(t, c) /\ t.k = k1 /\ Beside(t, s, c) /\ t.events = s.events /\ Moved(t, s, c)
  BY <1>1, ConnChanged
<1>3. Asked(t.events, t.k) /\ k1.state \notin Asking
  BY <1>2 DEF Asked, Asking
<1>4. EventAdded(t, s, c)
  BY <1>2 DEF EventAdded
<1>. QED BY <1>2, <1>3, <1>4 DEF Parsed, Moved

\* processCmd answers, or one event is queued.
LEMMA ProcessCmdDoes ==
  ASSUME NEW c, ClientOK(c), NEW s, Ready(s, c), NEW t, t = ProcessCmd(s)
  PROVE  t.again \/ (Parsed(t, s, c) /\ t.k.state \in {s.k.state, "WRITE"})
<1>1. /\ CallOK(s, c) /\ CallShape(s) /\ ConnShape(s.k) /\ s.k.client = c
      /\ sent[c] = Len(s.got[c]) + 1 /\ Begun(s.k, wire[c], s.used, sent[c])
      /\ s.used = Len(wire[c]) /\ s.k.lb = Len(s.k.buf) - s.k.lreq /\ s.k.age = 0 /\ ~s.k.wr
      /\ s.k.state \in Asking /\ IsSeq(s.events) /\ NoEvent(s.events, c)
      /\ s.k.lreq \in Nat /\ Len(s.k.buf) \in Nat
  <2>1. CallOK(s, c)
    BY DEF Ready
  <2>2. Len(s.k.buf) \in Nat
    BY <2>1, CallFacts
  <2>. QED BY <2>1, <2>2 DEF Ready, CallOK, ConnShape
<1>2. Len(s.k.buf) = s.k.lreq + s.k.lb
  BY <1>1
<1>3. \/ t.again = TRUE
      \/ \E k1 : /\ t = [s EXCEPT !.k = k1]
                 /\ \/ k1 = MkHeader(s.k, "OK") \/ k1 = MkHeader(s.k, "Error")
                    \/ k1 = MkError(s.k, "404", TRUE)
      \/ t = [s EXCEPT !.ret = NewEvent(s.k), !.events = Append(s.events, NewEvent(s.k))]
  BY <1>1, ProcessCmdCases
<1>4. ASSUME NEW k1, t = [s EXCEPT !.k = k1],
             k1 = MkHeader(s.k, "OK") \/ k1 = MkHeader(s.k, "Error") \/ k1 = MkError(s.k, "404", TRUE)
      PROVE  Parsed(t, s, c) /\ t.k.state = "WRITE"
  <2>1. /\ ConnShape(k1) /\ k1.client = c /\ k1.state = "WRITE" /\ k1.wr = s.k.wr
        /\ k1.buf = s.k.buf /\ k1.lreq = s.k.lreq /\ k1.lb = s.k.lb
    <3>1. CASE k1 = MkError(s.k, "404", TRUE)
      <4>1. PICK ka \in BOOLEAN : ka = TRUE
        OBVIOUS
      <4>2. k1 = MkError(s.k, "404", ka)
        BY <3>1, <4>1, Zenon
      <4>. QED BY <1>1, <4>2, MkErrorIs
    <3>2. CASE k1 = MkHeader(s.k, "OK")
      BY <1>1, <3>2, MkHeaderIs
    <3>3. CASE k1 = MkHeader(s.k, "Error")
      BY <1>1, <3>3, MkHeaderIs
    <3>. QED BY <1>4, <3>1, <3>2, <3>3
  <2>2. Left(k1, wire[c], s.used) /\ ~k1.wr
    BY <1>1, <1>2, <2>1 DEF Left
  <2>. QED BY <1>1, <1>4, <2>1, <2>2, AnswerFits
<1>5. ASSUME t = [s EXCEPT !.ret = NewEvent(s.k), !.events = Append(s.events, NewEvent(s.k))]
      PROVE  Parsed(t, s, c) /\ t.k.state = s.k.state
  <2>1. PICK e : e = NewEvent(s.k)
    OBVIOUS
  <2>2. e # Timer /\ e.to = c /\ e.client = c /\ e.i = RequestOf(s.k)
    BY <1>1, <2>1, NewEventIs
  <2>3. PICK q : q = Append(s.events, e)
    OBVIOUS
  <2>4. t = [s EXCEPT !.ret = e, !.events = q]
    BY <1>5, <2>1, <2>3
  <2>5. /\ t.k = s.k /\ t.in = s.in /\ t.used = s.used /\ t.n = s.n /\ t.conns = s.conns
        /\ t.again = s.again /\ t.pass = s.pass /\ t.events = q /\ t.got = s.got /\ t.wire = s.wire
        /\ CallShape(t)
    BY <1>1, <2>4 DEF CallShape
  <2>6. CallOK(t, c) /\ Beside(t, s, c)
    BY <1>1, <2>5 DEF CallOK, InOf, Beside
  <2>7. FitsNow(t, c)
    <3>1. Fits(s.k, wire[c], s.used, sent[c], Len(s.got[c]))
      BY <1>1 DEF Fits, Asking, States
    <3>. QED BY <2>5, <3>1 DEF FitsNow
  <2>8. IsSeq(q) /\ OneEvent(q, s.k)
    <3>1. IsSeq(q)
      BY <1>1, <2>3, AppendIsSeq
    <3>2. OneEvent(q, s.k)
      BY <1>1, <2>2, <2>3, EventIsOne
    <3>. QED BY <3>1, <3>2
  <2>9. EventAdded(t, s, c)
    BY <2>2, <2>3, <2>5, <2>8, Zenon DEF EventAdded
  <2>10. Asked(t.events, t.k)
    BY <1>1, <2>5, <2>8 DEF Asked
  <2>. QED BY <1>1, <2>5, <2>6, <2>7, <2>9, <2>10 DEF Parsed
<1>. QED BY <1>3, <1>4, <1>5

\* After an operation that leaves the events alone
LEMMA ParsedOn ==
  ASSUME NEW c, NEW r, NEW s, NEW t, Beside(s, r, c), s.events = r.events, Parsed(t, s, c)
  PROVE  Parsed(t, r, c)
<1>1. Beside(t, r, c)
  BY DEF Parsed, Beside
<1>2. EventAdded(t, r, c)
  BY DEF Parsed, EventAdded
<1>. QED BY <1>1, <1>2 DEF Parsed

LEMMA ParseRequestDoes ==
  ASSUME NEW c, ClientOK(c), NEW s, CallOK(s, c), FitsNow(s, c), s.k.state = "PARSE_HEADER",
         IsSeq(s.events), NoEvent(s.events, c), NEW t, t = ParseRequest(s)
  PROVE  t.again \/ (Parsed(t, s, c) /\ t.k.state # "PARSE_BODY")
<1>1. PICK kk : kk = [s.k EXCEPT !.keep = TRUE]
  OBVIOUS
<1>2. PICK kept : kept = [s EXCEPT !.k = kk]
  OBVIOUS
<1>3. PICK read : read = ReadBody(kept)
  OBVIOUS
<1>4. PICK u : u = Current(s.k)
  OBVIOUS
<1>5. t = IF ~AccessCheck("User", u.user) THEN [kept EXCEPT !.k = MkError(kept.k, "401", TRUE)]
          ELSE IF u.get THEN ProcessCmd(read)
          ELSE IF read.k.lb < u.body THEN [read EXCEPT !.k.state = "READ_BODY"]
          ELSE ProcessCmd([read EXCEPT !.k.state = "PROCESS"])
  <2>1. kept = [s EXCEPT !.k.keep = TRUE]
    BY <1>1, <1>2
  <2>. QED BY <1>3, <1>4, <2>1, Zenon DEF ParseRequest
<1>6. /\ sent[c] = Len(s.got[c]) + 1 /\ Begun(s.k, wire[c], s.used, sent[c])
      /\ s.k.lb = Len(s.k.buf) - s.k.lreq /\ s.k.age = 0 /\ s.k.wr = FALSE /\ ConnShape(s.k) /\ s.k.client = c
      /\ s.k.lreq \in Nat
  BY DEF FitsNow, Fits, Asking, CallOK, ConnShape
<1>7. /\ s.used \in Nat /\ s.used <= Len(wire[c]) /\ Len(s.k.buf) \in Nat
      /\ sent[c] \in 1 .. Len(script[c]) /\ Len(s.got[c]) \in Nat
      /\ Len(wire[c]) \in Nat /\ wire[c] \in Seq(PartSet) /\ script \in Scripts
  BY <1>6, CallFacts, ClientFacts DEF ClientOK
<1>8. /\ Len(s.k.buf) - s.k.lreq <= u.body /\ Len(s.k.buf) - s.k.lreq \in Nat /\ u.body \in Nat
      /\ Len(s.k.buf) - s.k.lreq = u.body <=> s.used = Len(wire[c])
      /\ s.used < Len(wire[c]) => wire[c][s.used + 1].kind = "body"
      /\ u = Request(c, sent[c])
  <2>1. sent[c] \in 1 .. Len(script[s.k.client])
    BY <1>6, <1>7
  <2>2. /\ Len(s.k.buf) - s.k.lreq <= Request(s.k.client, sent[c]).body /\ Len(s.k.buf) - s.k.lreq \in Nat
        /\ Request(s.k.client, sent[c]).body \in Nat
        /\ Len(s.k.buf) - s.k.lreq = Request(s.k.client, sent[c]).body <=> s.used = Len(wire[c])
        /\ s.used < Len(wire[c]) => wire[c][s.used + 1].kind = "body"
        /\ Current(s.k) = Request(s.k.client, sent[c])
    <3>1. BodyRead(s.k, wire[c], s.used, sent[c])
      BY <1>6, <1>7, <2>1, BodyComplete, Zenon
    <3>. QED BY <3>1, Zenon DEF BodyRead
  <2>. QED BY <1>4, <1>6, <2>2, Zenon
<1>9. /\ ConnShape(kk) /\ kk.client = c /\ kk.state = "PARSE_HEADER" /\ kk.keep = TRUE /\ kk.age = 0
      /\ kk.wr = FALSE /\ kk.lb = s.k.lb /\ kk.lreq = s.k.lreq /\ kk.buf = s.k.buf
  BY <1>1, <1>6 DEF ConnShape
<1>10. /\ CallOK(kept, c) /\ kept.k = kk /\ Beside(kept, s, c) /\ kept.events = s.events
       /\ kept.used = s.used /\ kept.got = s.got
  BY <1>2, <1>9, ConnChanged
<1>11. Begun(kk, wire[c], s.used, sent[c])
  BY <1>6, <1>9 DEF Begun, Whole
<1>12. CASE ~AccessCheck("User", u.user)
  <2>1. PICK k1 : k1 = MkError(kk, "401", TRUE)
    OBVIOUS
  <2>2. t = [kept EXCEPT !.k = k1]
    BY <1>5, <1>10, <1>12, <2>1
  <2>3. ConnShape(k1) /\ k1.client = c /\ k1.state = "WRITE" /\ k1.wr = kk.wr /\ k1.buf = kk.buf /\ k1.lreq = kk.lreq
        /\ k1.lb = kk.lb
    <3>1. PICK ka \in BOOLEAN : ka = TRUE
      OBVIOUS
    <3>2. k1 = MkError(kk, "401", ka)
      BY <2>1, <3>1, Zenon
    <3>. QED BY <1>9, <3>2, MkErrorIs
  <2>4. Left(k1, wire[c], s.used)
    <3>1. Len(k1.buf) = k1.lreq + k1.lb
      BY <1>6, <1>7, <1>9, <2>3
    <3>2. s.used = Len(wire[c]) \/ Doomed(wire[c], s.used)
      BY <1>7, <1>8 DEF Doomed
    <3>. QED BY <3>1, <3>2 DEF Left
  <2>5. Parsed(t, kept, c) /\ t.k.state = "WRITE"
    BY <1>6, <1>9, <1>10, <2>2, <2>3, <2>4, AnswerFits
  <2>. QED BY <1>10, <2>5, ParsedOn
<1>13. CASE AccessCheck("User", u.user)
  <2>1. sent[c] = Len(kept.got[c]) + 1 /\ Begun(kept.k, wire[c], kept.used, sent[c])
    BY <1>6, <1>10, <1>11
  <2>2. /\ CallOK(read, c) /\ Beside(read, kept, c) /\ read.events = kept.events /\ read.got = kept.got
        /\ Begun(read.k, wire[c], read.used, sent[c])
        /\ read.k.wr = FALSE /\ read.k.age = 0
        /\ \/ /\ read.k.state = "PARSE_BODY" /\ read.used > s.used
              /\ read.used = Len(wire[c]) /\ read.k.lb = Len(read.k.buf) - read.k.lreq
           \/ /\ read.k.state = "PARSE_HEADER" /\ read.k.lb = s.k.lb
              /\ \/ Len(read.k.buf) = Len(s.k.buf) /\ read.used = s.used
                 \/ Len(read.k.buf) > Len(s.k.buf) /\ read.used < Len(wire[c])
    BY <1>3, <1>9, <1>10, <2>1, ReadBodyDoes
  <2>3. /\ read.used \in Nat /\ read.used <= Len(wire[c]) /\ Len(read.k.buf) \in Nat
        /\ ConnShape(read.k) /\ read.k.client = c /\ read.k.lreq = s.k.lreq
        /\ IsSeq(read.events) /\ NoEvent(read.events, c) /\ sent[c] = Len(read.got[c]) + 1
    <3>1. /\ read.used \in Nat /\ read.used <= Len(wire[c]) /\ Len(read.k.buf) \in Nat
      BY <2>2, CallFacts
    <3>2. ConnShape(read.k) /\ read.k.client = c
      BY <2>2 DEF CallOK
    <3>3. read.k.lreq = s.k.lreq
      BY <1>6, <2>2, <3>2 DEF Begun
    <3>. QED BY <1>10, <2>1, <2>2, <3>1, <3>2, <3>3
  <2>4. /\ Len(read.k.buf) - read.k.lreq <= u.body
        /\ Len(read.k.buf) - read.k.lreq = u.body <=> read.used = Len(wire[c])
    <3>1. sent[c] \in 1 .. Len(script[read.k.client])
      BY <1>7, <2>3
    <3>2. /\ Len(read.k.buf) - read.k.lreq <= Request(read.k.client, sent[c]).body
          /\ Len(read.k.buf) - read.k.lreq = Request(read.k.client, sent[c]).body <=> read.used = Len(wire[c])
      <4>1. BodyRead(read.k, wire[c], read.used, sent[c])
        BY <1>7, <2>2, <2>3, <3>1, BodyComplete, Zenon
      <4>. QED BY <4>1, Zenon DEF BodyRead
    <3>. QED BY <1>8, <2>3, <3>2
  \* The lengths, as numbers
  <2>a. PICK a \in Nat, b \in Nat, l \in Nat, d \in Nat :
           a = Len(read.k.buf) /\ b = Len(s.k.buf) /\ l = s.k.lreq /\ d = u.body
    BY <1>6, <1>7, <1>8, <2>3
  <2>b. /\ a - l <= d /\ (a - l = d <=> read.used = Len(wire[c]))
        /\ b - l <= d /\ (b - l = d <=> s.used = Len(wire[c])) /\ s.k.lb = b - l
    BY <1>6, <1>8, <2>3, <2>4, <2>a
  <2>c. \/ /\ read.k.state = "PARSE_BODY" /\ read.used > s.used
           /\ read.used = Len(wire[c]) /\ read.k.lb = a - l
        \/ /\ read.k.state = "PARSE_HEADER" /\ read.k.lb = b - l
           /\ \/ a = b /\ read.used = s.used
              \/ a > b /\ read.used < Len(wire[c])
    BY <2>2, <2>3, <2>a, <2>b
  <2>5. Beside(read, s, c) /\ read.events = s.events
    BY <1>10, <2>2 DEF Beside
  <2>6. CASE u.get
    <3>1. u.body = 0 /\ s.used = Len(wire[c])
      <4>1. u.get => u.body = 0
        <5>1. c \in Clients
          BY DEF ClientOK
        <5>. QED BY <1>7, <1>8, <5>1, RequestFacts
      <4>2. Len(s.k.buf) - s.k.lreq = u.body
        BY <1>8, <2>6, <4>1
      <4>. QED BY <1>8, <2>6, <4>1, <4>2
    <3>2. read.used = Len(wire[c])
      <4>1. CASE read.k.state = "PARSE_BODY"
        BY <2>2, <4>1
      <4>2. CASE Len(read.k.buf) = Len(s.k.buf) /\ read.used = s.used
        BY <3>1, <4>2
      <4>3. CASE Len(read.k.buf) > Len(s.k.buf) /\ read.used < Len(wire[c])
        BY <2>a, <2>b, <3>1, <4>3
      <4>. QED BY <2>2, <4>1, <4>2, <4>3
    <3>3. read.k.state = "PARSE_HEADER" /\ read.k.lb = Len(read.k.buf) - read.k.lreq
      <4>1. read.k.state # "PARSE_BODY"
        BY <1>7, <2>2, <2>3, <3>1
      <4>2. Len(read.k.buf) = Len(s.k.buf)
        BY <1>7, <2>2, <2>3, <3>2, <4>1
      <4>. QED BY <1>6, <2>2, <2>3, <4>1, <4>2
    <3>4. Ready(read, c)
      BY <2>2, <2>3, <3>2, <3>3 DEF Ready, Asking
    <3>5. t = ProcessCmd(read)
      BY <1>5, <1>13, <2>6
    <3>6. t.again \/ (Parsed(t, read, c) /\ t.k.state \in {read.k.state, "WRITE"})
      BY <3>4, <3>5, ProcessCmdDoes
    <3>. QED BY <2>5, <3>3, <3>6, ParsedOn
  <2>7. CASE ~u.get /\ read.k.lb < u.body
    <3>1. PICK k1 : k1 = [read.k EXCEPT !.state = "READ_BODY"]
      OBVIOUS
    <3>2. t = [read EXCEPT !.k = k1]
      BY <1>5, <1>13, <2>7, <3>1
    <3>3. /\ ConnShape(k1) /\ k1.client = c /\ k1.state = "READ_BODY" /\ k1.wr = FALSE /\ k1.buf = read.k.buf
          /\ k1.lreq = read.k.lreq
      BY <2>2, <2>3, <3>1 DEF ConnShape
    <3>4. Begun(k1, wire[c], read.used, sent[c])
      BY <2>2, <2>3, <3>3 DEF Begun, Whole
    <3>5. Len(k1.buf) - k1.lreq < u.body
      <4>1. read.k.lb < d
        BY <2>7, <2>a
      <4>2. read.used < Len(wire[c]) => a - l # d
        BY <1>7, <2>3, <2>b
      <4>3. a - l < d
        BY <2>a, <2>b, <2>c, <4>1, <4>2
      <4>. QED BY <2>3, <2>a, <3>3, <4>3
    <3>6. Fits(k1, wire[c], read.used, sent[c], Len(read.got[c]))
      BY <1>8, <2>3, <3>3, <3>4, <3>5 DEF Fits, States, Asking
    <3>7. Moved(t, read, c) /\ t.k = k1
      BY <2>2, <3>2, <3>3, <3>6, ConnChanged
    <3>8. Moved(t, s, c)
      BY <2>5, <3>7, MovedOn
    <3>9. EventAdded(t, s, c) /\ Asked(t.events, t.k) /\ t.k.state \notin Asking
      BY <3>3, <3>7, <3>8 DEF EventAdded, Asked, Moved, Asking
    <3>. QED BY <3>3, <3>7, <3>8, <3>9 DEF Parsed, Moved
  <2>8. CASE ~u.get /\ ~(read.k.lb < u.body)
    <3>1. PICK k1 : k1 = [read.k EXCEPT !.state = "PROCESS"]
      OBVIOUS
    <3>2. PICK r : r = [read EXCEPT !.k = k1]
      OBVIOUS
    <3>3. t = ProcessCmd(r)
      BY <1>5, <1>13, <2>8, <3>1, <3>2
    <3>4. /\ ConnShape(k1) /\ k1.client = c /\ k1.state = "PROCESS" /\ k1.wr = FALSE /\ k1.buf = read.k.buf
          /\ k1.lreq = read.k.lreq /\ k1.lb = read.k.lb /\ k1.age = 0
      BY <2>2, <2>3, <3>1 DEF ConnShape
    <3>5. Begun(k1, wire[c], read.used, sent[c])
      BY <2>2, <2>3, <3>4 DEF Begun, Whole
    <3>6. read.used = Len(wire[c]) /\ read.k.lb = Len(read.k.buf) - read.k.lreq
      <4>1. CASE read.k.state = "PARSE_BODY"
        BY <2>2, <4>1
      <4>2. CASE read.k.state # "PARSE_BODY"
        <5>1. read.k.lb = Len(s.k.buf) - s.k.lreq /\ Len(s.k.buf) - s.k.lreq = u.body /\ s.used = Len(wire[c])
          BY <1>6, <1>8, <2>2, <2>8, <4>2
        <5>2. ~(a > b)
          BY <2>a, <2>b, <5>1
        <5>3. a = b /\ read.used = s.used /\ read.k.lb = b - l
          BY <2>c, <4>2, <5>2
        <5>. QED BY <2>3, <2>a, <5>1, <5>3
      <4>. QED BY <4>1, <4>2
    <3>7. /\ CallOK(r, c) /\ r.k = k1 /\ Beside(r, read, c) /\ r.events = read.events /\ r.used = read.used
          /\ r.got = read.got
      BY <2>2, <3>2, <3>4, ConnChanged
    <3>8. Ready(r, c)
      BY <2>3, <3>4, <3>5, <3>6, <3>7 DEF Ready, Asking
    <3>9. t.again \/ (Parsed(t, r, c) /\ t.k.state \in {"PROCESS", "WRITE"})
      BY <3>3, <3>4, <3>7, <3>8, ProcessCmdDoes
    <3>10. Beside(r, s, c) /\ r.events = s.events
      BY <2>5, <3>7 DEF Beside
    <3>. QED BY <3>9, <3>10, ParsedOn
  <2>. QED BY <2>6, <2>7, <2>8
<1>. QED BY <1>12, <1>13

-----------------------------------------------------------------------------
(* An answer and what follows it *)

LEMMA WriteRequestDoes ==
  ASSUME NEW c, ClientOK(c), NEW s, CallOK(s, c), s.k.state = "WRITE",
         s.k.keep => sent[c] = Len(s.got[c]) + 1 /\ Left(s.k, wire[c], s.used),
         NEW t, t = WriteRequest(s, FALSE)
  PROVE  Moved(t, s, c) /\ t.k.state = "FINISHED"
<1>1. c \in Clients /\ ConnShape(s.k) /\ s.k.client = c /\ CallShape(s) /\ IsSeq(s.got[c])
      /\ s.got = [d \in Clients |-> s.got[d]] /\ Len(got[c]) <= Len(s.got[c])
      /\ Len(s.got[c]) \in Nat /\ Len(got[c]) \in Nat
  BY CallFacts, ClientFacts DEF CallOK, ClientOK
<1>2. PICK k1 : k1 = [s.k EXCEPT !.state = "FINISHED"]
  OBVIOUS
<1>3. PICK h : h = Append(s.got[c], s.k.answer)
  OBVIOUS
<1>4. PICK gs : gs = [s.got EXCEPT ![c] = h]
  OBVIOUS
<1>5. t = [s EXCEPT !.k = k1, !.got = gs]
  <2>1. t = [s EXCEPT !.k.state = "FINISHED", !.got[s.k.client] = Append(s.got[s.k.client], s.k.answer)]
    BY DEF WriteRequest
  <2>2. t = [s EXCEPT !.k = [s.k EXCEPT !.state = "FINISHED"], !.got = [s.got EXCEPT ![c] = h]]
    BY <1>1, <1>3, <2>1, Zenon
  <2>. QED BY <1>2, <1>4, <2>2, Zenon
<1>6. /\ t.k = k1 /\ t.in = s.in /\ t.used = s.used /\ t.n = s.n /\ t.conns = s.conns /\ t.ret = s.ret
      /\ t.again = s.again /\ t.pass = s.pass /\ t.events = s.events /\ t.got = gs /\ t.wire = s.wire
      /\ CallShape(t)
  BY <1>1, <1>5 DEF CallShape
<1>7. /\ ConnShape(k1) /\ k1.client = c /\ k1.state = "FINISHED" /\ k1.buf = s.k.buf /\ k1.lreq = s.k.lreq
      /\ k1.lb = s.k.lb /\ k1.keep = s.k.keep
  BY <1>1, <1>2 DEF ConnShape
<1>8. IsSeq(h) /\ Len(h) = Len(s.got[c]) + 1
  BY <1>1, <1>3, AppendIsSeq
<1>9. gs = [d \in Clients |-> gs[d]] /\ gs[c] = h /\ \A d \in Clients \ {c} : gs[d] = s.got[d]
  BY <1>1, <1>4
<1>10. Fits(k1, wire[c], s.used, sent[c], Len(h))
  <2>1. k1.keep => sent[c] = Len(h) /\ Left(k1, wire[c], s.used)
    BY <1>7, <1>8 DEF Left
  <2>. QED BY <1>7, <2>1 DEF Fits, States, Asking
<1>11. CallOK(t, c)
  <2>1. Len(got[c]) <= Len(h)
    BY <1>1, <1>8
  <2>2. InOf(t, wire[c]) /\ t.used \in 0 .. Len(wire[c])
    BY <1>6 DEF InOf, CallOK
  <2>. QED BY <1>6, <1>7, <1>8, <1>9, <2>1, <2>2, Zenon DEF CallOK
<1>12. FitsNow(t, c) /\ Beside(t, s, c)
  BY <1>6, <1>9, <1>10 DEF FitsNow, Beside
<1>. QED BY <1>6, <1>7, <1>11, <1>12 DEF Moved

\* After an answer the connection is closed, waits or looks at what is left.
LEMMA FinishDoes ==
  ASSUME NEW k, ConnShape(k), NEW w, NEW u, NEW s, NEW g, Fits(k, w, u, s, g), k.state = "FINISHED",
         NEW k1, k1 = Finish(k)
  PROVE  ConnShape(k1) /\ k1.client = k.client /\ Fits(k1, w, u, s, g) /\ k1.state \in {"KEEPALIVE", "CLOSE"}
<1> DEFINE rest == SubSeq(k.buf, k.lreq + k.lb + 1, Len(k.buf))
           reading == [k EXCEPT !.wr = FALSE, !.buf = rest, !.lreq = 0]
<1>1. k1 = IF ~k.keep THEN [k EXCEPT !.state = "CLOSE"]
           ELSE IF rest = <<>> THEN [reading EXCEPT !.state = "KEEPALIVE", !.lb = 0]
           ELSE CheckHeader([reading EXCEPT !.state = "READ_HEADER"])
  BY Zenon DEF Finish
<1>2. CASE ~k.keep
  <2>1. k1 = [k EXCEPT !.state = "CLOSE"]
    BY <1>1, <1>2
  <2>2. ConnShape(k1) /\ k1.client = k.client /\ k1.state = "CLOSE"
    BY <2>1 DEF ConnShape
  <2>. QED BY <2>2 DEF Fits, States, Asking
<1>3. CASE k.keep
  <2>1. s = g /\ Len(k.buf) = k.lreq + k.lb /\ (u = Len(w) \/ Doomed(w, u))
    BY <1>3 DEF Fits, Left
  <2>2. rest = <<>>
    <3>1. k.lreq + k.lb \in Nat
      BY DEF ConnShape
    <3>2. PICK m \in Nat : m = k.lreq + k.lb
      BY <3>1
    <3>3. m + 1 \in Int /\ m \in Int /\ m < m + 1
      OBVIOUS
    <3>4. SubSeq(k.buf, m + 1, m) = <<>>
      BY <3>3, SubSeqEmpty
    <3>. QED BY <2>1, <3>2, <3>4
  <2>. HIDE DEF rest
  <2>3. PICK b : b = rest
    OBVIOUS
  <2>4. k1 = [[k EXCEPT !.wr = FALSE, !.buf = b, !.lreq = 0] EXCEPT !.state = "KEEPALIVE", !.lb = 0]
    BY <1>1, <1>3, <2>2, <2>3
  <2>5. /\ k1 = [client |-> k.client, state |-> "KEEPALIVE", wr |-> FALSE, keep |-> k.keep, age |-> k.age,
                 buf |-> b, lreq |-> 0, lb |-> 0, answer |-> k.answer]
    BY <2>4 DEF ConnShape
  <2>6. b = <<>> /\ b \in Seq(PartSet)
    BY <2>2, <2>3
  <2>7. ConnShape(k1) /\ k1.client = k.client /\ k1.state = "KEEPALIVE" /\ k1.buf = <<>> /\ k1.wr = FALSE
    BY <2>5, <2>6 DEF ConnShape
  <2>8. Coming(k1, w, u, s, g)
    BY <2>1, <2>7 DEF Coming
  <2>. QED BY <2>7, <2>8 DEF Fits, States, Asking
<1>. QED BY <1>2, <1>3 DEF ConnShape

\* Before the passes: a command that is executed waits for that, and no other
\* has been given.
Opening(s, c) ==
    /\ CallOK(s, c) /\ FitsNow(s, c) /\ IsSeq(s.events)
    /\ IF s.k.state = "PROCESS" THEN OneEvent(s.events, s.k) ELSE NoEvent(s.events, c)
\* After a pass
Passed(t, s, c) ==
    Parsed(t, s, c) /\ t.k.state # "FINISHED" /\ (t.pass => t.k.state \in {"KEEPALIVE", "CLOSE"})

\* What was parsed and where the connection changes afterwards
LEMMA ParsedThen ==
  ASSUME NEW c, NEW s, NEW b, Parsed(b, s, c), NEW t, Moved(t, b, c), t.k.state \notin Asking,
         b.k.state \notin Asking
  PROVE  Parsed(t, s, c)
<1>1. Beside(t, s, c)
  BY DEF Moved, Parsed, Beside
<1>2. EventAdded(t, s, c)
  BY DEF Moved, Parsed, EventAdded
<1>3. b.k.client = c /\ t.k.client = c
  BY DEF Moved, Parsed, CallOK
<1>4. Asked(t.events, t.k)
  BY <1>3 DEF Moved, Parsed, Asked
<1>. QED BY <1>1, <1>2, <1>4 DEF Parsed, Moved

-----------------------------------------------------------------------------
(* Whatever happens in a call, it stays one, and that an event was queued    *)
(* twice is not forgotten.                                                   *)

StaysCall(t, s) == CallShape(t) /\ (s.again => t.again)
\* And no pass ends.
StaysAsIs(t, s) == StaysCall(t, s) /\ t.pass = s.pass

LEMMA ConnStaysCall ==
  ASSUME NEW s, CallShape(s), NEW x, NEW t, t = [s EXCEPT !.k = x]
  PROVE  StaysAsIs(t, s) /\ t.k = x
BY DEF CallShape, StaysAsIs, StaysCall

LEMMA ClosedStaysCall ==
  ASSUME NEW s, CallShape(s), NEW t, t = Closed(s)
  PROVE  StaysAsIs(t, s)
<1>1. t = [s EXCEPT !.k = [s.k EXCEPT !.state = "CLOSE"]]
  BY DEF Closed
<1>. QED BY <1>1, ConnStaysCall

LEMMA TakenStaysCall ==
  ASSUME NEW s, CallShape(s), NEW t, t = Taken(s)
  PROVE  StaysAsIs(t, s)
<1>1. t = [s EXCEPT !.k = [s.k EXCEPT !.buf = s.k.buf \o s.in], !.used = s.used + Len(s.in), !.in = <<>>]
  BY DEF Taken, CallShape
<1>2. PICK x, y : x = [s.k EXCEPT !.buf = s.k.buf \o s.in] /\ y = s.used + Len(s.in)
  OBVIOUS
<1>3. t = [s EXCEPT !.k = x, !.used = y, !.in = <<>>]
  BY <1>1, <1>2, Zenon
<1>. QED BY <1>3 DEF CallShape, StaysAsIs, StaysCall

LEMMA ReadHeaderStaysCall ==
  ASSUME NEW s, CallShape(s), NEW t, t = ReadHeader(s)
  PROVE  StaysAsIs(t, s)
<1>1. PICK tk : tk = Taken(s)
  OBVIOUS
<1>2. PICK read : read = [tk EXCEPT !.k = CheckHeader(tk.k)]
  OBVIOUS
<1>3. t = s \/ t = Closed(s) \/ t = Closed(read) \/ t = read
  <2>1. read = [Taken(s) EXCEPT !.k = CheckHeader(@)]
    BY <1>1, <1>2, Zenon
  <2>2. t = IF s.in = <<>> THEN IF AtEnd(s) THEN Closed(s) ELSE s
            ELSE IF AtEnd(s) /\ read.k.state = "READ_HEADER" THEN Closed(read) ELSE read
    BY <2>1, Zenon DEF ReadHeader
  <2>. QED BY <2>2, Zenon
<1>4. StaysAsIs(tk, s)
  BY <1>1, TakenStaysCall
<1>5. StaysAsIs(read, tk)
  BY <1>2, <1>4, ConnStaysCall DEF StaysAsIs, StaysCall
<1>6. StaysAsIs(read, s) /\ StaysAsIs(s, s)
  BY <1>4, <1>5 DEF StaysAsIs, StaysCall
<1>7. \A r : r = Closed(read) => StaysAsIs(r, s)
  BY <1>6, ClosedStaysCall DEF StaysAsIs, StaysCall
<1>8. \A r : r = Closed(s) => StaysAsIs(r, s)
  BY ClosedStaysCall
<1>. QED BY <1>3, <1>6, <1>7, <1>8, Zenon

LEMMA ReadBodyStaysCall ==
  ASSUME NEW s, CallShape(s), NEW t, t = ReadBody(s)
  PROVE  StaysAsIs(t, s)
<1>1. PICK tk : tk = Taken(s)
  OBVIOUS
<1>2. PICK body : body = Current(s.k).body
  OBVIOUS
<1>3. PICK full : full = [tk EXCEPT !.k.state = "PARSE_BODY", !.k.lb = body]
  OBVIOUS
<1>4. t = full \/ t = Closed(tk) \/ t = tk
  BY <1>1, <1>2, <1>3, Zenon DEF ReadBody
<1>5. StaysAsIs(tk, s)
  BY <1>1, TakenStaysCall
<1>6. StaysAsIs(full, s)
  <2>1. full = [tk EXCEPT !.k = [[tk.k EXCEPT !.state = "PARSE_BODY"] EXCEPT !.lb = body]]
    BY <1>3, <1>5 DEF StaysAsIs, StaysCall, CallShape
  <2>2. StaysAsIs(full, tk)
    BY <1>5, <2>1, ConnStaysCall DEF StaysAsIs, StaysCall
  <2>. QED BY <1>5, <2>2 DEF StaysAsIs, StaysCall
<1>7. \A r : r = Closed(tk) => StaysAsIs(r, s)
  BY <1>5, ClosedStaysCall DEF StaysAsIs, StaysCall
<1>. QED BY <1>4, <1>5, <1>6, <1>7, Zenon

LEMMA ProcessCmdStaysCall ==
  ASSUME NEW s, CallShape(s), NEW t, t = ProcessCmd(s)
  PROVE  StaysCall(t, s)
<1>1. \/ t.again = TRUE /\ CallShape(t)
      \/ \E k1 : t = [s EXCEPT !.k = k1]
      \/ \E e, q : t = [s EXCEPT !.ret = e, !.events = q]
  BY ProcessCmdCases
<1>2. CASE t.again = TRUE /\ CallShape(t)
  BY <1>2 DEF StaysAsIs, StaysCall
<1>3. ASSUME NEW k1, t = [s EXCEPT !.k = k1] PROVE StaysCall(t, s)
  BY <1>3, ConnStaysCall DEF StaysAsIs
<1>4. ASSUME NEW e, NEW q, t = [s EXCEPT !.ret = e, !.events = q] PROVE StaysCall(t, s)
  BY <1>4 DEF CallShape, StaysAsIs, StaysCall
<1>. QED BY <1>1, <1>2, <1>3, <1>4

LEMMA ParseRequestStaysCall ==
  ASSUME NEW s, CallShape(s), NEW t, t = ParseRequest(s)
  PROVE  StaysCall(t, s)
<1>1. PICK kept : kept = [s EXCEPT !.k = [s.k EXCEPT !.keep = TRUE]]
  OBVIOUS
<1>2. PICK read : read = ReadBody(kept)
  OBVIOUS
<1>3. \/ t = [kept EXCEPT !.k = MkError(kept.k, "401", TRUE)]
      \/ t = ProcessCmd(read)
      \/ t = [read EXCEPT !.k.state = "READ_BODY"]
      \/ t = ProcessCmd([read EXCEPT !.k.state = "PROCESS"])
  <2>1. kept = [s EXCEPT !.k.keep = TRUE]
    BY <1>1
  <2>. QED BY <1>2, <2>1, Zenon DEF ParseRequest
<1>4. StaysCall(kept, s)
  BY <1>1, ConnStaysCall DEF StaysAsIs
<1>5. StaysCall(read, s)
  BY <1>2, <1>4, ReadBodyStaysCall DEF StaysAsIs, StaysCall
<1>6. CASE t = [kept EXCEPT !.k = MkError(kept.k, "401", TRUE)]
  BY <1>4, <1>6, ConnStaysCall DEF StaysAsIs, StaysCall
<1>7. CASE t = ProcessCmd(read)
  BY <1>5, <1>7, ProcessCmdStaysCall DEF StaysAsIs, StaysCall
<1>8. CASE t = [read EXCEPT !.k.state = "READ_BODY"]
  <2>1. t = [read EXCEPT !.k = [read.k EXCEPT !.state = "READ_BODY"]]
    BY <1>8
  <2>. QED BY <1>5, <2>1, ConnStaysCall DEF StaysAsIs, StaysCall
<1>9. CASE t = ProcessCmd([read EXCEPT !.k.state = "PROCESS"])
  <2>1. PICK r : r = [read EXCEPT !.k.state = "PROCESS"]
    OBVIOUS
  <2>2. r = [read EXCEPT !.k = [read.k EXCEPT !.state = "PROCESS"]]
    BY <2>1
  <2>3. StaysCall(r, s)
    BY <1>5, <2>2, ConnStaysCall DEF StaysAsIs, StaysCall
  <2>. QED BY <1>9, <2>1, <2>3, ProcessCmdStaysCall DEF StaysAsIs, StaysCall
<1>. QED BY <1>3, <1>6, <1>7, <1>8, <1>9

LEMMA WriteRequestStaysCall ==
  ASSUME NEW s, CallShape(s), NEW full, NEW t, t = WriteRequest(s, full)
  PROVE  StaysAsIs(t, s)
<1>1. PICK x, y : /\ x = [s.k EXCEPT !.state = "FINISHED"]
                  /\ y = [s.got EXCEPT ![s.k.client] = Append(s.got[s.k.client], s.k.answer)]
  OBVIOUS
<1>2. t = s \/ t = [s EXCEPT !.k = x, !.got = y]
  <2>1. t = s \/ t = [s EXCEPT !.k.state = "FINISHED", !.got[s.k.client] = Append(@, s.k.answer)]
    BY Zenon DEF WriteRequest
  <2>2. [s EXCEPT !.k.state = "FINISHED", !.got[s.k.client] = Append(@, s.k.answer)]
           = [s EXCEPT !.k = [s.k EXCEPT !.state = "FINISHED"],
                       !.got = [s.got EXCEPT ![s.k.client] = Append(s.got[s.k.client], s.k.answer)]]
    OBVIOUS
  <2>. QED BY <1>1, <2>1, <2>2, Zenon
<1>3. CASE t = s
  BY <1>3 DEF StaysAsIs, StaysCall
<1>4. CASE t = [s EXCEPT !.k = x, !.got = y]
  BY <1>4 DEF CallShape, StaysAsIs, StaysCall
<1>. QED BY <1>2, <1>3, <1>4

LEMMA ParsingPassStaysCall ==
  ASSUME NEW s, CallShape(s), NEW full, NEW t, t = ParsingPass(s, full)
  PROVE  StaysCall(t, s)
<1>1. PICK parsed : parsed = IF s.k.state = "PARSE_HEADER" THEN ParseRequest(s) ELSE s
  OBVIOUS
<1>2. PICK body : body = IF parsed.k.state = "PARSE_BODY" THEN ProcessCmd(parsed) ELSE parsed
  OBVIOUS
<1>3. PICK wr : wr = [body EXCEPT !.k.wr = TRUE]
  OBVIOUS
<1>4. PICK written : written = IF body.k.state # "WRITE" THEN body ELSE WriteRequest(wr, full)
  OBVIOUS
<1>5. \/ t = s \/ t = [written EXCEPT !.k = Finish(written.k)] \/ t = [written EXCEPT !.pass = FALSE]
  BY <1>1, <1>2, <1>3, <1>4, Zenon DEF ParsingPass
<1>6. StaysCall(parsed, s)
  BY <1>1, ParseRequestStaysCall DEF StaysAsIs, StaysCall
<1>7. StaysCall(body, s)
  BY <1>2, <1>6, ProcessCmdStaysCall DEF StaysAsIs, StaysCall
<1>8. StaysCall(wr, s)
  <2>1. wr = [body EXCEPT !.k = [body.k EXCEPT !.wr = TRUE]]
    BY <1>3
  <2>. QED BY <1>7, <2>1, ConnStaysCall DEF StaysAsIs, StaysCall
<1>9. StaysCall(written, s)
  BY <1>4, <1>7, <1>8, WriteRequestStaysCall DEF StaysAsIs, StaysCall
<1>10. CASE t = s
  BY <1>10 DEF StaysAsIs, StaysCall
<1>11. CASE t = [written EXCEPT !.k = Finish(written.k)]
  BY <1>9, <1>11, ConnStaysCall DEF StaysAsIs, StaysCall
<1>12. CASE t = [written EXCEPT !.pass = FALSE]
  BY <1>9, <1>12 DEF CallShape, StaysAsIs, StaysCall
<1>. QED BY <1>5, <1>10, <1>11, <1>12

LEMMA IoStaysCall ==
  ASSUME NEW s, CallShape(s), NEW t, t = Io(s)
  PROVE  StaysAsIs(t, s)
<1>1. PICK x : x = IF s.k.state = "KEEPALIVE" THEN "READ_HEADER" ELSE s.k.state
  OBVIOUS
<1>2. PICK back : back = [s EXCEPT !.k = [[s.k EXCEPT !.age = 0] EXCEPT !.state = x]]
  OBVIOUS
<1>3. t = WriteRequest(back, FALSE) \/ t = ReadHeader(back) \/ t = ReadBody(back) \/ t = back
  <2>1. back = [s EXCEPT !.k.age = 0, !.k.state = IF @ = "KEEPALIVE" THEN "READ_HEADER" ELSE @]
    BY <1>1, <1>2 DEF CallShape
  <2>. QED BY <2>1 DEF Io
<1>4. StaysAsIs(back, s)
  BY <1>2, ConnStaysCall
<1>5. CASE t = WriteRequest(back, FALSE)
  <2>1. PICK full : full = FALSE
    OBVIOUS
  <2>2. t = WriteRequest(back, full)
    BY <1>5, <2>1, Zenon
  <2>. QED BY <1>4, <2>2, WriteRequestStaysCall DEF StaysAsIs, StaysCall
<1>6. CASE t = ReadHeader(back)
  BY <1>4, <1>6, ReadHeaderStaysCall DEF StaysAsIs, StaysCall
<1>7. CASE t = ReadBody(back)
  BY <1>4, <1>7, ReadBodyStaysCall DEF StaysAsIs, StaysCall
<1>8. CASE t = back
  BY <1>4, <1>8
<1>. QED BY <1>3, <1>5, <1>6, <1>7, <1>8

LEMMA CheckTimeoutsStaysCall ==
  ASSUME NEW s, CallShape(s), NEW t, t = CheckTimeouts(s)
  PROVE  StaysAsIs(t, s)
<1>1. t = [s EXCEPT !.k = MkError(s.k, "408", FALSE)] \/ t = Closed(s) \/ t = s
  BY Zenon DEF CheckTimeouts
<1>2. CASE t = [s EXCEPT !.k = MkError(s.k, "408", FALSE)]
  BY <1>2, ConnStaysCall
<1>3. CASE t = Closed(s)
  BY <1>3, ClosedStaysCall
<1>4. CASE t = s
  BY <1>4 DEF StaysAsIs, StaysCall
<1>. QED BY <1>1, <1>2, <1>3, <1>4

\* One pass keeps what is known of a connection.
LEMMA ParsingPassDoes ==
  ASSUME NEW c, ClientOK(c), NEW s, Opening(s, c), s.pass, NEW full \in BOOLEAN,
         NEW t, t = ParsingPass(s, full), ~t.again
  PROVE  Passed(t, s, c)
<1>1. PICK parsed : parsed = IF s.k.state = "PARSE_HEADER" THEN ParseRequest(s) ELSE s
  OBVIOUS
<1>2. PICK body : body = IF parsed.k.state = "PARSE_BODY" THEN ProcessCmd(parsed) ELSE parsed
  OBVIOUS
<1>3. PICK wr : wr = [body EXCEPT !.k.wr = TRUE]
  OBVIOUS
<1>4. PICK written : written = IF body.k.state # "WRITE" THEN body ELSE WriteRequest(wr, full)
  OBVIOUS
<1>5. t = IF written.k.state = "FINISHED" THEN [written EXCEPT !.k = Finish(written.k)]
          ELSE [written EXCEPT !.pass = FALSE]
  BY <1>1, <1>2, <1>3, <1>4, Zenon DEF ParsingPass
<1>6. CallOK(s, c) /\ FitsNow(s, c) /\ IsSeq(s.events) /\ s.k.client = c
  BY DEF Opening, CallOK
<1>7. ~parsed.again /\ ~body.again
  <2>1. CallShape(s)
    BY <1>6 DEF CallOK
  <2>2. StaysCall(parsed, s)
    BY <1>1, <2>1, ParseRequestStaysCall DEF StaysAsIs, StaysCall
  <2>3. StaysCall(body, parsed)
    BY <1>2, <2>2, ProcessCmdStaysCall DEF StaysAsIs, StaysCall
  <2>4. StaysCall(wr, body)
    <3>1. wr = [body EXCEPT !.k = [body.k EXCEPT !.wr = TRUE]]
      BY <1>3
    <3>. QED BY <2>3, <3>1, ConnStaysCall DEF StaysAsIs, StaysCall
  <2>5. StaysCall(written, body)
    BY <1>4, <2>3, <2>4, WriteRequestStaysCall DEF StaysAsIs, StaysCall
  <2>6. t.again = written.again
    <3>1. CallShape(written)
      BY <2>5 DEF StaysAsIs, StaysCall
    <3>. QED BY <1>5, <3>1 DEF CallShape
  <2>. QED BY <2>3, <2>5, <2>6 DEF StaysAsIs, StaysCall
<1>8. Parsed(body, s, c)
  <2>1. CASE s.k.state = "PARSE_HEADER"
    <3>1. NoEvent(s.events, c)
      BY <2>1 DEF Opening
    <3>2. parsed = ParseRequest(s)
      BY <1>1, <2>1
    <3>3. Parsed(parsed, s, c) /\ parsed.k.state # "PARSE_BODY"
      BY <1>6, <1>7, <2>1, <3>1, <3>2, ParseRequestDoes
    <3>. QED BY <1>2, <3>3
  <2>2. CASE s.k.state = "PARSE_BODY"
    <3>1. NoEvent(s.events, c) /\ parsed = s /\ body = ProcessCmd(s)
      BY <1>1, <1>2, <2>2 DEF Opening
    <3>2. Ready(s, c)
      BY <1>6, <2>2, <3>1 DEF Ready, FitsNow, Fits, Asking
    <3>. QED BY <1>7, <3>1, <3>2, ProcessCmdDoes
  <2>3. CASE s.k.state \notin {"PARSE_HEADER", "PARSE_BODY"}
    <3>1. body = s
      BY <1>1, <1>2, <2>3
    <3>2. Asked(s.events, s.k)
      <4>1. s.k.state \in Asking <=> s.k.state = "PROCESS"
        BY <2>3 DEF Asking
      <4>. QED BY <1>6, <4>1 DEF Asked, Opening
    <3>3. s.k.state \in Asking => s.used = Len(wire[c])
      BY <1>6, <2>3 DEF FitsNow, Fits, Asking
    <3>4. EventAdded(s, s, c) /\ Beside(s, s, c)
      BY <1>6 DEF EventAdded, Beside
    <3>. QED BY <1>6, <3>1, <3>2, <3>3, <3>4 DEF Parsed
  <2>. QED BY <2>1, <2>2, <2>3
<1>9. CallOK(body, c) /\ FitsNow(body, c) /\ ConnShape(body.k) /\ body.k.client = c /\ CallShape(body)
  BY <1>8 DEF Parsed, CallOK
<1>10. Parsed(written, s, c)
  <2>1. CASE body.k.state # "WRITE"
    BY <1>4, <1>8, <2>1
  <2>2. CASE body.k.state = "WRITE"
    <3>1. PICK k1 : k1 = [body.k EXCEPT !.wr = TRUE]
      OBVIOUS
    <3>2. /\ ConnShape(k1) /\ k1.client = c /\ k1.state = "WRITE" /\ k1.keep = body.k.keep
          /\ k1.buf = body.k.buf /\ k1.lreq = body.k.lreq /\ k1.lb = body.k.lb
      BY <1>9, <2>2, <3>1 DEF ConnShape
    <3>3. body.k.keep => sent[c] = Len(body.got[c]) + 1 /\ Left(body.k, wire[c], body.used)
      BY <1>9, <2>2 DEF FitsNow, Fits
    <3>4. k1.keep => sent[c] = Len(body.got[c]) + 1 /\ Left(k1, wire[c], body.used)
      BY <3>2, <3>3 DEF Left
    <3>5. Fits(k1, wire[c], body.used, sent[c], Len(body.got[c]))
      BY <3>2, <3>4 DEF Fits, States, Asking
    <3>6. wr = [body EXCEPT !.k = k1]
      BY <1>3, <3>1
    <3>7. /\ Moved(wr, body, c) /\ wr.k = k1 /\ wr.used = body.used /\ wr.got = body.got /\ CallOK(wr, c)
      BY <1>9, <3>2, <3>5, <3>6, ConnChanged
    <3>8. CASE full
      <4>1. written = wr
        BY <1>4, <2>2, <3>8 DEF WriteRequest
      <4>2. written.k.state \notin Asking /\ body.k.state \notin Asking
        BY <2>2, <3>2, <3>7, <4>1 DEF Asking
      <4>. QED BY <1>8, <3>7, <4>1, <4>2, ParsedThen
    <3>9. CASE ~full
      <4>1. written = WriteRequest(wr, FALSE)
        <5>1. full = FALSE
          BY <3>9
        <5>. QED BY <1>4, <2>2, <5>1, Zenon
      <4>2. Moved(written, wr, c) /\ written.k.state = "FINISHED"
        BY <3>2, <3>4, <3>7, <4>1, WriteRequestDoes
      <4>3. Beside(wr, body, c) /\ wr.events = body.events
        BY <3>7 DEF Moved
      <4>4. Moved(written, body, c)
        BY <4>2, <4>3, MovedOn
      <4>5. written.k.state \notin Asking /\ body.k.state \notin Asking
        BY <2>2, <4>2 DEF Asking
      <4>. QED BY <1>8, <4>4, <4>5, ParsedThen
    <3>. QED BY <3>8, <3>9
  <2>. QED BY <2>1, <2>2
<1>11. CallOK(written, c) /\ FitsNow(written, c) /\ ConnShape(written.k) /\ written.k.client = c /\ CallShape(written)
  BY <1>10 DEF Parsed, CallOK
<1>12. CASE written.k.state = "FINISHED"
  <2>1. PICK k1 : k1 = Finish(written.k)
    OBVIOUS
  <2>2. /\ ConnShape(k1) /\ k1.client = c /\ k1.state \in {"KEEPALIVE", "CLOSE"}
        /\ Fits(k1, wire[c], written.used, sent[c], Len(written.got[c]))
    BY <1>11, <1>12, <2>1, FinishDoes DEF FitsNow
  <2>3. t = [written EXCEPT !.k = k1]
    BY <1>5, <1>12, <2>1
  <2>4. Moved(t, written, c) /\ t.k = k1
    BY <1>11, <2>2, <2>3, ConnChanged
  <2>5. written.k.state \notin Asking /\ t.k.state \notin Asking
    BY <1>12, <2>2, <2>4 DEF Asking
  <2>6. Parsed(t, s, c)
    BY <1>10, <2>4, <2>5, ParsedThen
  <2>. QED BY <2>2, <2>4, <2>6 DEF Passed
<1>13. CASE written.k.state # "FINISHED"
  <2>1. t = [written EXCEPT !.pass = FALSE]
    BY <1>5, <1>13
  <2>2. /\ t.k = written.k /\ t.in = written.in /\ t.used = written.used /\ t.n = written.n /\ t.conns = written.conns
        /\ t.again = written.again /\ t.pass = FALSE /\ t.events = written.events /\ t.got = written.got
        /\ t.wire = written.wire /\ CallShape(t)
    BY <1>11, <2>1 DEF CallShape
  <2>3. CallOK(t, c) /\ FitsNow(t, c)
    BY <1>11, <2>2 DEF CallOK, InOf, FitsNow
  <2>4. Parsed(t, s, c)
    BY <1>10, <2>2, <2>3 DEF Parsed, Beside, EventAdded
  <2>. QED BY <1>13, <2>2, <2>4 DEF Passed
<1>. QED BY <1>12, <1>13

\* The passes after the first find nothing to do.
LEMMA NextPassDoes ==
  ASSUME NEW c, NEW s, NEW r, Passed(r, s, c), NEW full, NEW t, t = ParsingPass(r, full)
  PROVE  Passed(t, s, c)
<1>1. CASE ~r.pass
  BY <1>1 DEF ParsingPass
<1>2. CASE r.pass
  <2>1. r.k.state \in {"KEEPALIVE", "CLOSE"} /\ Parsed(r, s, c) /\ CallOK(r, c) /\ FitsNow(r, c) /\ CallShape(r)
    BY <1>2 DEF Passed, Parsed, CallOK
  <2>2. t = [r EXCEPT !.pass = FALSE]
    BY <1>2, <2>1 DEF ParsingPass
  <2>3. /\ t.k = r.k /\ t.in = r.in /\ t.used = r.used /\ t.n = r.n /\ t.conns = r.conns
        /\ t.again = r.again /\ t.pass = FALSE /\ t.events = r.events /\ t.got = r.got
        /\ t.wire = r.wire /\ CallShape(t)
    BY <2>1, <2>2 DEF CallShape
  <2>4. CallOK(t, c) /\ FitsNow(t, c)
    BY <2>1, <2>3 DEF CallOK, InOf, FitsNow
  <2>5. Parsed(t, s, c)
    BY <2>1, <2>3, <2>4 DEF Parsed, Beside, EventAdded
  <2>. QED BY <2>1, <2>3, <2>5 DEF Passed
<1>. QED BY <1>1, <1>2

-----------------------------------------------------------------------------
(* What select has reported, and the timeouts *)

LEMMA IoDoes ==
  ASSUME NEW c, ClientOK(c), NEW s, CallOK(s, c), FitsNow(s, c),
         s.k.state \in {"READ_HEADER", "KEEPALIVE", "READ_BODY", "WRITE"}, NEW t, t = Io(s)
  PROVE  Moved(t, s, c) /\ t.k.state # "PROCESS"
<1>1. PICK x : x = IF s.k.state = "KEEPALIVE" THEN "READ_HEADER" ELSE s.k.state
  OBVIOUS
<1>2. PICK k1 : k1 = [[s.k EXCEPT !.age = 0] EXCEPT !.state = x]
  OBVIOUS
<1>3. PICK back : back = [s EXCEPT !.k = k1]
  OBVIOUS
<1>4. CallShape(s) /\ ConnShape(s.k) /\ s.k.client = c
  BY DEF CallOK
<1>5. t = IF s.k.wr THEN WriteRequest(back, FALSE)
          ELSE CASE back.k.state = "READ_HEADER" -> ReadHeader(back)
                 [] back.k.state = "READ_BODY" -> ReadBody(back)
                 [] OTHER -> back
  <2>1. back = [s EXCEPT !.k.age = 0, !.k.state = IF @ = "KEEPALIVE" THEN "READ_HEADER" ELSE @]
    BY <1>1, <1>2, <1>3, <1>4 DEF CallShape
  <2>. QED BY <2>1 DEF Io
<1>6. /\ ConnShape(k1) /\ k1.client = c /\ k1.state = x /\ k1.age = 0 /\ k1.wr = s.k.wr /\ k1.keep = s.k.keep
      /\ k1.buf = s.k.buf /\ k1.lreq = s.k.lreq /\ k1.lb = s.k.lb
  BY <1>2, <1>4 DEF ConnShape
<1>7. /\ CallOK(back, c) /\ back.k = k1 /\ Beside(back, s, c) /\ back.events = s.events /\ back.used = s.used
      /\ back.got = s.got
      /\ Fits(k1, wire[c], s.used, sent[c], Len(s.got[c])) => Moved(back, s, c)
  BY <1>3, <1>6, ConnChanged
<1>8. s.k.wr => s.k.state = "WRITE"
  BY DEF FitsNow, Fits
<1>9. CASE s.k.wr
  <2>1. t = WriteRequest(back, FALSE) /\ s.k.state = "WRITE" /\ back.k.state = "WRITE"
    BY <1>1, <1>5, <1>6, <1>7, <1>8, <1>9
  <2>2. back.k.keep => sent[c] = Len(back.got[c]) + 1 /\ Left(back.k, wire[c], back.used)
    <3>1. s.k.keep => sent[c] = Len(s.got[c]) + 1 /\ Left(s.k, wire[c], s.used)
      BY <2>1 DEF FitsNow, Fits
    <3>. QED BY <1>6, <1>7, <3>1 DEF Left
  <2>3. Moved(t, back, c) /\ t.k.state = "FINISHED"
    BY <1>7, <2>1, <2>2, WriteRequestDoes
  <2>. QED BY <1>7, <2>3, MovedOn
<1>10. CASE ~s.k.wr /\ s.k.state \in {"READ_HEADER", "KEEPALIVE"}
  <2>1. back.k.state = "READ_HEADER" /\ ~back.k.wr /\ back.k.age = 0
    BY <1>1, <1>6, <1>7, <1>10
  <2>2. t = ReadHeader(back)
    BY <1>5, <1>10, <2>1
  <2>3. Coming(s.k, wire[c], s.used, sent[c], Len(s.got[c]))
    BY <1>10 DEF FitsNow, Fits
  <2>4. Coming(back.k, wire[c], back.used, sent[c], Len(back.got[c]))
    BY <1>4, <1>6, <1>7, <2>3 DEF Coming, Whole
  <2>5. Moved(t, back, c) /\ t.k.state \in {"READ_HEADER", "PARSE_HEADER", "WRITE", "CLOSE"}
    BY <1>7, <2>1, <2>2, <2>4, ReadHeaderMoves
  <2>. QED BY <1>7, <2>5, MovedOn
<1>11. CASE ~s.k.wr /\ s.k.state = "READ_BODY"
  <2>1. back.k.state = "READ_BODY" /\ ~back.k.wr /\ back.k.age = 0
    BY <1>1, <1>6, <1>7, <1>11
  <2>2. t = ReadBody(back)
    BY <1>5, <1>11, <2>1
  <2>3. /\ sent[c] = Len(s.got[c]) + 1 /\ Begun(s.k, wire[c], s.used, sent[c])
        /\ Len(s.k.buf) - s.k.lreq < Request(c, sent[c]).body
    BY <1>4, <1>11 DEF FitsNow, Fits
  <2>4. Begun(back.k, wire[c], back.used, sent[c]) /\ sent[c] = Len(back.got[c]) + 1
    BY <1>4, <1>6, <1>7, <2>3 DEF Begun, Whole
  <2>5. /\ CallOK(t, c) /\ Beside(t, back, c) /\ t.events = back.events /\ t.got = back.got
        /\ Begun(t.k, wire[c], t.used, sent[c])
        /\ t.k.wr = back.k.wr /\ t.k.age = back.k.age
        /\ \/ /\ t.k.state = "PARSE_BODY" /\ t.used > back.used
              /\ t.used = Len(wire[c]) /\ t.k.lb = Len(t.k.buf) - t.k.lreq
           \/ /\ t.k.state = back.k.state /\ t.k.lb = back.k.lb
              /\ \/ Len(t.k.buf) = Len(back.k.buf) /\ t.used = back.used
                 \/ Len(t.k.buf) > Len(back.k.buf) /\ t.used < Len(wire[c])
    <3>1. /\ CallOK(t, c) /\ Beside(t, back, c) /\ t.events = back.events /\ t.got = back.got
          /\ Begun(t.k, wire[c], t.used, sent[c])
          /\ t.k.wr = back.k.wr /\ t.k.age = back.k.age
      BY <1>7, <2>2, <2>4, ReadBodyDoes
    <3>2. \/ /\ t.k.state = "PARSE_BODY" /\ t.used > back.used
             /\ t.used = Len(wire[c]) /\ t.k.lb = Len(t.k.buf) - t.k.lreq
          \/ /\ t.k.state = back.k.state /\ t.k.lb = back.k.lb
             /\ \/ Len(t.k.buf) = Len(back.k.buf) /\ t.used = back.used
                \/ Len(t.k.buf) > Len(back.k.buf) /\ t.used < Len(wire[c])
      BY <1>7, <2>2, <2>4, ReadBodyDoes
    <3>. QED BY <3>1, <3>2
  <2>6. t.k.client = c /\ sent[c] = Len(t.got[c]) + 1
    BY <2>4, <2>5 DEF CallOK
  <2>7. FitsNow(t, c)
    <3>1. CASE t.k.state = "PARSE_BODY"
      BY <2>1, <2>5, <2>6, <3>1 DEF FitsNow, Fits, States, Asking
    <3>2. CASE t.k.state # "PARSE_BODY"
      <4>1. t.k.state = "READ_BODY"
        BY <2>1, <2>5, <3>2
      <4>2. Len(t.k.buf) - t.k.lreq < Request(c, sent[c]).body
        <5>1. t.k.lreq = HeadAt(c, sent[c]) /\ s.k.lreq = HeadAt(c, sent[c])
          BY <1>4, <2>3, <2>5, <2>6 DEF Begun
        <5>2. CASE Len(t.k.buf) = Len(back.k.buf)
          BY <1>6, <1>7, <2>3, <5>1, <5>2
        <5>3. CASE t.used < Len(wire[c])
          <6>1. sent[c] \in 1 .. Len(script[c]) /\ script \in Scripts /\ c \in Clients
            BY <2>5, <2>6, CallFacts DEF ClientOK
          <6>2. /\ Size(c, sent[c]) = HeadAt(c, sent[c]) + Request(c, sent[c]).body
                /\ HeadAt(c, sent[c]) \in {1, 2} /\ Request(c, sent[c]).body \in Nat
            BY <6>1, RequestFacts
          <6>3. Len(t.k.buf) \in Nat /\ t.used \in Nat /\ Len(wire[c]) \in Nat
            BY <2>5, CallFacts, ClientFacts
          <6>4. Len(t.k.buf) + Len(wire[c]) - t.used = Size(c, sent[c])
            BY <2>5, <2>6 DEF Begun, Whole
          <6>. QED BY <5>1, <5>3, <6>2, <6>3, <6>4
        <5>. QED BY <2>5, <3>2, <5>2, <5>3
      <4>. QED BY <2>1, <2>5, <2>6, <4>1, <4>2 DEF FitsNow, Fits, States, Asking
    <3>. QED BY <3>1, <3>2
  <2>8. Moved(t, back, c)
    BY <2>5, <2>7 DEF Moved
  <2>. QED BY <1>7, <2>1, <2>5, <2>8, MovedOn
<1>12. CASE ~s.k.wr /\ s.k.state = "WRITE"
  <2>1. t = back /\ back.k.state = "WRITE"
    BY <1>1, <1>5, <1>6, <1>7, <1>12
  <2>2. Fits(k1, wire[c], s.used, sent[c], Len(s.got[c]))
    BY <1>1, <1>6, <1>12 DEF FitsNow, Fits, Left, States, Asking
  <2>. QED BY <1>7, <2>1, <2>2
<1>. QED BY <1>9, <1>10, <1>11, <1>12

\* Timeouts close connections or answer; none that is asking has aged.
LEMMA CheckTimeoutsDoes ==
  ASSUME NEW c, ClientOK(c), NEW s, CallOK(s, c), FitsNow(s, c), NEW t, t = CheckTimeouts(s)
  PROVE  /\ Moved(t, s, c) /\ (s.k.state \in Asking => t = s)
         /\ t.k.state \in {s.k.state, "WRITE", "CLOSE"}
<1> DEFINE k == s.k
           kept == k.state = "KEEPALIVE" /\ (k.age > KeepaliveTime \/ s.n > (MaxConn * 9) \div 10)
           late == k.state # "KEEPALIVE" /\ k.age > Timeout
<1>1. t = IF late /\ k.state \in {"READ_HEADER", "READ_BODY"} THEN [s EXCEPT !.k = MkError(s.k, "408", FALSE)]
          ELSE IF kept \/ late THEN Closed(s) ELSE s
  BY Zenon DEF CheckTimeouts
<1>2. s.k.state \in Asking => ~late /\ ~kept
  <2>1. s.k.state \in Asking => s.k.age = 0 /\ s.k.state # "KEEPALIVE"
    BY DEF FitsNow, Fits, Asking
  <2>2. Timeout \in Nat \ {0}
    BY ControlCommAssumption
  <2>. QED BY <2>1, <2>2
<1>3. CASE late /\ k.state \in {"READ_HEADER", "READ_BODY"}
  <2>1. PICK ka \in BOOLEAN : ka = FALSE
    OBVIOUS
  <2>2. PICK k1 : k1 = MkError(s.k, "408", ka)
    OBVIOUS
  <2>3. t = [s EXCEPT !.k = k1]
    <3>1. t = [s EXCEPT !.k = MkError(s.k, "408", FALSE)]
      BY <1>1, <1>3
    <3>. QED BY <2>1, <2>2, <3>1, Zenon
  <2>4. ConnShape(s.k) /\ s.k.client = c
    BY DEF CallOK
  <2>5. ConnShape(k1) /\ k1.client = c /\ k1.state = "WRITE" /\ k1.wr = s.k.wr /\ k1.keep = (s.k.keep /\ ka)
    BY <2>2, <2>4, MkErrorIs
  <2>6. ~k1.keep
    BY <2>1, <2>5, Zenon
  <2>7. Fits(k1, wire[c], s.used, sent[c], Len(s.got[c]))
    BY <2>5, <2>6 DEF Fits, States, Asking
  <2>8. Moved(t, s, c) /\ t.k = k1
    BY <2>3, <2>4, <2>5, <2>7, ConnChanged
  <2>. QED BY <1>2, <1>3, <2>5, <2>8
<1>4. CASE ~(late /\ k.state \in {"READ_HEADER", "READ_BODY"}) /\ (kept \/ late)
  <2>1. t = Closed(s)
    BY <1>1, <1>4
  <2>. QED BY <1>2, <1>4, <2>1, ClosedFits
<1>5. CASE ~(late /\ k.state \in {"READ_HEADER", "READ_BODY"}) /\ ~(kept \/ late)
  <2>1. t = s
    BY <1>1, <1>5
  <2>. QED BY <2>1 DEF Moved, Beside
<1>. QED BY <1>3, <1>4, <1>5

-----------------------------------------------------------------------------
(* The folds: a call's passes over a connection, and the connections *)

\* What each fold does at its place k
Step(kind, a, x, k) ==
    IF kind = "pass" THEN ParsingPass(x, a) ELSE HandleConn(x, a[1][k], a[2])

LEMMA SetInduction ==
  ASSUME NEW S \in SUBSET Nat, 0 \in S, \A n \in S : n + 1 \in S
  PROVE  Nat \subseteq S
<1>. SUFFICES ASSUME Nat \ S # {} PROVE FALSE
  OBVIOUS
<1> DEFINE R == OpToRel(<, Nat)
           T == Nat \ S
<1>1. IsWellFoundedOn(R, Nat)
  BY NatLessThanWellFounded
<1>2. \A x, y \in Nat : y < x => <<y, x>> \in R
  BY DEF OpToRel
<1>. HIDE DEF R
<1>3. PICK x \in T : \A y \in T : ~(<<y, x>> \in R)
  <2>. HIDE DEF T
  <2>1. T \subseteq Nat /\ T # {}
    BY DEF T
  <2>. QED BY <1>1, <2>1, WFMin
<1>4. x # 0 /\ x - 1 \in Nat /\ x - 1 < x
  OBVIOUS
<1>5. x - 1 \in S
  BY <1>2, <1>3, <1>4
<1>. QED BY <1>4, <1>5

\* A set of numbers up to n has a greatest one.
LEMMA MaxUpto ==
  ASSUME NEW n \in Nat, NEW T \in SUBSET (1 .. n), T # {}
  PROVE  Max(T) \in T /\ \A x \in T : x <= Max(T)
<1> DEFINE R == OpToRel(<, Nat)
           V == {n - x : x \in T}
<1>1. IsWellFoundedOn(R, Nat)
  BY NatLessThanWellFounded
<1>2. \A x, y \in Nat : y < x => <<y, x>> \in R
  BY DEF OpToRel
<1>. HIDE DEF R
<1>3. V \subseteq Nat /\ V # {} /\ \A x \in T : n - x \in V
  <2>1. \A x \in T : x \in 1 .. n /\ n - x \in Nat
    OBVIOUS
  <2>. QED BY <2>1
<1>4. PICK v \in V : \A y \in V : ~(<<y, v>> \in R)
  <2>. HIDE DEF V
  <2>. QED BY <1>1, <1>3, WFMin
<1>5. PICK m \in T : v = n - m
  OBVIOUS
<1>6. \A x \in T : x <= m
  <2>. TAKE x \in T
  <2>1. n - x \in Nat /\ n - m \in Nat /\ x \in Int /\ m \in Int /\ n \in Int
    OBVIOUS
  <2>2. ~(<<n - x, n - m>> \in R)
    BY <1>3, <1>4, <1>5
  <2>3. ~(n - x < n - m)
    BY <1>2, <2>1, <2>2
  <2>. QED BY <2>1, <2>3
<1>. QED BY <1>6 DEF Max

\* h takes sets of places, and makes the step of the greatest one last.
Folding(kind, a, base, n, h) ==
    h = [T \in SUBSET (1 .. n) |->
            IF T = {} THEN base ELSE Step(kind, a, h[T \ {Max(T)}], Max(T))]

\* There is a function like that.
LEMMA FoldExists ==
  ASSUME NEW kind, NEW a, NEW base, NEW n \in Nat
  PROVE  \E h : Folding(kind, a, base, n, h)
<1> DEFINE Op(x, k) == Step(kind, a, x, k)
           Follows(k, g) ==
               /\ g = [T \in SUBSET (1 .. k) |-> g[T]] /\ g[{}] = base
               /\ \A T \in SUBSET (1 .. k) : T # {} => g[T] = Op(g[T \ {Max(T)}], Max(T))
           N == {k \in Nat : \E g : Follows(k, g)}
<1>. HIDE DEF Op
<1>1. 0 \in N
  <2> DEFINE g == [T \in SUBSET (1 .. 0) |-> base]
  <2>1. 1 .. 0 = {}
    OBVIOUS
  <2>2. Follows(0, g)
    BY <2>1
  <2>. QED BY <2>2
<1>2. ASSUME NEW k \in Nat, NEW g, Follows(k, g)
      PROVE  \E h : Follows(k + 1, h)
  <2> DEFINE h == [T \in SUBSET (1 .. k + 1) |->
                       IF k + 1 \in T THEN Op(g[T \ {k + 1}], k + 1) ELSE g[T]]
  <2>1. \A T \in SUBSET (1 .. k + 1) : /\ k + 1 \notin T => T \in SUBSET (1 .. k)
                                       /\ T \ {k + 1} \in SUBSET (1 .. k)
    OBVIOUS
  <2>2. h = [T \in SUBSET (1 .. k + 1) |-> h[T]]
    OBVIOUS
  <2>3. \A T \in SUBSET (1 .. k) : h[T] = g[T]
    <3>1. \A T \in SUBSET (1 .. k) : T \in SUBSET (1 .. k + 1) /\ k + 1 \notin T
      OBVIOUS
    <3>. QED BY <3>1
  <2>4. ASSUME NEW T \in SUBSET (1 .. k + 1), T # {}
        PROVE  h[T] = Op(h[T \ {Max(T)}], Max(T))
    <3>1. Max(T) \in T /\ \A x \in T : x <= Max(T)
      <4>1. k + 1 \in Nat
        OBVIOUS
      <4>. QED BY <2>4, <4>1, MaxUpto
    <3>2. CASE k + 1 \in T
      <4>1. Max(T) = k + 1
        <5>. DEFINE m == Max(T)
        <5>1. m \in 1 .. k + 1 /\ k + 1 <= m
          BY <3>1, <3>2
        <5>. HIDE DEF m
        <5>2. m = k + 1
          BY <5>1
        <5>. QED BY <5>2 DEF m
      <4>2. h[T] = Op(g[T \ {k + 1}], k + 1)
        BY <3>2
      <4>. QED BY <2>1, <2>3, <4>1, <4>2
    <3>3. CASE k + 1 \notin T
      <4>1. T \in SUBSET (1 .. k) /\ T \ {Max(T)} \in SUBSET (1 .. k)
        BY <2>1, <3>3
      <4>2. g[T] = Op(g[T \ {Max(T)}], Max(T))
        BY <1>2, <2>4, <4>1
      <4>. QED BY <2>3, <4>1, <4>2
    <3>. QED BY <3>2, <3>3
  <2>5. h[{}] = base
    <3>1. {} \in SUBSET (1 .. k)
      OBVIOUS
    <3>. HIDE DEF h
    <3>. QED BY <1>2, <2>3, <3>1
  <2>. HIDE DEF h
  <2>. QED BY <2>2, <2>4, <2>5
<1>3. \A k \in N : k + 1 \in N
  <2>1. ASSUME NEW k \in N PROVE k + 1 \in N
    <3>. HIDE DEF Follows
    <3>1. k \in Nat /\ \E g : Follows(k, g)
      OBVIOUS
    <3>2. PICK g : Follows(k, g)
      BY <3>1
    <3>. QED BY <1>2, <3>1, <3>2
  <2>. QED BY <2>1
<1>4. n \in N
  <2>. HIDE DEF N
  <2>1. N \in SUBSET Nat
    BY DEF N
  <2>. QED BY <1>1, <1>3, <2>1, SetInduction
<1>5. PICK g : Follows(n, g)
  <2>. HIDE DEF Follows
  <2>. QED BY <1>4
<1> DEFINE G == [T \in SUBSET (1 .. n) |-> IF T = {} THEN base ELSE Op(g[T \ {Max(T)}], Max(T))]
<1>6. \A T \in SUBSET (1 .. n) : g[T] = G[T]
  BY <1>5
<1>7. g = G
  BY <1>5, <1>6
<1>. QED BY <1>7 DEF Folding, Op

\* v is reached from base in the n steps of a call over the places 1 .. n
Reached(kind, a, base, n, v) ==
  \E st : /\ st[0] = base /\ v = st[n]
          /\ \A k \in 1 .. n : st[k] = Step(kind, a, st[k - 1], k)

\* The states after each place
LEMMA FoldStates ==
  ASSUME NEW kind, NEW a, NEW base, NEW n \in Nat, NEW h, Folding(kind, a, base, n, h)
  PROVE  Reached(kind, a, base, n, h[1 .. n])
<1> DEFINE Op(x, k) == Step(kind, a, x, k)
           st == [k \in 0 .. n |-> h[1 .. k]]
<1>. HIDE DEF Op
<1>1. /\ h[{}] = base
      /\ \A T \in SUBSET (1 .. n) : T # {} => h[T] = Op(h[T \ {Max(T)}], Max(T))
  BY DEF Folding, Op
<1>2. ASSUME NEW k \in 1 .. n
      PROVE  h[1 .. k] = Op(h[1 .. k - 1], k)
  <2>1. (1 .. k) \in SUBSET (1 .. n) /\ (1 .. k) # {}
    OBVIOUS
  <2>2. Max(1 .. k) \in 1 .. k /\ \A x \in 1 .. k : x <= Max(1 .. k)
    BY <2>1, MaxUpto
  <2>3. Max(1 .. k) = k
    BY <2>2
  <2>4. (1 .. k) \ {k} = 1 .. k - 1
    OBVIOUS
  <2>. QED BY <1>1, <2>1, <2>3, <2>4
<1>3. 1 .. 0 = {} /\ 0 \in 0 .. n /\ n \in 0 .. n
  OBVIOUS
<1>4. st[0] = base /\ h[1 .. n] = st[n]
  BY <1>1, <1>3
<1>5. ASSUME NEW k \in 1 .. n PROVE st[k] = Op(st[k - 1], k)
  <2>1. k - 1 \in 0 .. n /\ k \in 0 .. n
    OBVIOUS
  <2>. QED BY <1>2, <2>1
<1>. HIDE DEF st
<1>. QED BY <1>4, <1>5 DEF Op, Reached

\* Induction along such states
LEMMA AlongStates ==
  ASSUME NEW n \in Nat, NEW S, 0 \in S, \A k \in 1 .. n : k - 1 \in S => k \in S
  PROVE  n \in S
<1> DEFINE N == {k \in Nat : k <= n => k \in S}
<1>1. 0 \in N
  OBVIOUS
<1>2. ASSUME NEW k \in N PROVE k + 1 \in N
  <2>1. CASE k + 1 <= n
    <3>1. k + 1 \in 1 .. n /\ (k + 1) - 1 = k /\ k \in S
      BY <2>1
    <3>2. k + 1 \in S
      BY <3>1
    <3>. QED BY <3>2
  <2>2. CASE ~(k + 1 <= n)
    BY <2>2
  <2>. QED BY <2>1, <2>2
<1>3. Nat \subseteq N
  <2>. HIDE DEF N
  <2>1. N \in SUBSET Nat
    BY DEF N
  <2>. QED BY <1>1, <1>2, <2>1, SetInduction
<1>. QED BY <1>3

LEMMA PassesSteps ==
  ASSUME NEW s, NEW full, NEW n \in Nat
  PROVE  Reached("pass", full, s, n, Passes(s, full, n))
<1> DEFINE Ops(t) == CHOOSE u \in {ParsingPass(v, full) : v \in {t}} : TRUE
           Rec(h) == h = [T \in SUBSET DOMAIN [m \in 1 .. n |-> m] |->
                             IF T = {} THEN s ELSE Ops(h[T \ {Max(T)}])]
           F == CHOOSE h : Rec(h)
<1>1. \A x, k : Step("pass", full, x, k) = Ops(x)
  <2>1. ASSUME NEW x PROVE Ops(x) = ParsingPass(x, full)
    OBVIOUS
  <2>. QED BY <2>1 DEF Step
<1>2. \A h : Rec(h) <=> Folding("pass", full, s, n, h)
  <2>. HIDE DEF Ops
  <2>1. ASSUME NEW h, NEW T
        PROVE  (IF T = {} THEN s ELSE Ops(h[T \ {Max(T)}]))
                  = IF T = {} THEN s ELSE Step("pass", full, h[T \ {Max(T)}], Max(T))
    BY <1>1
  <2>2. DOMAIN [m \in 1 .. n |-> m] = 1 .. n
    OBVIOUS
  <2>3. ASSUME NEW h PROVE Rec(h) <=> Folding("pass", full, s, n, h)
    <3>1. [T \in SUBSET DOMAIN [m \in 1 .. n |-> m] |-> IF T = {} THEN s ELSE Ops(h[T \ {Max(T)}])]
             = [T \in SUBSET (1 .. n) |->
                  IF T = {} THEN s ELSE Step("pass", full, h[T \ {Max(T)}], Max(T))]
      BY <2>1, <2>2, Zenon
    <3>. QED BY <3>1, Zenon DEF Folding
  <2>. QED BY <2>3
<1>3. Passes(s, full, n) = F[DOMAIN [m \in 1 .. n |-> m]]
  BY Zenon DEF Passes, FoldLeft, MapThenFoldSet
<1>. HIDE DEF Rec
<1>4. Folding("pass", full, s, n, F)
  <2>1. \E h : Rec(h)
    BY <1>2, FoldExists
  <2>. QED BY <1>2, <2>1
<1>. HIDE DEF F
<1>5. Passes(s, full, n) = F[1 .. n]
  <2>1. DOMAIN [m \in 1 .. n |-> m] = 1 .. n
    OBVIOUS
  <2>. QED BY <1>3, <2>1, Zenon
<1>6. Reached("pass", full, s, n, F[1 .. n])
  BY <1>4, FoldStates, Zenon
<1>. QED BY <1>5, <1>6, Zenon

\* The server's fold over its connections is a sequence of states.
LEMMA HandleConnsSteps ==
  ASSUME NEW s, NEW ks, NEW io, NEW n \in Nat, DOMAIN ks = 1 .. n
  PROVE  Reached("conn", <<ks, io>>, s, n, HandleConns(s, ks, io))
<1> DEFINE Ops(t, k) == CHOOSE u \in {HandleConn(v, k, io) : v \in {t}} : TRUE
           Rec(h) == h = [T \in SUBSET DOMAIN ks |->
                             IF T = {} THEN s ELSE Ops(h[T \ {Max(T)}], ks[Max(T)])]
           F == CHOOSE h : Rec(h)
<1>1. \A x, k : Step("conn", <<ks, io>>, x, k) = Ops(x, ks[k])
  <2>1. ASSUME NEW x, NEW k PROVE Ops(x, k) = HandleConn(x, k, io)
    OBVIOUS
  <2>2. \A x, k : Step("conn", <<ks, io>>, x, k) = HandleConn(x, ks[k], io)
    BY DEF Step
  <2>. HIDE DEF Ops
  <2>. QED BY <2>1, <2>2
<1>2. \A h : Rec(h) <=> Folding("conn", <<ks, io>>, s, n, h)
  <2>. HIDE DEF Ops
  <2>1. ASSUME NEW h, NEW T
        PROVE  (IF T = {} THEN s ELSE Ops(h[T \ {Max(T)}], ks[Max(T)]))
                  = IF T = {} THEN s ELSE Step("conn", <<ks, io>>, h[T \ {Max(T)}], Max(T))
    BY <1>1
  <2>2. ASSUME NEW h PROVE Rec(h) <=> Folding("conn", <<ks, io>>, s, n, h)
    <3>1. [T \in SUBSET DOMAIN ks |-> IF T = {} THEN s ELSE Ops(h[T \ {Max(T)}], ks[Max(T)])]
             = [T \in SUBSET (1 .. n) |->
                  IF T = {} THEN s ELSE Step("conn", <<ks, io>>, h[T \ {Max(T)}], Max(T))]
      BY <2>1, Zenon
    <3>. QED BY <3>1, Zenon DEF Folding
  <2>. QED BY <2>2
<1>3. HandleConns(s, ks, io) = F[DOMAIN ks]
  BY Zenon DEF HandleConns, FoldLeft, MapThenFoldSet
<1>. HIDE DEF Rec
<1>4. Folding("conn", <<ks, io>>, s, n, F)
  <2>1. \E h : Rec(h)
    BY <1>2, FoldExists
  <2>. QED BY <1>2, <2>1
<1>. HIDE DEF F
<1>5. HandleConns(s, ks, io) = F[1 .. n]
  BY <1>3, Zenon
<1>6. Reached("conn", <<ks, io>>, s, n, F[1 .. n])
  BY <1>4, FoldStates, Zenon
<1>. QED BY <1>5, <1>6, Zenon

\* All passes over a connection keep what is known of it, and end.
LEMMA PassesDo ==
  ASSUME NEW c, ClientOK(c), NEW s, Opening(s, c), s.pass, NEW full \in BOOLEAN, NEW n \in Nat, n >= 1,
         NEW t, t = Passes(s, full, n)
  PROVE  StaysCall(t, s) /\ (t.again \/ Passed(t, s, c))
<1>1. Reached("pass", full, s, n, t)
  BY PassesSteps
<1>2. PICK st : /\ st[0] = s /\ t = st[n]
                /\ \A m \in 1 .. n : st[m] = Step("pass", full, st[m - 1], m)
  BY <1>1, Zenon DEF Reached
<1>3. CallShape(s)
  BY DEF Opening, CallOK
<1> DEFINE Good(x) == StaysCall(x, s) /\ (x.again \/ Passed(x, s, c))
           S == {m \in 0 .. n : m = 0 \/ Good(st[m])}
<1>. HIDE DEF Good
<1>4. 0 \in S
  OBVIOUS
<1>5. ASSUME NEW m \in 1 .. n, m - 1 \in S PROVE m \in S
  <2>1. PICK r, x : r = st[m - 1] /\ x = st[m]
    OBVIOUS
  <2>2. x = ParsingPass(r, full)
    BY <1>2, <2>1 DEF Step
  <2>3. CASE m = 1
    <3>1. r = s
      BY <1>2, <2>1, <2>3
    <3>2. StaysCall(x, s)
      BY <1>3, <2>2, <3>1, ParsingPassStaysCall
    <3>3. x.again \/ Passed(x, s, c)
      BY <2>2, <3>1, ParsingPassDoes
    <3>4. Good(x)
      BY <3>2, <3>3 DEF Good
    <3>. QED BY <2>1, <3>4
  <2>4. CASE m # 1
    <3>1. Good(r)
      BY <1>5, <2>1, <2>4
    <3>2. StaysCall(r, s) /\ (r.again \/ Passed(r, s, c))
      BY <3>1 DEF Good
    <3>3. StaysCall(x, r)
      BY <2>2, <3>2, ParsingPassStaysCall DEF StaysCall
    <3>4. StaysCall(x, s)
      BY <3>2, <3>3 DEF StaysCall
    <3>5. CASE r.again
      BY <2>1, <3>3, <3>4, <3>5 DEF Good, StaysCall
    <3>6. CASE Passed(r, s, c)
      <4>1. Passed(x, s, c)
        BY <2>2, <3>6, NextPassDoes
      <4>. QED BY <2>1, <3>4, <4>1 DEF Good
    <3>. QED BY <3>2, <3>5, <3>6
  <2>. QED BY <2>3, <2>4
<1>6. n \in S
  <2>. HIDE DEF S
  <2>. QED BY <1>4, <1>5, AlongStates
<1>7. Good(st[n])
  BY <1>6
<1>. QED BY <1>2, <1>7 DEF Good

\* What has been read is no longer on the wire.
Shifted(k, w, s, g, m) == w \in Seq(PartSet) /\ Len(w) = m /\ Fits(k, w, 0, s, g)
LEMMA ShiftFits ==
  ASSUME NEW k, ConnShape(k), NEW w \in Seq(PartSet), NEW u \in 0 .. Len(w), NEW s, NEW g, Fits(k, w, u, s, g),
         NEW v, v = SubSeq(w, u + 1, Len(w))
  PROVE  Shifted(k, v, s, g, Len(w) - u)
<1>1. PICK l \in Nat : l = Len(w) /\ DOMAIN w = 1 .. l
  BY LenProperties
<1>2. \A i \in u + 1 .. l : w[i] \in PartSet
  BY <1>1, ElementOfSeq
<1>3. v \in Seq(PartSet) /\ Len(v) = l - u /\ \A i \in 1 .. l - u : v[i] = w[u + i]
  <2>1. u + 1 \in Int /\ l \in Int
    BY <1>1
  <2>2. /\ v \in Seq(PartSet) /\ Len(v) = IF u + 1 <= l THEN l - (u + 1) + 1 ELSE 0
        /\ \A i \in 1 .. l - (u + 1) + 1 : v[i] = w[(u + 1) + i - 1]
    BY <1>1, <1>2, <2>1, SubSeqProperties
  <2>3. l - (u + 1) + 1 = l - u /\ \A i \in 1 .. l - u : (u + 1) + i - 1 = u + i
    BY <1>1
  <2>. QED BY <1>1, <2>2, <2>3
<1>4. PICK b \in Nat : b = Len(k.buf)
  BY LenProperties DEF ConnShape
<1>5. \A i : Whole(k, w, u, i) => Whole(k, v, 0, i)
  <2>. TAKE i
  <2>. HAVE Whole(k, w, u, i)
  <2>1. b + (l - u) - 0 = Size(k.client, i)
    BY <1>1, <1>4 DEF Whole
  <2>2. ASSUME NEW q \in 0 + 1 .. l - u PROVE v[q] = PartAt(k.client, i, b + q - 0)
    <3>1. q \in 1 .. l - u /\ u + q \in u + 1 .. l /\ b + (u + q) - u = b + q - 0
      BY <1>1, <1>4
    <3>2. v[q] = w[u + q]
      BY <1>3, <3>1
    <3>3. w[u + q] = PartAt(k.client, i, b + (u + q) - u)
      BY <1>1, <1>4, <3>1 DEF Whole
    <3>. QED BY <3>1, <3>2, <3>3
  <2>3. \A p \in 1 .. Len(k.buf) : k.buf[p] = PartAt(k.client, i, p)
    BY DEF Whole
  <2>. QED BY <1>3, <1>4, <2>1, <2>2, <2>3 DEF Whole
<1>6. Doomed(w, u) => Doomed(v, 0)
  <2>. HAVE Doomed(w, u)
  <2>1. u < l /\ w[u + 1].kind = "body"
    BY <1>1 DEF Doomed
  <2>2. 1 \in 1 .. l - u
    BY <1>1, <2>1
  <2>3. v[1] = w[u + 1]
    BY <1>3, <2>2
  <2>. QED BY <1>1, <1>3, <2>1, <2>3 DEF Doomed
<1>7. u = Len(w) => 0 = Len(v)
  BY <1>1, <1>3
<1>8. \A i : Begun(k, w, u, i) => Begun(k, v, 0, i)
  BY <1>5 DEF Begun
<1>9. Coming(k, w, u, s, g) => Coming(k, v, 0, s, g)
  BY <1>5, <1>6, <1>7 DEF Coming
<1>10. Left(k, w, u) => Left(k, v, 0)
  BY <1>6, <1>7 DEF Left
<1>11. Fits(k, v, 0, s, g)
  BY <1>7, <1>8, <1>9, <1>10 DEF Fits
<1>. QED BY <1>1, <1>3, <1>11 DEF Shifted

-----------------------------------------------------------------------------
(* A connection in httpd_handle_event *)

\* What comes for a connection when the server is called
IoFits(io, k, w) ==
    /\ io[k.client].first \in 0 .. Len(w) /\ io[k.client].then \in 0 .. Len(w) /\ io[k.client].full \in BOOLEAN
    /\ io[k.client].select \in BOOLEAN /\ (io[k.client].select => k.state \notin Asking)
\* The connection's turn comes.
Turn(s, k, io) ==
    LET c == k.client
    IN  /\ CallShape(s) /\ ClientOK(c) /\ Settled(k, wire[c], sent[c], Len(got[c])) /\ Asked(s.events, k)
        /\ s.got = [d \in Clients |-> s.got[d]] /\ s.got[c] = got[c]
        /\ s.wire = [d \in Clients |-> s.wire[d]] /\ s.wire[c] = wire[c]
        /\ IsSeq(s.events) /\ k.state \notin {"PARSE_HEADER", "PARSE_BODY"} /\ IoFits(io, k, wire[c])
\* It is over: the connection is closed or settled.
Kept(t, s, c, k) ==
    /\ t.conns = Append(s.conns, k) /\ k.client = c /\ Asked(t.events, k)
    /\ Settled(k, t.wire[c], sent[c], Len(t.got[c]))
Dropped(t, s, c) == t.conns = s.conns /\ NoEvent(t.events, c)
Handled(t, s, c) ==
    /\ t.got = [d \in Clients |-> t.got[d]] /\ t.wire = [d \in Clients |-> t.wire[d]]
    /\ \A d \in Clients \ {c} : t.got[d] = s.got[d] /\ t.wire[d] = s.wire[d]
    /\ IsSeq(t.got[c]) /\ Len(got[c]) <= Len(t.got[c]) /\ t.wire[c] \in Seq(PartSet)
    /\ EventAdded(t, s, c)
    /\ Dropped(t, s, c) \/ \E k : Kept(t, s, c, k)

\* The call's part for k, before something is read.
Begins(t, s, k, c) ==
    /\ CallOK(t, c) /\ FitsNow(t, c) /\ t.k = k /\ t.events = s.events /\ t.conns = s.conns
    /\ t.wire = s.wire /\ t.again = s.again /\ t.got = s.got /\ t.pass = TRUE
LEMMA CallBegins ==
  ASSUME NEW s, NEW k, NEW io, Turn(s, k, io), NEW c, c = k.client, NEW in, in = SubSeq(wire[c], 1, io[c].first),
         NEW t, t = [s EXCEPT !.k = k, !.in = in, !.used = 0, !.pass = TRUE]
  PROVE  Begins(t, s, k, c)
<1>1. CallShape(s) /\ ClientOK(c) /\ ConnShape(k) /\ Fits(k, wire[c], 0, sent[c], Len(got[c]))
      /\ s.got = [d \in Clients |-> s.got[d]] /\ s.got[c] = got[c] /\ IoFits(io, k, wire[c])
  BY DEF Turn, Settled
<1>2. /\ t.k = k /\ t.in = in /\ t.used = 0 /\ t.n = s.n /\ t.conns = s.conns /\ t.ret = s.ret
      /\ t.again = s.again /\ t.pass = TRUE /\ t.events = s.events /\ t.got = s.got /\ t.wire = s.wire
      /\ CallShape(t)
  BY <1>1 DEF CallShape
<1>3. InOf(t, wire[c])
  <2>1. io[c].first \in 0 .. Len(wire[c])
    BY <1>1 DEF IoFits
  <2>2. t.in = SubSeq(wire[c], t.used + 1, io[c].first)
    <3>1. 0 + 1 = 1
      OBVIOUS
    <3>. QED BY <1>2, <3>1
  <2>. QED BY <1>2, <2>1, <2>2 DEF InOf
<1>4. Len(wire[c]) \in Nat /\ Len(got[c]) \in Nat /\ IsSeq(got[c])
  BY <1>1, ClientFacts DEF ClientOK
<1>5. CallOK(t, c)
  <2>1. 0 \in 0 .. Len(wire[c]) /\ Len(got[c]) <= Len(got[c])
    BY <1>4
  <2>. QED BY <1>1, <1>2, <1>3, <1>4, <2>1 DEF CallOK
<1>6. FitsNow(t, c)
  BY <1>1, <1>2 DEF FitsNow
<1>. QED BY <1>2, <1>5, <1>6 DEF Begins

\* And after select's reports and the timeouts, when more has come.
MoreCame(t, s, c) ==
    /\ CallOK(t, c) /\ FitsNow(t, c) /\ t.k = s.k /\ t.events = s.events /\ t.conns = s.conns
    /\ t.wire = s.wire /\ t.again = s.again /\ t.got = s.got /\ t.pass = s.pass
LEMMA MoreComes ==
  ASSUME NEW c, ClientOK(c), NEW s, CallOK(s, c), FitsNow(s, c), NEW n \in 0 .. Len(wire[c]),
         NEW in, in = SubSeq(wire[c], s.used + 1, n), NEW t, t = [s EXCEPT !.in = in]
  PROVE  MoreCame(t, s, c)
<1>1. /\ t.k = s.k /\ t.in = in /\ t.used = s.used /\ t.n = s.n /\ t.conns = s.conns /\ t.ret = s.ret
      /\ t.again = s.again /\ t.pass = s.pass /\ t.events = s.events /\ t.got = s.got /\ t.wire = s.wire
      /\ CallShape(t)
  BY DEF CallOK, CallShape
<1>2. InOf(t, wire[c])
  <2>1. PICK u \in Nat, l \in Nat : u = s.used /\ l = Len(wire[c]) /\ u <= l
    BY CallFacts, ClientFacts
  <2>2. CASE u <= n
    <3>1. n \in t.used .. Len(wire[c])
      BY <1>1, <2>1, <2>2
    <3>. QED BY <1>1, <3>1 DEF InOf
  <2>3. CASE ~(u <= n)
    <3>1. n < u + 1 /\ u < u + 1 /\ u + 1 \in Int /\ n \in Int /\ u \in Int /\ u \in u .. l
      BY <2>1, <2>3
    <3>2. SubSeq(wire[c], u + 1, n) = <<>>
      BY <3>1, SubSeqEmpty
    <3>3. SubSeq(wire[c], u + 1, u) = <<>>
      BY <3>1, SubSeqEmpty
    <3>4. t.in = SubSeq(wire[c], t.used + 1, u)
      BY <1>1, <2>1, <3>2, <3>3
    <3>. QED BY <1>1, <2>1, <3>1, <3>4 DEF InOf
  <2>. QED BY <2>2, <2>3
<1>3. CallOK(t, c)
  BY <1>1, <1>2 DEF CallOK
<1>4. FitsNow(t, c)
  BY <1>1 DEF FitsNow
<1>. QED BY <1>1, <1>3, <1>4 DEF MoreCame

LEMMA PassesStayCall ==
  ASSUME NEW s, CallShape(s), NEW full, NEW n \in Nat, NEW t, t = Passes(s, full, n)
  PROVE  StaysCall(t, s)
<1>1. Reached("pass", full, s, n, t)
  BY PassesSteps
<1>2. PICK st : /\ st[0] = s /\ t = st[n]
                /\ \A m \in 1 .. n : st[m] = Step("pass", full, st[m - 1], m)
  BY <1>1, Zenon DEF Reached
<1> DEFINE S == {m \in 0 .. n : StaysCall(st[m], s)}
<1>3. 0 \in S
  <2>1. StaysCall(s, s)
    BY DEF StaysCall
  <2>. QED BY <1>2, <2>1
<1>4. ASSUME NEW m \in 1 .. n, m - 1 \in S PROVE m \in S
  <2>1. PICK r, x : r = st[m - 1] /\ x = st[m]
    OBVIOUS
  <2>2. x = ParsingPass(r, full)
    BY <1>2, <2>1 DEF Step
  <2>3. StaysCall(r, s)
    BY <1>4, <2>1
  <2>4. StaysCall(x, r)
    BY <2>2, <2>3, ParsingPassStaysCall DEF StaysCall
  <2>5. StaysCall(x, s)
    BY <2>3, <2>4 DEF StaysCall
  <2>. QED BY <2>1, <2>5
<1>5. n \in S
  <2>. HIDE DEF S
  <2>. QED BY <1>3, <1>4, AlongStates
<1>. QED BY <1>2, <1>5

\* What HandleConn does, step by step
Rounds(s, k, io, begun, ioed, more, end, t) ==
    LET c == k.client
    IN  /\ begun = [s EXCEPT !.k = k, !.in = SubSeq(wire[c], 1, io[c].first), !.used = 0, !.pass = TRUE]
        /\ \E o : o = (IF io[c].select THEN Io(begun) ELSE begun) /\ ioed = CheckTimeouts(o)
        /\ more = [ioed EXCEPT !.in = SubSeq(wire[c], ioed.used + 1, io[c].then)]
        /\ end = Passes(more, io[c].full, Len(script[c]) + 1)
        /\ t = IF end.k.state = "CLOSE" THEN [end EXCEPT !.n = @ - 1, !.wire[c] = <<>>]
               ELSE [end EXCEPT !.conns = Append(@, end.k), !.wire[c] = SubSeq(@, end.used + 1, Len(@))]
LEMMA HandleConnRounds ==
  ASSUME NEW s, NEW k, NEW io, NEW t, t = HandleConn(s, k, io)
  PROVE  \E begun, ioed, more, end : Rounds(s, k, io, begun, ioed, more, end, t)
<1> DEFINE c == k.client
           begun == [s EXCEPT !.k = k, !.in = SubSeq(wire[c], 1, io[c].first), !.used = 0, !.pass = TRUE]
           o == IF io[c].select THEN Io(begun) ELSE begun
           ioed == CheckTimeouts(o)
           more == [ioed EXCEPT !.in = SubSeq(wire[c], ioed.used + 1, io[c].then)]
           end == Passes(more, io[c].full, Len(script[c]) + 1)
<1>6. t = IF end.k.state = "CLOSE" THEN [end EXCEPT !.n = @ - 1, !.wire[c] = <<>>]
          ELSE [end EXCEPT !.conns = Append(@, end.k), !.wire[c] = SubSeq(@, end.used + 1, Len(@))]
  BY Zenon DEF HandleConn
<1>. HIDE DEF end
<1>7. end = Passes(more, io[c].full, Len(script[c]) + 1)
  BY DEF end
<1>. HIDE DEF more
<1>8. more = [ioed EXCEPT !.in = SubSeq(wire[c], ioed.used + 1, io[c].then)]
  BY DEF more
<1>. HIDE DEF ioed, o
<1>9. o = (IF io[c].select THEN Io(begun) ELSE begun) /\ ioed = CheckTimeouts(o)
  BY DEF o, ioed
<1>. HIDE DEF begun
<1>10. begun = [s EXCEPT !.k = k, !.in = SubSeq(wire[c], 1, io[c].first), !.used = 0, !.pass = TRUE]
  BY DEF begun
<1>11. Rounds(s, k, io, begun, ioed, more, end, t)
  BY <1>6, <1>7, <1>8, <1>9, <1>10, Zenon DEF Rounds
<1>. QED BY <1>11

\* The end of a turn
Ends(t, s, c) ==
    /\ StaysCall(t, s) /\ t.got = s.got /\ t.events = s.events /\ t.again = s.again
    /\ IF s.k.state = "CLOSE" THEN t.conns = s.conns /\ t.wire = [s.wire EXCEPT ![c] = <<>>]
       ELSE /\ t.conns = Append(s.conns, s.k)
            /\ t.wire = [s.wire EXCEPT ![c] = SubSeq(s.wire[c], s.used + 1, Len(s.wire[c]))]
LEMMA TurnEnds ==
  ASSUME NEW s, CallShape(s), NEW c, NEW t,
         t = IF s.k.state = "CLOSE" THEN [s EXCEPT !.n = @ - 1, !.wire[c] = <<>>]
             ELSE [s EXCEPT !.conns = Append(@, s.k), !.wire[c] = SubSeq(@, s.used + 1, Len(@))]
  PROVE  Ends(t, s, c)
<1>1. CASE s.k.state = "CLOSE"
  <2>1. PICK m, w : m = s.n - 1 /\ w = [s.wire EXCEPT ![c] = <<>>]
    OBVIOUS
  <2>2. t = [s EXCEPT !.n = s.n - 1, !.wire = [s.wire EXCEPT ![c] = <<>>]]
    BY <1>1
  <2>3. t = [s EXCEPT !.n = m, !.wire = w]
    BY <2>1, <2>2, Zenon
  <2>4. t.wire = w /\ t.conns = s.conns /\ t.got = s.got /\ t.events = s.events /\ t.again = s.again /\ CallShape(t)
    BY <2>3 DEF CallShape
  <2>. QED BY <1>1, <2>1, <2>4 DEF Ends, StaysCall
<1>2. CASE s.k.state # "CLOSE"
  <2>1. PICK q, w : /\ q = Append(s.conns, s.k)
                    /\ w = [s.wire EXCEPT ![c] = SubSeq(s.wire[c], s.used + 1, Len(s.wire[c]))]
    OBVIOUS
  <2>2. t = [s EXCEPT !.conns = Append(s.conns, s.k),
                      !.wire = [s.wire EXCEPT ![c] = SubSeq(s.wire[c], s.used + 1, Len(s.wire[c]))]]
    BY <1>2
  <2>3. t = [s EXCEPT !.conns = q, !.wire = w]
    BY <2>1, <2>2, Zenon
  <2>4. t.wire = w /\ t.conns = q /\ t.got = s.got /\ t.events = s.events /\ t.again = s.again /\ CallShape(t)
    BY <2>3 DEF CallShape
  <2>. QED BY <1>2, <2>1, <2>4 DEF Ends, StaysCall
<1>. QED BY <1>1, <1>2

LEMMA HandleConnStaysCall ==
  ASSUME NEW s, CallShape(s), NEW k, script \in Scripts, k.client \in Clients, NEW io, NEW t, t = HandleConn(s, k, io)
  PROVE  StaysCall(t, s)
<1>1. PICK begun, ioed, more, end : Rounds(s, k, io, begun, ioed, more, end, t)
  BY HandleConnRounds
<1>2. PICK c : c = k.client
  OBVIOUS
<1>3. StaysCall(begun, s)
  <2>1. PICK in : in = SubSeq(wire[c], 1, io[c].first)
    OBVIOUS
  <2>2. begun = [s EXCEPT !.k = k, !.in = in, !.used = 0, !.pass = TRUE]
    BY <1>1, <1>2, <2>1, Zenon DEF Rounds
  <2>. QED BY <2>2 DEF CallShape, StaysCall
<1>4. PICK o : o = (IF io[c].select THEN Io(begun) ELSE begun) /\ ioed = CheckTimeouts(o)
  BY <1>1, <1>2, Zenon DEF Rounds
<1>5. StaysCall(o, s)
  <2>1. CASE io[c].select
    <3>1. StaysAsIs(o, begun)
      BY <1>3, <1>4, <2>1, IoStaysCall DEF StaysCall
    <3>. QED BY <1>3, <3>1 DEF StaysAsIs, StaysCall
  <2>2. CASE ~io[c].select
    BY <1>3, <1>4, <2>2
  <2>. QED BY <2>1, <2>2
<1>6. StaysCall(ioed, s)
  <2>1. StaysAsIs(ioed, o)
    BY <1>4, <1>5, CheckTimeoutsStaysCall DEF StaysCall
  <2>. QED BY <1>5, <2>1 DEF StaysAsIs, StaysCall
<1>7. StaysCall(more, s)
  <2>1. PICK in : in = SubSeq(wire[c], ioed.used + 1, io[c].then)
    OBVIOUS
  <2>2. more = [ioed EXCEPT !.in = in]
    BY <1>1, <1>2, <2>1, Zenon DEF Rounds
  <2>. QED BY <1>6, <2>2 DEF CallShape, StaysCall
<1>8. StaysCall(end, s)
  <2>1. PICK n \in Nat : n = Len(script[c]) + 1
    BY <1>2, ScriptLength
  <2>2. end = Passes(more, io[c].full, n)
    BY <1>1, <1>2, <2>1, Zenon DEF Rounds
  <2>3. StaysCall(end, more)
    BY <1>7, <2>2, PassesStayCall DEF StaysCall
  <2>. QED BY <1>7, <2>3 DEF StaysCall
<1>9. StaysCall(t, end)
  <2>1. t = IF end.k.state = "CLOSE" THEN [end EXCEPT !.n = @ - 1, !.wire[c] = <<>>]
            ELSE [end EXCEPT !.conns = Append(@, end.k), !.wire[c] = SubSeq(@, end.used + 1, Len(@))]
    BY <1>1, <1>2, Zenon DEF Rounds
  <2>2. CallShape(end)
    BY <1>8 DEF StaysCall
  <2>3. Ends(t, end, c)
    BY <2>1, <2>2, TurnEnds, Zenon
  <2>. QED BY <2>3, Zenon DEF Ends
<1>. QED BY <1>8, <1>9 DEF StaysCall

\* Before the passes, whatever select has reported
LEMMA TurnOpens ==
  ASSUME NEW s, NEW k, NEW io, Turn(s, k, io), NEW c, c = k.client, NEW more, NEW begun, NEW ioed, NEW end, NEW t,
         Rounds(s, k, io, begun, ioed, more, end, t)
  PROVE  /\ Opening(more, c) /\ more.pass /\ more.conns = s.conns /\ more.wire = s.wire /\ more.events = s.events
         /\ \A d \in Clients \ {c} : more.got[d] = s.got[d]
<1>1. /\ ClientOK(c) /\ ConnShape(k) /\ IoFits(io, k, wire[c]) /\ Asked(s.events, k) /\ IsSeq(s.events)
      /\ k.state \notin {"PARSE_HEADER", "PARSE_BODY"} /\ Settled(k, wire[c], sent[c], Len(got[c]))
  BY DEF Turn, Settled
<1>2. /\ CallOK(begun, c) /\ FitsNow(begun, c) /\ begun.k = k /\ begun.events = s.events /\ begun.conns = s.conns
      /\ begun.wire = s.wire /\ begun.again = s.again /\ begun.got = s.got /\ begun.pass = TRUE
  <2>1. PICK in : in = SubSeq(wire[c], 1, io[c].first)
    OBVIOUS
  <2>2. begun = [s EXCEPT !.k = k, !.in = in, !.used = 0, !.pass = TRUE]
    BY <2>1, Zenon DEF Rounds
  <2>3. Begins(begun, s, k, c)
    BY <2>1, <2>2, CallBegins, Zenon
  <2>. QED BY <2>3 DEF Begins
<1>3. PICK o : o = (IF io[c].select THEN Io(begun) ELSE begun) /\ ioed = CheckTimeouts(o)
  BY Zenon DEF Rounds
<1>4. /\ Moved(o, begun, c) /\ o.pass
      /\ IF k.state = "PROCESS" THEN o = begun ELSE o.k.state # "PROCESS"
  <2>1. CASE io[c].select
    <3>1. k.state \in {"READ_HEADER", "KEEPALIVE", "READ_BODY", "WRITE"}
      <4>1. k.state \notin Asking /\ k.state \in States /\ k.state # "FINISHED" /\ k.state # "CLOSE"
        BY <1>1, <2>1 DEF IoFits, Settled, Fits
      <4>. QED BY <4>1 DEF States, Asking
    <3>2. Moved(o, begun, c) /\ o.k.state # "PROCESS"
      BY <1>1, <1>2, <1>3, <2>1, <3>1, IoDoes
    <3>3. StaysAsIs(o, begun)
      <4>1. CallShape(begun)
        BY <1>2 DEF CallOK
      <4>. QED BY <1>3, <2>1, <4>1, IoStaysCall
    <3>. QED BY <1>2, <3>1, <3>2, <3>3 DEF StaysAsIs
  <2>2. CASE ~io[c].select
    <3>1. o = begun
      BY <1>3, <2>2
    <3>. QED BY <1>2, <3>1 DEF Moved, Beside
  <2>. QED BY <2>1, <2>2
<1>5. CallOK(o, c) /\ FitsNow(o, c) /\ CallShape(o)
  BY <1>4 DEF Moved, CallOK
<1>6. /\ Moved(ioed, o, c) /\ ioed.pass
      /\ IF k.state = "PROCESS" THEN ioed = begun ELSE ioed.k.state # "PROCESS"
  <2>1. /\ Moved(ioed, o, c) /\ (o.k.state \in Asking => ioed = o)
        /\ ioed.k.state \in {o.k.state, "WRITE", "CLOSE"}
    BY <1>1, <1>3, <1>5, CheckTimeoutsDoes
  <2>2. StaysAsIs(ioed, o)
    BY <1>3, <1>5, CheckTimeoutsStaysCall
  <2>. QED BY <1>2, <1>4, <2>1, <2>2 DEF StaysAsIs, Asking
<1>7. /\ CallOK(ioed, c) /\ FitsNow(ioed, c) /\ ioed.conns = s.conns /\ ioed.wire = s.wire /\ ioed.events = s.events
      /\ \A d \in Clients \ {c} : ioed.got[d] = s.got[d]
  BY <1>2, <1>4, <1>6 DEF Moved, Beside
<1>8. /\ CallOK(more, c) /\ FitsNow(more, c) /\ more.k = ioed.k /\ more.events = ioed.events
      /\ more.conns = ioed.conns /\ more.wire = ioed.wire /\ more.got = ioed.got /\ more.pass = ioed.pass
  <2>1. PICK n \in 0 .. Len(wire[c]) : n = io[c].then
    BY <1>1 DEF IoFits
  <2>2. PICK in : in = SubSeq(wire[c], ioed.used + 1, n)
    OBVIOUS
  <2>3. more = [ioed EXCEPT !.in = in]
    BY <2>1, <2>2, Zenon DEF Rounds
  <2>4. MoreCame(more, ioed, c)
    BY <1>1, <1>7, <2>2, <2>3, MoreComes, Zenon
  <2>. QED BY <2>4 DEF MoreCame
<1>9. IF more.k.state = "PROCESS" THEN OneEvent(more.events, more.k) ELSE NoEvent(more.events, c)
  <2>1. CASE k.state = "PROCESS"
    <3>1. OneEvent(s.events, k) /\ more.k = k /\ more.events = s.events
      BY <1>1, <1>2, <1>6, <1>7, <1>8, <2>1 DEF Asked, Asking
    <3>. QED BY <2>1, <3>1
  <2>2. CASE k.state # "PROCESS"
    <3>1. NoEvent(s.events, c) /\ more.k.state # "PROCESS" /\ more.events = s.events
      BY <1>1, <1>6, <1>7, <1>8, <2>2 DEF Asked, Asking
    <3>. QED BY <3>1
  <2>. QED BY <2>1, <2>2
<1>10. Opening(more, c)
  BY <1>1, <1>7, <1>8, <1>9 DEF Opening
<1>. QED BY <1>6, <1>7, <1>8, <1>10

LEMMA HandleConnDoes ==
  ASSUME NEW s, NEW k, NEW io, Turn(s, k, io), NEW c, c = k.client, NEW t, t = HandleConn(s, k, io)
  PROVE  t.again \/ Handled(t, s, c)
<1>. SUFFICES ASSUME ~t.again PROVE Handled(t, s, c)
  OBVIOUS
<1>1. PICK begun, ioed, more, end : Rounds(s, k, io, begun, ioed, more, end, t)
  BY HandleConnRounds
<1>2. /\ Opening(more, c) /\ more.pass /\ more.conns = s.conns /\ more.wire = s.wire /\ more.events = s.events
      /\ \A d \in Clients \ {c} : more.got[d] = s.got[d]
  BY <1>1, TurnOpens
<1>3. ClientOK(c) /\ io[c].full \in BOOLEAN /\ c \in Clients /\ wire[c] \in Seq(PartSet) /\ s.wire[c] = wire[c]
      /\ s.wire = [d \in Clients |-> s.wire[d]]
  BY DEF Turn, IoFits, ClientOK
<1>4. StaysCall(end, more) /\ (end.again \/ Passed(end, more, c))
  <2>1. PICK n \in Nat : n = Len(script[c]) + 1 /\ n >= 1
    BY <1>3, ClientFacts
  <2>2. end = Passes(more, io[c].full, n)
    BY <1>1, <2>1, Zenon DEF Rounds
  <2>. QED BY <1>2, <1>3, <2>1, <2>2, PassesDo
<1>5. /\ t.got = end.got /\ t.events = end.events /\ t.again = end.again
      /\ IF end.k.state = "CLOSE" THEN t.conns = end.conns /\ t.wire = [end.wire EXCEPT ![c] = <<>>]
         ELSE /\ t.conns = Append(end.conns, end.k)
              /\ t.wire = [end.wire EXCEPT ![c] = SubSeq(end.wire[c], end.used + 1, Len(end.wire[c]))]
  <2>1. t = IF end.k.state = "CLOSE" THEN [end EXCEPT !.n = @ - 1, !.wire[c] = <<>>]
            ELSE [end EXCEPT !.conns = Append(@, end.k), !.wire[c] = SubSeq(@, end.used + 1, Len(@))]
    BY <1>1, Zenon DEF Rounds
  <2>2. CallShape(end)
    BY <1>4 DEF StaysCall
  <2>3. Ends(t, end, c)
    BY <2>1, <2>2, TurnEnds, Zenon
  <2>. QED BY <2>3, Zenon DEF Ends
<1>6. Parsed(end, more, c) /\ end.k.state # "FINISHED"
  BY <1>4, <1>5 DEF Passed
<1>7. /\ CallOK(end, c) /\ FitsNow(end, c) /\ EventAdded(end, more, c) /\ Asked(end.events, end.k)
      /\ end.k.state \in Asking => end.used = Len(wire[c])
      /\ end.conns = s.conns /\ end.wire = s.wire
      /\ \A d \in Clients \ {c} : end.got[d] = s.got[d]
  BY <1>2, <1>6 DEF Parsed, Beside
<1>8. /\ end.got = [d \in Clients |-> end.got[d]] /\ IsSeq(end.got[c]) /\ Len(got[c]) <= Len(end.got[c])
      /\ end.k.client = c /\ ConnShape(end.k) /\ end.used \in 0 .. Len(wire[c])
      /\ Fits(end.k, wire[c], end.used, sent[c], Len(end.got[c]))
  BY <1>7 DEF CallOK, FitsNow
<1>9. EventAdded(t, s, c)
  BY <1>2, <1>5, <1>7 DEF EventAdded
<1>10. CASE end.k.state = "CLOSE"
  <2>1. t.wire = [end.wire EXCEPT ![c] = <<>>] /\ t.conns = s.conns
    BY <1>5, <1>7, <1>10
  <2>2. t.wire = [d \in Clients |-> t.wire[d]] /\ t.wire[c] = <<>> /\ \A d \in Clients \ {c} : t.wire[d] = s.wire[d]
    BY <1>3, <1>7, <2>1
  <2>3. NoEvent(t.events, c)
    BY <1>5, <1>7, <1>8, <1>10 DEF Asked, Asking
  <2>4. <<>> \in Seq(PartSet)
    OBVIOUS
  <2>. QED BY <1>5, <1>7, <1>8, <1>9, <2>1, <2>2, <2>3, <2>4 DEF Handled, Dropped
<1>11. CASE end.k.state # "CLOSE"
  <2>1. PICK v : v = SubSeq(wire[c], end.used + 1, Len(wire[c]))
    OBVIOUS
  <2>2. t.wire = [end.wire EXCEPT ![c] = v] /\ t.conns = Append(s.conns, end.k)
    <3>1. end.wire[c] = wire[c] /\ t.conns = Append(end.conns, end.k) /\ end.conns = s.conns
      BY <1>3, <1>5, <1>7, <1>11
    <3>2. t.wire = [end.wire EXCEPT ![c] = SubSeq(end.wire[c], end.used + 1, Len(end.wire[c]))]
      BY <1>5, <1>11
    <3>. QED BY <2>1, <3>1, <3>2, Zenon
  <2>3. t.wire = [d \in Clients |-> t.wire[d]] /\ t.wire[c] = v /\ \A d \in Clients \ {c} : t.wire[d] = s.wire[d]
    BY <1>3, <1>7, <2>2
  <2>4. Shifted(end.k, v, sent[c], Len(end.got[c]), Len(wire[c]) - end.used)
    BY <1>3, <1>8, <2>1, ShiftFits
  <2>5. end.k.state \in Asking => v = <<>>
    <3>. HAVE end.k.state \in Asking
    <3>1. Len(wire[c]) \in Nat
      BY <1>3, ClientFacts
    <3>2. v \in Seq(PartSet) /\ Len(v) = 0
      BY <1>7, <2>4, <3>1 DEF Shifted
    <3>. QED BY <3>2, EmptySeq
  <2>6. Settled(end.k, v, sent[c], Len(end.got[c]))
    BY <1>6, <1>8, <1>11, <2>4, <2>5 DEF Settled, Shifted
  <2>7. v \in Seq(PartSet)
    BY <2>4 DEF Shifted
  <2>8. Kept(t, s, c, end.k)
    BY <1>5, <1>7, <1>8, <2>2, <2>3, <2>6 DEF Kept
  <2>. QED BY <1>5, <1>7, <1>8, <1>9, <2>3, <2>7, <2>8 DEF Handled
<1>. QED BY <1>10, <1>11

-----------------------------------------------------------------------------
(* All the connections in httpd_handle_event *)

\* The timer's event stays where it was, events are for clients.
OnlyTimer(r, q) == \A n \in DOMAIN r : r[n] = Timer => n \in DOMAIN q /\ q[n] = Timer
AllTo(q) == \A n \in DOMAIN q : q[n] # Timer => q[n].to \in Clients
\* An event for c comes to the queue q.
Grown(r, q, c) ==
    /\ IsSeq(r) /\ (AllTo(q) => AllTo(r))
    /\ \A p : OnlyTimer(q, p) => OnlyTimer(r, p)
    /\ \A k : k.client # c /\ Asked(q, k) => Asked(r, k)
    /\ \A d : d # c /\ NoEvent(q, d) => NoEvent(r, d)

LEMMA QueueGrows ==
  ASSUME NEW s, IsSeq(s.events), NEW c \in Clients, NEW t, EventAdded(t, s, c)
  PROVE  Grown(t.events, s.events, c)
<1>1. PICK q, r : q = s.events /\ r = t.events
  OBVIOUS
<1>2. IsSeq(q) /\ IsSeq(r) /\ (r = q \/ \E e : e # Timer /\ e.to = c /\ r = Append(q, e))
  BY <1>1 DEF EventAdded
<1>3. CASE r = q
  BY <1>1, <1>2, <1>3 DEF Grown
<1>4. ASSUME NEW e, e # Timer, e.to = c, r = Append(q, e) PROVE Grown(r, q, c)
  <2>1. PICK l \in Nat : l = Len(q)
    BY <1>2, IsSeqFacts
  <2>2. /\ DOMAIN q = 1 .. l /\ DOMAIN r = 1 .. l + 1 /\ r[l + 1] = e
        /\ \A n \in 1 .. l : r[n] = q[n]
    BY <1>2, <1>4, <2>1, IsSeqFacts, AppendIsSeq
  <2>3. \A n \in DOMAIN r : n = l + 1 \/ (n \in DOMAIN q /\ r[n] = q[n])
    BY <2>2
  <2>4. \A n \in DOMAIN q : n \in DOMAIN r /\ r[n] = q[n]
    BY <2>2
  <2>5. r[l + 1] # Timer /\ r[l + 1].to = c
    BY <1>4, <2>2
  <2>6. AllTo(q) => AllTo(r)
    BY <2>3, <2>5 DEF AllTo
  <2>7. ASSUME NEW p, OnlyTimer(q, p) PROVE OnlyTimer(r, p)
    BY <2>3, <2>5, <2>7 DEF OnlyTimer
  <2>8. ASSUME NEW d, d # c, NoEvent(q, d) PROVE NoEvent(r, d)
    BY <2>3, <2>5, <2>8 DEF NoEvent
  <2>9. ASSUME NEW k, k.client # c, Asked(q, k) PROVE Asked(r, k)
    <3>1. CASE k.state \in Asking
      <4>1. OneEvent(q, k)
        BY <2>9, <3>1 DEF Asked
      <4>2. PICK m \in DOMAIN q :
              /\ q[m] # Timer /\ q[m].to = k.client /\ q[m].client = k.client /\ q[m].i = RequestOf(k)
              /\ \A n \in DOMAIN q : q[n] # Timer /\ q[n].to = k.client => n = m
        BY <4>1, Zenon DEF OneEvent
      <4>3. m \in DOMAIN r /\ r[m] = q[m]
        BY <2>4
      <4>4. \A n \in DOMAIN r : r[n] # Timer /\ r[n].to = k.client => n = m
        BY <2>3, <2>5, <2>9, <4>2
      <4>5. OneEvent(r, k)
        BY <4>2, <4>3, <4>4 DEF OneEvent
      <4>. QED BY <3>1, <4>5 DEF Asked
    <3>2. CASE k.state \notin Asking
      <4>1. NoEvent(q, k.client)
        BY <2>9, <3>2 DEF Asked
      <4>2. NoEvent(r, k.client)
        BY <2>8, <2>9, <4>1
      <4>. QED BY <3>2, <4>2 DEF Asked
    <3>. QED BY <3>1, <3>2
  <2>. QED BY <1>2, <2>6, <2>7, <2>8, <2>9 DEF Grown
<1>. QED BY <1>1, <1>2, <1>3, <1>4

\* What httpd_handle_event is called with
ConnsReady(ks, queue, io) ==
    /\ Len(ks) \in Nat /\ DOMAIN ks = 1 .. Len(ks) /\ IsSeq(queue) /\ AllTo(queue)
    /\ \A m, n \in DOMAIN ks : ks[m].client = ks[n].client => m = n
    /\ \A n \in DOMAIN ks :
          LET k == ks[n]
          IN  /\ ClientOK(k.client) /\ Settled(k, wire[k.client], sent[k.client], Len(got[k.client]))
              /\ Asked(queue, k) /\ k.state \notin {"PARSE_HEADER", "PARSE_BODY"} /\ IoFits(io, k, wire[k.client])
    /\ got = [d \in Clients |-> got[d]] /\ wire = [d \in Clients |-> wire[d]]
    /\ \A d \in Clients : IsSeq(got[d]) /\ wire[d] \in Seq(PartSet)

\* The first m connections have been handled: what was got and is on its way,
\* the events, the connections that stay.
Untouched(ks, m, d) == \A n \in 1 .. m : ks[n].client # d
HalfData(x, ks, m) ==
    /\ x.got = [d \in Clients |-> x.got[d]] /\ x.wire = [d \in Clients |-> x.wire[d]]
    /\ \A d \in Clients : /\ IsSeq(x.got[d]) /\ Len(got[d]) <= Len(x.got[d]) /\ x.wire[d] \in Seq(PartSet)
                          /\ Untouched(ks, m, d) => x.got[d] = got[d] /\ x.wire[d] = wire[d]
HalfEvents(x, queue, ks, m) ==
    /\ IsSeq(x.events) /\ OnlyTimer(x.events, queue) /\ AllTo(x.events)
    /\ \A d \in Clients : Untouched(ks, m, d) /\ NoEvent(queue, d) => NoEvent(x.events, d)
    /\ \A n \in m + 1 .. Len(ks) : Asked(x.events, ks[n])
HalfConns(x, ks, m) ==
    /\ IsSeq(x.conns)
    /\ \A i \in DOMAIN x.conns : \E n \in 1 .. m : x.conns[i].client = ks[n].client
    /\ \A i, j \in DOMAIN x.conns : x.conns[i].client = x.conns[j].client => i = j
    /\ \A i \in DOMAIN x.conns :
          LET k == x.conns[i]
          IN  Settled(k, x.wire[k.client], sent[k.client], Len(x.got[k.client])) /\ Asked(x.events, k)
    /\ \A n \in 1 .. m : \/ \E i \in DOMAIN x.conns : x.conns[i].client = ks[n].client
                         \/ NoEvent(x.events, ks[n].client)
Half(x, queue, ks, m) == HalfData(x, ks, m) /\ HalfEvents(x, queue, ks, m) /\ HalfConns(x, ks, m)

LEMMA HalfBegins ==
  ASSUME NEW ks, NEW queue, NEW io, ConnsReady(ks, queue, io), NEW n, NEW x, x = Call(queue, n)
  PROVE  Half(x, queue, ks, 0) /\ CallShape(x)
<1>1. x.got = got /\ x.wire = wire /\ x.events = queue /\ x.conns = <<>> /\ CallShape(x)
  BY DEF Call, CallShape
<1>2. \A d \in Clients : Len(got[d]) \in Nat
  BY IsSeqFacts DEF ConnsReady
<1>3. HalfData(x, ks, 0)
  BY <1>1, <1>2 DEF HalfData, ConnsReady
<1>4. HalfEvents(x, queue, ks, 0)
  <2>1. IsSeq(x.events) /\ OnlyTimer(x.events, queue) /\ AllTo(x.events)
    BY <1>1 DEF ConnsReady, OnlyTimer
  <2>2. \A m \in 0 + 1 .. Len(ks) : Asked(x.events, ks[m])
    BY <1>1 DEF ConnsReady
  <2>. QED BY <1>1, <2>1, <2>2 DEF HalfEvents
<1>5. HalfConns(x, ks, 0)
  <2>1. <<>> \in Seq({})
    OBVIOUS
  <2>2. IsSeq(x.conns)
    BY <1>1, <2>1, SeqIsSeq
  <2>3. DOMAIN x.conns = {} /\ 1 .. 0 = {}
    BY <1>1
  <2>. QED BY <2>2, <2>3 DEF HalfConns
<1>. QED BY <1>1, <1>3, <1>4, <1>5 DEF Half

\* The turn of the m-th connection comes.
LEMMA HalfTurn ==
  ASSUME NEW ks, NEW queue, NEW io, ConnsReady(ks, queue, io), NEW m \in 1 .. Len(ks), NEW x, CallShape(x),
         Half(x, queue, ks, m - 1)
  PROVE  Turn(x, ks[m], io) /\ Untouched(ks, m - 1, ks[m].client)
<1>1. PICK k : k = ks[m]
  OBVIOUS
<1>2. m \in DOMAIN ks /\ m \in Nat /\ Len(ks) \in Nat /\ 1 .. m - 1 \subseteq DOMAIN ks
  BY DEF ConnsReady
<1>3. /\ ClientOK(k.client) /\ Settled(k, wire[k.client], sent[k.client], Len(got[k.client]))
      /\ k.state \notin {"PARSE_HEADER", "PARSE_BODY"} /\ IoFits(io, k, wire[k.client])
  BY <1>1, <1>2 DEF ConnsReady
<1>4. Untouched(ks, m - 1, k.client)
  <2>1. \A n \in 1 .. m - 1 : n \in DOMAIN ks /\ n # m
    BY <1>2
  <2>2. \A n \in DOMAIN ks : ks[n].client = ks[m].client => n = m
    BY <1>2 DEF ConnsReady
  <2>. QED BY <1>1, <2>1, <2>2 DEF Untouched
<1>5. k.client \in Clients
  BY <1>3 DEF ClientOK
<1>6. /\ x.got = [d \in Clients |-> x.got[d]] /\ x.wire = [d \in Clients |-> x.wire[d]]
      /\ x.got[k.client] = got[k.client] /\ x.wire[k.client] = wire[k.client]
  BY <1>4, <1>5 DEF Half, HalfData
<1>7. IsSeq(x.events) /\ Asked(x.events, k)
  <2>1. m \in (m - 1) + 1 .. Len(ks)
    BY <1>2
  <2>. QED BY <1>1, <2>1 DEF Half, HalfEvents
<1>8. Turn(x, k, io)
  BY <1>3, <1>6, <1>7 DEF Turn
<1>. QED BY <1>1, <1>4, <1>8

LEMMA HalfGoesOn ==
  ASSUME NEW ks, NEW queue, NEW io, ConnsReady(ks, queue, io), NEW m \in 1 .. Len(ks), NEW x, CallShape(x),
         Half(x, queue, ks, m - 1), NEW t, t = HandleConn(x, ks[m], io), ~t.again
  PROVE  Half(t, queue, ks, m)
<1>1. PICK k, c : k = ks[m] /\ c = k.client
  OBVIOUS
<1>2. m \in DOMAIN ks /\ m \in Nat /\ Len(ks) \in Nat /\ DOMAIN ks = 1 .. Len(ks)
  BY DEF ConnsReady
<1>3. Turn(x, k, io) /\ Untouched(ks, m - 1, c)
  BY <1>1, HalfTurn
<1>4. Handled(t, x, c)
  BY <1>1, <1>3, HandleConnDoes
<1>5. /\ t.got = [d \in Clients |-> t.got[d]] /\ t.wire = [d \in Clients |-> t.wire[d]]
      /\ \A d \in Clients \ {c} : t.got[d] = x.got[d] /\ t.wire[d] = x.wire[d]
      /\ IsSeq(t.got[c]) /\ Len(got[c]) <= Len(t.got[c]) /\ t.wire[c] \in Seq(PartSet)
      /\ EventAdded(t, x, c)
  BY <1>4 DEF Handled
<1>6. c \in Clients
  BY <1>1, <1>3 DEF Turn, ClientOK
<1>7. \A d : Untouched(ks, m, d) <=> Untouched(ks, m - 1, d) /\ d # c
  <2>1. \A n : n \in 1 .. m <=> n \in 1 .. m - 1 \/ n = m
    BY <1>2
  <2>. QED BY <1>1, <2>1 DEF Untouched
<1>8. HalfData(t, ks, m)
  <2>1. HalfData(x, ks, m - 1)
    BY DEF Half
  <2>2. ASSUME NEW d \in Clients
        PROVE  /\ IsSeq(t.got[d]) /\ Len(got[d]) <= Len(t.got[d]) /\ t.wire[d] \in Seq(PartSet)
               /\ Untouched(ks, m, d) => t.got[d] = got[d] /\ t.wire[d] = wire[d]
    <3>1. CASE d = c
      BY <1>5, <1>7, <3>1
    <3>2. CASE d # c
      <4>1. t.got[d] = x.got[d] /\ t.wire[d] = x.wire[d]
        BY <1>5, <3>2
      <4>2. /\ IsSeq(x.got[d]) /\ Len(got[d]) <= Len(x.got[d]) /\ x.wire[d] \in Seq(PartSet)
            /\ Untouched(ks, m - 1, d) => x.got[d] = got[d] /\ x.wire[d] = wire[d]
        BY <2>1 DEF HalfData
      <4>. QED BY <1>7, <4>1, <4>2
    <3>. QED BY <3>1, <3>2
  <2>. QED BY <1>5, <2>2 DEF HalfData
<1>9. HalfEvents(x, queue, ks, m - 1) /\ IsSeq(x.events)
  BY DEF Half, HalfEvents
<1>10. Grown(t.events, x.events, c)
  BY <1>5, <1>6, <1>9, QueueGrows
<1>11. \A n \in m + 1 .. Len(ks) : n \in (m - 1) + 1 .. Len(ks) /\ ks[n].client # c
  <2>1. \A n \in DOMAIN ks : ks[n].client = ks[m].client => n = m
    BY <1>2 DEF ConnsReady
  <2>2. \A n \in m + 1 .. Len(ks) : n \in DOMAIN ks /\ n # m /\ n \in (m - 1) + 1 .. Len(ks)
    BY <1>2
  <2>. QED BY <1>1, <2>1, <2>2
<1>12. HalfEvents(t, queue, ks, m)
  <2>1. IsSeq(t.events) /\ OnlyTimer(t.events, queue) /\ AllTo(t.events)
    BY <1>9, <1>10 DEF Grown, HalfEvents
  <2>2. \A d \in Clients : Untouched(ks, m, d) /\ NoEvent(queue, d) => NoEvent(t.events, d)
    BY <1>7, <1>9, <1>10 DEF Grown, HalfEvents
  <2>3. \A n \in m + 1 .. Len(ks) : Asked(t.events, ks[n])
    BY <1>9, <1>10, <1>11 DEF Grown, HalfEvents
  <2>. QED BY <2>1, <2>2, <2>3 DEF HalfEvents
<1>13. HalfConns(x, ks, m - 1)
  BY DEF Half
<1>14. \A i \in DOMAIN x.conns : x.conns[i].client # c
  BY <1>3, <1>13 DEF HalfConns, Untouched
<1>15. \A i \in DOMAIN x.conns :
          LET h == x.conns[i]
          IN  Settled(h, t.wire[h.client], sent[h.client], Len(t.got[h.client])) /\ Asked(t.events, h)
  <2>. TAKE i \in DOMAIN x.conns
  <2>1. PICK h : h = x.conns[i]
    OBVIOUS
  <2>2. Settled(h, x.wire[h.client], sent[h.client], Len(x.got[h.client])) /\ Asked(x.events, h) /\ h.client # c
    BY <1>13, <1>14, <2>1 DEF HalfConns
  <2>3. h.client \in Clients
    BY <2>2 DEF Settled, ConnShape
  <2>4. t.wire[h.client] = x.wire[h.client] /\ t.got[h.client] = x.got[h.client]
    BY <1>5, <2>2, <2>3
  <2>5. Asked(t.events, h)
    BY <1>10, <2>2 DEF Grown
  <2>. QED BY <2>1, <2>2, <2>4, <2>5
<1>16. \A n \in 1 .. m - 1 : \/ \E i \in DOMAIN x.conns : x.conns[i].client = ks[n].client
                             \/ NoEvent(t.events, ks[n].client)
  <2>. TAKE n \in 1 .. m - 1
  <2>1. \/ \E i \in DOMAIN x.conns : x.conns[i].client = ks[n].client
        \/ NoEvent(x.events, ks[n].client)
    BY <1>13 DEF HalfConns
  <2>2. ks[n].client # c
    BY <1>3 DEF Untouched
  <2>. QED BY <1>10, <2>1, <2>2 DEF Grown
<1>17. IsSeq(x.conns)
  BY <1>13 DEF HalfConns
<1>18. \A n : n \in 1 .. m <=> n \in 1 .. m - 1 \/ n = m
  BY <1>2
<1>19. HalfConns(t, ks, m)
  <2>1. CASE Dropped(t, x, c)
    <3>1. t.conns = x.conns /\ NoEvent(t.events, c)
      BY <2>1 DEF Dropped
    <3>2. \A i \in DOMAIN t.conns : \E n \in 1 .. m : t.conns[i].client = ks[n].client
      BY <1>13, <1>18, <3>1 DEF HalfConns
    <3>3. \A i, j \in DOMAIN t.conns : t.conns[i].client = t.conns[j].client => i = j
      BY <1>13, <3>1 DEF HalfConns
    <3>4. \A n \in 1 .. m : \/ \E i \in DOMAIN t.conns : t.conns[i].client = ks[n].client
                            \/ NoEvent(t.events, ks[n].client)
      BY <1>1, <1>16, <1>18, <3>1
    <3>. QED BY <1>15, <1>17, <3>1, <3>2, <3>3, <3>4 DEF HalfConns
  <2>2. ASSUME NEW h, Kept(t, x, c, h) PROVE HalfConns(t, ks, m)
    <3>1. /\ t.conns = Append(x.conns, h) /\ h.client = c /\ Asked(t.events, h)
          /\ Settled(h, t.wire[c], sent[c], Len(t.got[c]))
      BY <2>2 DEF Kept
    <3>2. PICK l \in Nat : l = Len(x.conns) /\ DOMAIN x.conns = 1 .. l
      BY <1>17, IsSeqFacts
    <3>3. /\ IsSeq(t.conns) /\ DOMAIN t.conns = 1 .. l + 1 /\ t.conns[l + 1] = h
          /\ \A n \in 1 .. l : t.conns[n] = x.conns[n]
      BY <1>17, <3>1, <3>2, AppendIsSeq
    <3>4. \A i \in DOMAIN t.conns : (i \in DOMAIN x.conns /\ t.conns[i] = x.conns[i]) \/ (i = l + 1 /\ t.conns[i] = h)
      BY <3>2, <3>3
    <3>5. \A i \in DOMAIN x.conns : i \in DOMAIN t.conns /\ t.conns[i] = x.conns[i]
      BY <3>2, <3>3
    <3>6. l + 1 \in DOMAIN t.conns
      BY <3>3
    <3>7. \A i \in DOMAIN t.conns : \E n \in 1 .. m : t.conns[i].client = ks[n].client
      BY <1>1, <1>13, <1>18, <3>1, <3>4 DEF HalfConns
    <3>8. \A i, j \in DOMAIN t.conns : t.conns[i].client = t.conns[j].client => i = j
      <4>1. \A i, j \in DOMAIN x.conns : x.conns[i].client = x.conns[j].client => i = j
        BY <1>13 DEF HalfConns
      <4>. QED BY <1>14, <3>1, <3>4, <4>1
    <3>9. \A i \in DOMAIN t.conns :
             LET g == t.conns[i]
             IN  Settled(g, t.wire[g.client], sent[g.client], Len(t.got[g.client])) /\ Asked(t.events, g)
      BY <1>15, <3>1, <3>4, Zenon
    <3>10. \A n \in 1 .. m : \/ \E i \in DOMAIN t.conns : t.conns[i].client = ks[n].client
                             \/ NoEvent(t.events, ks[n].client)
      BY <1>1, <1>16, <1>18, <3>1, <3>3, <3>5, <3>6
    <3>. QED BY <3>3, <3>7, <3>8, <3>9, <3>10 DEF HalfConns
  <2>. QED BY <1>4, <2>1, <2>2 DEF Handled
<1>. QED BY <1>8, <1>12, <1>19 DEF Half

\* All of them have been handled.
LEMMA ConnsHandled ==
  ASSUME NEW ks, NEW queue, NEW io, ConnsReady(ks, queue, io), script \in Scripts, NEW n, NEW s,
         s = HandleConns(Call(queue, n), ks, io)
  PROVE  s.again \/ Half(s, queue, ks, Len(ks))
<1>1. PICK base : base = Call(queue, n)
  OBVIOUS
<1>2. PICK l \in Nat : l = Len(ks) /\ DOMAIN ks = 1 .. l
  BY DEF ConnsReady
<1>3. Reached("conn", <<ks, io>>, base, l, s)
  BY <1>1, <1>2, HandleConnsSteps
<1>4. PICK st : /\ st[0] = base /\ s = st[l]
                /\ \A m \in 1 .. l : st[m] = Step("conn", <<ks, io>>, st[m - 1], m)
  BY <1>3, Zenon DEF Reached
<1> DEFINE Good(x, m) == CallShape(x) /\ (x.again \/ Half(x, queue, ks, m))
           S == {m \in 0 .. l : Good(st[m], m)}
<1>. HIDE DEF Good
<1>5. 0 \in S
  <2>1. Good(base, 0)
    BY <1>1, HalfBegins DEF Good
  <2>. QED BY <1>4, <2>1
<1>6. ASSUME NEW m \in 1 .. l, m - 1 \in S PROVE m \in S
  <2>1. PICK x, t : x = st[m - 1] /\ t = st[m]
    OBVIOUS
  <2>2. t = HandleConn(x, ks[m], io)
    BY <1>4, <2>1 DEF Step
  <2>3. Good(x, m - 1)
    BY <1>6, <2>1
  <2>4. CallShape(x) /\ (x.again \/ Half(x, queue, ks, m - 1))
    BY <2>3 DEF Good
  <2>5. ks[m].client \in Clients
    BY <1>2 DEF ConnsReady, ClientOK
  <2>6. StaysCall(t, x)
    BY <2>2, <2>4, <2>5, HandleConnStaysCall
  <2>7. CASE x.again
    BY <2>1, <2>6, <2>7 DEF Good, StaysCall
  <2>8. CASE Half(x, queue, ks, m - 1)
    <3>1. t.again \/ Half(t, queue, ks, m)
      BY <1>2, <2>2, <2>4, <2>8, HalfGoesOn
    <3>. QED BY <2>1, <2>6, <3>1 DEF Good, StaysCall
  <2>. QED BY <2>4, <2>7, <2>8
<1>7. l \in S
  <2>. HIDE DEF S
  <2>. QED BY <1>5, <1>6, AlongStates
<1>8. Good(st[l], l)
  BY <1>7
<1>. QED BY <1>2, <1>4, <1>8 DEF Good

-----------------------------------------------------------------------------
(* httpd_handle_event *)

\* The connections ks are the server's and those of the clients in a that may
\* connect; no event is for a client without a connection.
Called(ks, queue, a) ==
    /\ a \subseteq Clients /\ \A c \in a : status[c] = "queued"
    /\ \A n \in DOMAIN ks : \/ ks[n].client \in a /\ AccessCheck("Host", ks[n].client)
                            \/ \E m \in DOMAIN conns : conns[m].client = ks[n].client
    /\ \A m \in DOMAIN conns : \E n \in DOMAIN ks : ks[n].client = conns[m].client
    /\ \A c \in Clients : status[c] # "open" => NoEvent(queue, c)
\* What the invariant says afterwards
Over(queue) == ControlTypes' /\ ConnsAreOpen' /\ ConnsFit' /\ Unopened' /\ OnlyTimer(events', queue)

\* While the clients keep to their scripts, a settled connection stays that.
LEMMA SettledStays ==
  ASSUME script' = script, NEW k, NEW w, NEW s, NEW g, Settled(k, w, s, g)
  PROVE  Settled(k, w, s, g)'
<1>1. \A i : Whole(k, w, 0, i) => Whole(k, w, 0, i)'
  BY DEF Whole, PartAt, HeadAt, Size, Request
<1>2. \A i : HeadAt(k.client, i)' = HeadAt(k.client, i)
  BY DEF HeadAt, Request
<1>3. \A i : Begun(k, w, 0, i) => Begun(k, w, 0, i)'
  BY <1>1, <1>2 DEF Begun
<1>4. Coming(k, w, 0, s, g) => Coming(k, w, 0, s, g)'
  BY <1>1, <1>2 DEF Coming
<1>5. Left(k, w, 0) => Left(k, w, 0)'
  BY DEF Left
<1>6. \A i : Request(k.client, i)' = Request(k.client, i)
  BY DEF Request
<1>7. Fits(k, w, 0, s, g) => Fits(k, w, 0, s, g)'
  BY <1>3, <1>4, <1>5, <1>6 DEF Fits
<1>. QED BY <1>7 DEF Settled

FitNow == \A n \in DOMAIN conns' :
             LET k == conns'[n]
             IN  /\ Settled(k, wire'[k.client], sent'[k.client], Len(got'[k.client]))
                 /\ Asked(events', k)
\* What fits now fits in the next state's terms.
LEMMA FitsStay ==
  ASSUME script' = script, FitNow
  PROVE  ConnsFit'
<1>. SUFFICES ASSUME NEW n \in DOMAIN conns'
     PROVE  /\ Settled(conns[n], wire[conns[n].client], sent[conns[n].client], Len(got[conns[n].client]))'
            /\ Asked(events, conns[n])'
  BY DEF ConnsFit
<1>1. PICK k, w, s, g : k = conns'[n] /\ w = wire'[k.client] /\ s = sent'[k.client] /\ g = Len(got'[k.client])
  OBVIOUS
<1>2. Settled(k, w, s, g) /\ Asked(events', k)
  BY <1>1 DEF FitNow
<1>3. Settled(k, w, s, g)'
  BY <1>2, SettledStays
<1>4. Settled(conns[n], wire[conns[n].client], sent[conns[n].client], Len(got[conns[n].client]))'
  BY <1>1, <1>3
<1>. QED BY <1>1, <1>2, <1>4

\* httpd_handle_event keeps the invariant, but for what depends on the loop.
LEMMA HandleEventDoes ==
  ASSUME Exposed = {}, ControlTypes, ConnsAreOpen, ConnsFit, Unopened, NEW ks, NEW queue, NEW a, NEW io,
         ConnsReady(ks, queue, io), Called(ks, queue, a), HandleEvent(ks, queue, a, io), polled' \in BOOLEAN
  PROVE  Over(queue)
<1>1. PICK s : /\ s = HandleConns(Call(queue, Len(ks)), ks, io) /\ ~s.again
               /\ conns' = s.conns /\ events' = s.events
  BY DEF HandleEvent
<1> DEFINE open == {s.conns[n].client : n \in DOMAIN s.conns}
           refused == {c \in a : ~AccessCheck("Host", c)}
<1>2. /\ got' = [c \in Clients |-> IF c \in refused THEN <<[status |-> "403", of |-> 0]>> ELSE s.got[c]]
      /\ wire' = [c \in Clients |-> IF c \in refused THEN <<>> ELSE s.wire[c]]
      /\ status' = [c \in Clients |-> IF c \in open THEN "open"
                                      ELSE IF c \in a \/ status[c] = "open" THEN "ended" ELSE status[c]]
      /\ script' = script /\ sent' = sent /\ gone' = gone
  BY <1>1 DEF HandleEvent
<1>3. script \in Scripts
  BY DEF ControlTypes
<1>4. Half(s, queue, ks, Len(ks))
  <2>1. PICK n : n = Len(ks)
    OBVIOUS
  <2>2. s.again \/ Half(s, queue, ks, Len(ks))
    BY <1>1, <1>3, <2>1, ConnsHandled
  <2>. QED BY <1>1, <2>2
<1>5. HalfData(s, ks, Len(ks)) /\ HalfEvents(s, queue, ks, Len(ks)) /\ HalfConns(s, ks, Len(ks))
  BY <1>4 DEF Half
<1>6. DOMAIN ks = 1 .. Len(ks)
  BY DEF ConnsReady
<1> DEFINE Of(c) == \E n \in DOMAIN ks : ks[n].client = c
<1>7. /\ IsSeq(s.conns) /\ IsSeq(s.events) /\ OnlyTimer(s.events, queue) /\ AllTo(s.events)
      /\ \A i, j \in DOMAIN s.conns : s.conns[i].client = s.conns[j].client => i = j
      /\ \A i \in DOMAIN s.conns : Of(s.conns[i].client)
  BY <1>5, <1>6 DEF HalfEvents, HalfConns
<1>8. \A d \in Clients : ~Of(d) => /\ s.got[d] = got[d] /\ s.wire[d] = wire[d]
                                   /\ NoEvent(queue, d) => NoEvent(s.events, d)
  <2>1. \A d : ~Of(d) => Untouched(ks, Len(ks), d)
    BY <1>6 DEF Untouched
  <2>. QED BY <1>5, <2>1 DEF HalfData, HalfEvents
<1>9. \A d \in Clients : Of(d) => d \in open \/ NoEvent(s.events, d)
  BY <1>5, <1>6 DEF HalfConns
<1>10. \A d \in Clients : /\ Of(d) => d \notin refused /\ (d \in a \/ status[d] = "open")
                          /\ status[d] = "open" => Of(d)
  <2>1. \A c \in Clients : status[c] = "open" <=> \E n \in DOMAIN conns : conns[n].client = c
    BY DEF ConnsAreOpen
  <2>. QED BY <2>1 DEF Called
<1>11. open \subseteq Clients /\ \A d \in open : Of(d) /\ d \notin refused
  <2>1. \A i \in DOMAIN s.conns : s.conns[i].client \in Clients
    BY <1>5 DEF HalfConns, Settled, ConnShape
  <2>. QED BY <1>7, <1>10, <2>1
<1>12. \A c \in a : c \in Clients /\ status[c] = "queued"
  BY DEF Called
<1>. HIDE DEF Of, refused, open
<1>13. ControlTypes'
  <2>1. status' \in [Clients -> {"new", "queued", "open", "ended"}]
    BY <1>2 DEF ControlTypes
  <2>2. \A c \in Clients : wire'[c] \in Seq(PartSet) /\ IsSeq(got'[c])
    <3>. TAKE c \in Clients
    <3>1. CASE c \in refused
      <4>1. <<>> \in Seq(PartSet) /\ <<[status |-> "403", of |-> 0]>> \in Seq({[status |-> "403", of |-> 0]})
        OBVIOUS
      <4>2. IsSeq(<<[status |-> "403", of |-> 0]>>)
        BY <4>1, SeqIsSeq
      <4>. QED BY <1>2, <3>1, <4>1, <4>2
    <3>2. CASE c \notin refused
      BY <1>2, <1>5, <3>2 DEF HalfData
    <3>. QED BY <3>1, <3>2
  <2>3. wire' \in [Clients -> Seq(PartSet)] /\ got' = [c \in Clients |-> got'[c]]
    <3>1. wire' = [c \in Clients |-> wire'[c]] /\ got' = [c \in Clients |-> got'[c]]
      BY <1>2
    <3>. QED BY <2>2, <3>1
  <2>4. IsSeq(events')
    BY <1>1, <1>7
  <2>. QED BY <1>2, <2>1, <2>2, <2>3, <2>4 DEF ControlTypes
<1>14. \A c \in Clients : status'[c] = "open" <=> c \in open
  BY <1>2
<1>15. ConnsAreOpen'
  BY <1>1, <1>7, <1>14 DEF ConnsAreOpen, open
<1>16. ConnsFit'
  <2>1. ASSUME NEW n \in DOMAIN conns', NEW k, k = conns'[n]
        PROVE  Settled(k, wire'[k.client], sent'[k.client], Len(got'[k.client])) /\ Asked(events', k)
    <3>1. Settled(k, s.wire[k.client], sent[k.client], Len(s.got[k.client])) /\ Asked(s.events, k)
      BY <1>1, <1>5, <2>1 DEF HalfConns
    <3>2. k.client \in open
      BY <1>1, <2>1 DEF open
    <3>3. wire'[k.client] = s.wire[k.client] /\ got'[k.client] = s.got[k.client] /\ sent' = sent
      BY <1>2, <1>11, <3>2
    <3>. QED BY <1>1, <3>1, <3>3
  <2>2. FitNow
    BY <2>1 DEF FitNow
  <2>. QED BY <1>2, <2>2, FitsStay
<1>17. Unopened'
  <2>1. \A c \in Clients : status'[c] # "open" => NoEvent(events', c)
    BY <1>1, <1>8, <1>9, <1>10, <1>14 DEF Called
  <2>2. \A n \in DOMAIN events' : events'[n] # Timer => events'[n].to \in Clients
    BY <1>1, <1>7 DEF AllTo
  <2>3. ASSUME NEW c \in Clients, status'[c] \in {"new", "queued"}
        PROVE  c \notin refused /\ ~Of(c) /\ status[c] = status'[c]
    <3>1. c \notin open /\ c \notin a /\ status[c] # "open" /\ status'[c] = status[c]
      BY <1>2, <2>3
    <3>. QED BY <1>10, <3>1 DEF refused
  <2>4. \A c \in Clients : status'[c] \in {"new", "queued"} =>
          /\ got'[c] = <<>>
          /\ \/ sent'[c] = 0 /\ wire'[c] = <<>>
             \/ sent'[c] = 1 /\ status'[c] = "queued" /\ wire'[c] = Parts(c, 1)'
    <3>. TAKE c \in Clients
    <3>. HAVE status'[c] \in {"new", "queued"}
    <3>1. c \notin refused /\ ~Of(c) /\ status[c] = status'[c]
      BY <2>3
    <3>2. got'[c] = got[c] /\ wire'[c] = wire[c] /\ sent' = sent /\ Parts(c, 1)' = Parts(c, 1)
      <4>1. got'[c] = got[c] /\ wire'[c] = wire[c] /\ sent' = sent
        BY <1>2, <1>8, <3>1
      <4>2. Parts(c, 1)' = Parts(c, 1)
        BY <1>2 DEF Parts, Request
      <4>. QED BY <4>1, <4>2
    <3>. QED BY <3>1, <3>2 DEF Unopened
  <2>5. \A c \in gone : sent[c] <= Len(got'[c])
    <3>. TAKE c \in gone
    <3>1. c \in Clients /\ sent[c] <= Len(got[c]) /\ sent[c] \in Nat
      BY DEF ControlTypes, Unopened
    <3>2. CASE c \in refused
      <4>1. status[c] = "queued"
        BY <1>12, <3>2 DEF refused
      <4>2. sent[c] \in {0, 1}
        BY <3>1, <4>1 DEF Unopened
      <4>3. Len(got'[c]) = 1
        BY <1>2, <3>1, <3>2
      <4>. QED BY <4>2, <4>3
    <3>3. CASE c \notin refused
      <4>1. got'[c] = s.got[c] /\ Len(got[c]) <= Len(s.got[c]) /\ IsSeq(s.got[c])
        BY <1>2, <1>5, <3>1, <3>3 DEF HalfData
      <4>2. Len(s.got[c]) \in Nat /\ Len(got[c]) \in Nat
        <5>1. IsSeq(got[c])
          BY <3>1 DEF ControlTypes
        <5>. QED BY <4>1, <5>1, IsSeqFacts
      <4>. QED BY <3>1, <4>1, <4>2
    <3>. QED BY <3>2, <3>3
  <2>. QED BY <1>2, <2>1, <2>2, <2>4, <2>5 DEF Unopened
<1>. QED BY <1>1, <1>7, <1>13, <1>15, <1>16, <1>17 DEF Over

-----------------------------------------------------------------------------
(* The invariant, and what follows from it *)

\* What is known of each client
LEMMA ClientsOK ==
  ASSUME ControlTypes, Unopened
  PROVE  /\ \A c \in Clients : ClientOK(c)
         /\ got = [d \in Clients |-> got[d]] /\ wire = [d \in Clients |-> wire[d]]
         /\ \A d \in Clients : IsSeq(got[d]) /\ wire[d] \in Seq(PartSet)
<1>1. ASSUME NEW c \in Clients PROVE ClientOK(c)
  BY DEF ControlTypes, Unopened, ClientOK
<1>2. wire = [d \in Clients |-> wire[d]]
  BY DEF ControlTypes
<1>. QED BY <1>1, <1>2 DEF ControlTypes

\* A connection that is asking has an event.
LEMMA AskingHasEvent ==
  ASSUME NEW q, NEW k, Asked(q, k), k.state \in Asking
  PROVE  \E n \in DOMAIN q : q[n] # Timer /\ q[n].to = k.client
BY DEF Asked, OneEvent

\* None is asking while select waits.
LEMMA NoneAsks ==
  ASSUME ControlInv, \A n \in DOMAIN events : events[n] = Timer
  PROVE  /\ \A n \in DOMAIN conns : conns[n].state \notin Asking
         /\ \A c : NoEvent(events, c)
<1>1. \A c : NoEvent(events, c)
  BY DEF NoEvent
<1>2. ASSUME NEW n \in DOMAIN conns PROVE conns[n].state \notin Asking
  <2>1. Asked(events, conns[n])
    BY DEF ControlInv, ConnsFit
  <2>. QED BY <2>1, AskingHasEvent
<1>. QED BY <1>1, <1>2

\* The queue without its first event
LEMMA TailEvents ==
  ASSUME NEW q, IsSeq(q), q # <<>>
  PROVE  /\ IsSeq(Tail(q)) /\ (AllTo(q) => AllTo(Tail(q)))
         /\ \A d : NoEvent(q, d) => NoEvent(Tail(q), d)
         /\ \A k : Asked(q, k) /\ (Head(q) = Timer \/ Head(q).to # k.client) => Asked(Tail(q), k)
         /\ \A k : Asked(q, k) /\ Head(q) # Timer /\ Head(q).to = k.client =>
                      /\ k.state \in Asking /\ Head(q).client = k.client /\ Head(q).i = RequestOf(k)
                      /\ NoEvent(Tail(q), k.client)
<1>1. PICK r, l : r = Tail(q) /\ l = Len(q) /\ l \in Nat
  BY TailIsSeq
<1>2. /\ IsSeq(r) /\ l >= 1 /\ DOMAIN q = 1 .. l /\ DOMAIN r = 1 .. l - 1 /\ Head(q) = q[1]
      /\ \A n \in 1 .. l - 1 : r[n] = q[n + 1]
  BY <1>1, TailIsSeq
<1>3. \A n \in DOMAIN r : n + 1 \in DOMAIN q /\ n + 1 # 1 /\ r[n] = q[n + 1]
  <2>1. \A n \in 1 .. l - 1 : n + 1 \in 1 .. l /\ n + 1 # 1
    BY <1>1
  <2>. QED BY <1>2, <2>1
<1>4. \A n \in DOMAIN q : n = 1 \/ (n - 1 \in DOMAIN r /\ r[n - 1] = q[n] /\ (n - 1) + 1 = n)
  <2>1. \A n \in 1 .. l : n = 1 \/ (n - 1 \in 1 .. l - 1 /\ (n - 1) + 1 = n)
    BY <1>1
  <2>. QED BY <1>2, <2>1
<1>5. 1 \in DOMAIN q
  BY <1>2
<1>6. AllTo(q) => AllTo(r)
  BY <1>3 DEF AllTo
<1>7. ASSUME NEW d, NoEvent(q, d) PROVE NoEvent(r, d)
  BY <1>3, <1>7 DEF NoEvent
<1>8. ASSUME NEW k, Asked(q, k), Head(q) = Timer \/ Head(q).to # k.client PROVE Asked(r, k)
  <2>1. CASE k.state \in Asking
    <3>1. OneEvent(q, k)
      BY <1>8, <2>1 DEF Asked
    <3>2. PICK m \in DOMAIN q :
            /\ q[m] # Timer /\ q[m].to = k.client /\ q[m].client = k.client /\ q[m].i = RequestOf(k)
            /\ \A n \in DOMAIN q : q[n] # Timer /\ q[n].to = k.client => n = m
      BY <3>1, Zenon DEF OneEvent
    <3>3. m # 1
      BY <1>2, <1>8, <3>2
    <3>4. PICK j \in DOMAIN r : j = m - 1 /\ r[j] = q[m]
      BY <1>4, <3>3
    <3>5. \A n \in DOMAIN r : r[n] # Timer /\ r[n].to = k.client => n = j
      <4>. TAKE n \in DOMAIN r
      <4>. HAVE r[n] # Timer /\ r[n].to = k.client
      <4>1. n + 1 = m
        BY <1>3, <3>2
      <4>2. n \in Int
        BY <1>2
      <4>. QED BY <3>4, <4>1, <4>2
    <3>6. OneEvent(r, k)
      BY <3>2, <3>4, <3>5 DEF OneEvent
    <3>. QED BY <2>1, <3>6 DEF Asked
  <2>2. CASE k.state \notin Asking
    BY <1>7, <1>8, <2>2 DEF Asked
  <2>. QED BY <2>1, <2>2
<1>9. ASSUME NEW k, Asked(q, k), Head(q) # Timer, Head(q).to = k.client
      PROVE  /\ k.state \in Asking /\ Head(q).client = k.client /\ Head(q).i = RequestOf(k)
             /\ NoEvent(r, k.client)
  <2>1. ~NoEvent(q, k.client)
    BY <1>2, <1>5, <1>9 DEF NoEvent
  <2>2. k.state \in Asking /\ OneEvent(q, k)
    BY <1>9, <2>1 DEF Asked
  <2>3. PICK m \in DOMAIN q :
          /\ q[m] # Timer /\ q[m].to = k.client /\ q[m].client = k.client /\ q[m].i = RequestOf(k)
          /\ \A n \in DOMAIN q : q[n] # Timer /\ q[n].to = k.client => n = m
    BY <2>2, Zenon DEF OneEvent
  <2>4. m = 1
    BY <1>2, <1>5, <1>9, <2>3
  <2>5. NoEvent(r, k.client)
    BY <1>3, <2>3, <2>4 DEF NoEvent
  <2>. QED BY <1>2, <2>2, <2>3, <2>4, <2>5
<1>. QED BY <1>1, <1>2, <1>6, <1>7, <1>8, <1>9

\* A sequence with its elements replaced
LEMMA MapIsSeq ==
  ASSUME NEW q, IsSeq(q), NEW r, DOMAIN r = DOMAIN q, r = [n \in DOMAIN q |-> r[n]]
  PROVE  IsSeq(r)
<1>1. PICK l \in Nat : DOMAIN q = 1 .. l
  BY IsSeqFacts
<1>2. \A n \in 1 .. l : r[n] \in Range(r)
  BY <1>1 DEF Range
<1>3. r \in [1 .. l -> Range(r)]
  BY <1>1, <1>2
<1>4. r \in Seq(Range(r))
  BY <1>3
<1>. QED BY <1>4 DEF IsSeq

\* The property of the events and their requests follows.
LEMMA InvariantTells ==
  ASSUME ControlInv
  PROVE  EventsHaveRequests
<1> DEFINE Waiting == {"PARSE_HEADER", "PARSE_BODY", "PROCESS"}
           For(k) == {n \in DOMAIN events : events[n] # Timer /\ events[n].to = k.client}
<1>1. ControlTypes /\ ConnsAreOpen /\ ConnsFit /\ Unopened
  BY DEF ControlInv
<1>2. ASSUME NEW e \in Range(events), e # Timer
      PROVE  \E k \in Range(conns) : k.client = e.to /\ e.client = e.to /\ RequestOf(k) = e.i
  <2>1. PICK n \in DOMAIN events : e = events[n]
    BY DEF Range
  <2>2. e.to \in Clients /\ ~NoEvent(events, e.to)
    BY <1>1, <1>2, <2>1 DEF Unopened, NoEvent
  <2>3. status[e.to] = "open"
    BY <1>1, <2>2 DEF Unopened
  <2>4. PICK m \in DOMAIN conns : conns[m].client = e.to
    BY <1>1, <2>2, <2>3 DEF ConnsAreOpen
  <2>5. OneEvent(events, conns[m])
    BY <1>1, <2>2, <2>4 DEF ConnsFit, Asked
  <2>6. e.client = e.to /\ RequestOf(conns[m]) = e.i
    BY <1>2, <2>1, <2>4, <2>5 DEF OneEvent
  <2>7. conns[m] \in Range(conns)
    BY DEF Range
  <2>. QED BY <2>4, <2>6, <2>7
<1>3. ASSUME NEW k \in Range(conns)
      PROVE  /\ Cardinality(For(k)) = (IF k.state \in Waiting THEN 1 ELSE 0)
             /\ k.state = "KEEPALIVE" /\ wire[k.client] = <<>> => sent[k.client] = Len(got[k.client])
  <2>1. PICK n \in DOMAIN conns : k = conns[n]
    BY DEF Range
  <2>2. PICK c, w, s, g : c = k.client /\ w = wire[c] /\ s = sent[c] /\ g = Len(got[c])
    OBVIOUS
  <2>3. Settled(k, w, s, g) /\ Asked(events, k)
    BY <1>1, <2>1, <2>2 DEF ConnsFit
  <2>4. Cardinality(For(k)) = (IF k.state \in Waiting THEN 1 ELSE 0)
    <3>1. CASE k.state \in Waiting
      <4>1. OneEvent(events, k)
        BY <2>3, <3>1 DEF Asked, Asking
      <4>2. \E m : For(k) = {m}
        BY <4>1 DEF OneEvent
      <4>3. Cardinality(For(k)) = 1
        BY <4>2, FS_Singleton
      <4>. QED BY <3>1, <4>3
    <3>2. CASE k.state \notin Waiting
      <4>1. For(k) = {}
        BY <2>3, <3>2 DEF Asked, Asking, NoEvent
      <4>. QED BY <3>2, <4>1, FS_EmptySet
    <3>. QED BY <3>1, <3>2
  <2>5. ASSUME k.state = "KEEPALIVE", w = <<>> PROVE s = g
    <3>1. Coming(k, w, 0, s, g) /\ k.buf = <<>> /\ ConnShape(k)
      BY <2>3, <2>5 DEF Settled, Fits
    <3>2. Len(w) = 0 /\ Len(k.buf) = 0
      BY <2>5, <3>1
    <3>3. ~Doomed(w, 0)
      BY <3>2 DEF Doomed
    <3>4. CASE s = g + 1 /\ Whole(k, w, 0, s)
      <4>1. ClientOK(c) /\ c \in Clients /\ IsSeq(got[c]) /\ script \in Scripts
        BY <1>1, <2>2, <3>1, ClientsOK DEF ConnShape, ControlTypes
      <4>2. g \in Nat
        BY <2>2, <4>1, IsSeqFacts
      <4>3. sent[c] >= 1 => sent[c] \in 1 .. Len(script[c])
        BY <4>1, ClientFacts
      <4>4. s \in 1 .. Len(script[c])
        BY <2>2, <3>4, <4>2, <4>3
      <4>5. Size(c, s) = HeadAt(c, s) + Request(c, s).body /\ HeadAt(c, s) \in {1, 2} /\ Request(c, s).body \in Nat
        BY <4>1, <4>4, RequestFacts
      <4>6. Size(c, s) = 0
        BY <2>2, <3>2, <3>4 DEF Whole
      <4>. QED BY <4>5, <4>6
    <3>. QED BY <3>1, <3>3, <3>4 DEF Coming
  <2>. QED BY <2>2, <2>4, <2>5
<1>. QED BY <1>2, <1>3 DEF EventsHaveRequests

LEMMA InvariantInit ==
  ASSUME Init
  PROVE  ControlInv
<1>1. <<>> \in Seq({}) /\ <<>> \in Seq(PartSet) /\ Len(<<>>) = 0 /\ DOMAIN <<>> = {}
  OBVIOUS
<1>2. IsSeq(<<>>)
  BY <1>1, SeqIsSeq
<1>3. \A c \in Clients : Len(script[c]) \in Nat
  BY ScriptLength DEF Init
<1>4. ControlTypes
  <2>1. \A c \in Clients : got[c] = <<>> /\ sent[c] = 0 /\ wire[c] = <<>>
    BY DEF Init
  <2>2. got = [c \in Clients |-> got[c]] /\ \A c \in Clients : IsSeq(got[c])
    BY <1>2, <2>1 DEF Init
  <2>3. wire \in [Clients -> Seq(PartSet)] /\ sent \in [Clients -> Nat]
    BY <1>1 DEF Init
  <2>4. status \in [Clients -> {"new", "queued", "open", "ended"}] /\ gone \in SUBSET Clients /\ polled \in BOOLEAN
    BY DEF Init
  <2>5. script \in Scripts /\ IsSeq(events)
    BY <1>2 DEF Init
  <2>6. \A c \in Clients : sent[c] <= Len(script[c])
    BY <1>3, <2>1
  <2>. QED BY <2>2, <2>3, <2>4, <2>5, <2>6 DEF ControlTypes
<1>5. ConnsAreOpen
  BY <1>1, <1>2 DEF Init, ConnsAreOpen
<1>6. ConnsFit
  BY <1>1 DEF Init, ConnsFit
<1>7. Unopened
  BY <1>1 DEF Init, Unopened, NoEvent
<1>8. TimerFirst
  BY <1>1 DEF Init, TimerFirst
<1>. QED BY <1>4, <1>5, <1>6, <1>7, <1>8 DEF ControlInv

-----------------------------------------------------------------------------
(* The steps of the loop *)

\* None or one connection is accepted.
LEMMA AcceptedIs ==
  ASSUME NEW a, a \in {{c} : c \in Clients} \cup {{}}
  PROVE  \/ Accepted(a) = <<>>
         \/ \E c \in a : AccessCheck("Host", c) /\ Accepted(a) = <<NewConn(c)>>
<1> DEFINE S == {NewConn(c) : c \in {d \in a : AccessCheck("Host", d)}}
<1>1. Accepted(a) = SetToSeq(S)
  BY Zenon DEF Accepted
<1>2. S = {} \/ \E c \in a : AccessCheck("Host", c) /\ S = {NewConn(c)}
  <2>1. CASE a = {}
    BY <2>1
  <2>2. ASSUME NEW c \in Clients, a = {c} PROVE S = {} \/ (AccessCheck("Host", c) /\ S = {NewConn(c)})
    BY <2>2
  <2>. QED BY <2>1, <2>2
<1>. HIDE DEF S
<1>3. CASE S = {}
  <2>1. Cardinality(S) = 0
    BY <1>3, FS_EmptySet
  <2>2. \A f : f \in [1 .. 0 -> S] => f = <<>>
    OBVIOUS
  <2>3. <<>> \in [1 .. 0 -> S] /\ IsInjective(<<>>)
    BY DEF IsInjective
  <2>4. SetToSeq(S) = <<>>
    BY <2>1, <2>2, <2>3 DEF SetToSeq
  <2>. QED BY <1>1, <2>4
<1>4. ASSUME NEW c \in a, AccessCheck("Host", c), S = {NewConn(c)}
      PROVE  Accepted(a) = <<NewConn(c)>>
  <2>1. PICK x : x = NewConn(c)
    OBVIOUS
  <2>2. S = {x} /\ Cardinality(S) = 1
    BY <1>4, <2>1, FS_Singleton
  <2>3. \A f : f \in [1 .. 1 -> {x}] => f = <<x>>
    OBVIOUS
  <2>4. <<x>> \in [1 .. 1 -> {x}] /\ IsInjective(<<x>>)
    BY DEF IsInjective
  <2>5. SetToSeq(S) = <<x>>
    BY <2>2, <2>3, <2>4 DEF SetToSeq
  <2>. QED BY <1>1, <2>1, <2>5
<1>. QED BY <1>2, <1>3, <1>4

\* A connection of a client that has just been accepted
LEMMA NewConnSettles ==
  ASSUME ControlTypes, Unopened, NEW c \in Clients, status[c] = "queued", NEW k, k = NewConn(c)
  PROVE  /\ Settled(k, wire[c], sent[c], Len(got[c])) /\ k.client = c /\ k.state = "READ_HEADER"
<1>1. /\ k.client = c /\ k.state = "READ_HEADER" /\ k.wr = FALSE /\ k.keep = FALSE /\ k.age = 0 /\ k.buf = <<>>
      /\ ConnShape(k) /\ Len(k.buf) = 0
  BY DEF NewConn, ConnShape
<1>2. Len(got[c]) = 0
  BY DEF Unopened
<1>3. Coming(k, wire[c], 0, sent[c], Len(got[c]))
  <2>1. CASE sent[c] = 0 /\ wire[c] = <<>>
    BY <1>1, <1>2, <2>1 DEF Coming
  <2>2. CASE sent[c] = 1 /\ wire[c] = Parts(c, 1)
    <3>1. script \in Scripts /\ 1 \in 1 .. Len(script[c])
      <4>1. script \in Scripts /\ sent[c] <= Len(script[c])
        BY DEF ControlTypes
      <4>2. Len(script[c]) \in Nat
        BY <4>1, ScriptLength
      <4>. QED BY <2>2, <4>1, <4>2
    <3>2. /\ Len(wire[c]) = Size(c, 1) /\ HeadAt(c, 1) \in {1, 2} /\ Request(c, 1).body \in Nat
          /\ Size(c, 1) = HeadAt(c, 1) + Request(c, 1).body
          /\ \A p \in 1 .. Size(c, 1) : wire[c][p] = PartAt(c, 1, p)
      BY <2>2, <3>1, PartsFacts, RequestFacts
    <3>3. Whole(k, wire[c], 0, 1)
      BY <1>1, <3>2 DEF Whole
    <3>. QED BY <1>1, <1>2, <2>2, <3>2, <3>3 DEF Coming
  <2>. QED BY <2>1, <2>2 DEF Unopened
<1>4. Fits(k, wire[c], 0, sent[c], Len(got[c]))
  BY <1>1, <1>3 DEF Fits, States, Asking
<1>. QED BY <1>1, <1>4 DEF Settled, Asking

\* The connections the server is called for
Served(ks, a) ==
    /\ Len(ks) \in Nat /\ DOMAIN ks = 1 .. Len(ks)
    /\ \A n \in DOMAIN ks : \/ \E m \in DOMAIN conns : ks[n] = conns[m]
                            \/ \E c \in a : AccessCheck("Host", c) /\ ks[n] = NewConn(c)
    /\ \A m \in DOMAIN conns : \E n \in DOMAIN ks : ks[n] = conns[m]
    /\ \A m, n \in DOMAIN ks : ks[m].client = ks[n].client => m = n
LEMMA ServedAre ==
  ASSUME ConnsAreOpen, NEW a, a \in {{c} : c \in Clients} \cup {{}}, \A c \in a : status[c] = "queued",
         NEW ks, ks = Accepted(a) \o conns
  PROVE  Served(ks, a)
<1>1. IsSeq(conns) /\ conns \in Seq(Range(conns))
  BY DEF ConnsAreOpen, IsSeq
<1>2. PICK l : l = Len(conns) /\ l \in Nat /\ DOMAIN conns = 1 .. l
  BY <1>1, IsSeqFacts
<1>3. \A m, n \in DOMAIN conns : conns[m].client = conns[n].client => m = n
  BY DEF ConnsAreOpen
<1>4. CASE Accepted(a) = <<>>
  <2>1. ks = conns
    BY <1>1, <1>4, ConcatEmptySeq
  <2>. QED BY <1>2, <1>3, <2>1 DEF Served
<1>5. ASSUME NEW c \in a, AccessCheck("Host", c), Accepted(a) = <<NewConn(c)>>
      PROVE  Served(ks, a)
  <2>1. PICK x : x = NewConn(c)
    OBVIOUS
  <2>2. x.client = c
    BY <2>1 DEF NewConn
  <2>3. /\ Len(ks) = l + 1 /\ DOMAIN ks = 1 .. l + 1 /\ ks[1] = x
        /\ \A i \in 2 .. l + 1 : ks[i] = conns[i - 1]
    <3> DEFINE S == Range(conns) \cup {x}
    <3>1. conns \in Seq(S) /\ <<x>> \in Seq(S)
      <4>1. Range(conns) \subseteq S /\ x \in S
        OBVIOUS
      <4>. HIDE DEF S
      <4>. QED BY <1>1, <4>1, SeqMonotonic
    <3>. HIDE DEF S
    <3>2. ks = <<x>> \o conns /\ Len(<<x>>) = 1 /\ <<x>>[1] = x
      BY <1>5, <2>1
    <3>3. /\ ks \in Seq(S) /\ Len(ks) = Len(<<x>>) + Len(conns)
          /\ \A i \in 1 .. Len(<<x>>) + Len(conns) :
                ks[i] = IF i <= Len(<<x>>) THEN <<x>>[i] ELSE conns[i - Len(<<x>>)]
      BY <3>1, <3>2, ConcatProperties
    <3>4. Len(ks) = l + 1 /\ \A i \in 1 .. l + 1 : ks[i] = IF i <= 1 THEN <<x>>[i] ELSE conns[i - 1]
      BY <1>2, <3>2, <3>3
    <3>5. DOMAIN ks = 1 .. l + 1
      BY <3>3, <3>4, LenProperties
    <3>. QED BY <1>2, <3>2, <3>4, <3>5
  <2>4. \A n \in DOMAIN ks : (n = 1 /\ ks[n] = x) \/ (n - 1 \in DOMAIN conns /\ ks[n] = conns[n - 1])
    <3>1. \A n \in 1 .. l + 1 : n = 1 \/ (n \in 2 .. l + 1 /\ n - 1 \in 1 .. l)
      BY <1>2
    <3>. QED BY <1>2, <2>3, <3>1
  <2>5. \A m \in DOMAIN conns : m + 1 \in DOMAIN ks /\ ks[m + 1] = conns[m]
    <3>1. \A m \in 1 .. l : m + 1 \in 1 .. l + 1 /\ m + 1 \in 2 .. l + 1 /\ (m + 1) - 1 = m
      BY <1>2
    <3>. QED BY <1>2, <2>3, <3>1
  <2>6. \A m \in DOMAIN conns : conns[m].client # c
    <3>1. c \in Clients /\ status[c] # "open"
      OBVIOUS
    <3>. QED BY <3>1 DEF ConnsAreOpen
  <2>7. ASSUME NEW m \in DOMAIN ks, NEW n \in DOMAIN ks, ks[m].client = ks[n].client PROVE m = n
    <3>1. CASE m = 1 /\ n = 1
      BY <3>1
    <3>2. CASE ks[m] = x /\ n - 1 \in DOMAIN conns /\ ks[n] = conns[n - 1]
      BY <2>2, <2>6, <2>7, <3>2
    <3>3. CASE ks[n] = x /\ m - 1 \in DOMAIN conns /\ ks[m] = conns[m - 1]
      BY <2>2, <2>6, <2>7, <3>3
    <3>4. CASE /\ n - 1 \in DOMAIN conns /\ ks[n] = conns[n - 1]
               /\ m - 1 \in DOMAIN conns /\ ks[m] = conns[m - 1]
      <4>1. m - 1 = n - 1
        BY <1>3, <2>7, <3>4
      <4>2. m \in Int /\ n \in Int
        BY <2>3
      <4>. QED BY <4>1, <4>2
    <3>. QED BY <2>4, <3>1, <3>2, <3>3, <3>4
  <2>8. \A n \in DOMAIN ks : \/ \E m \in DOMAIN conns : ks[n] = conns[m]
                             \/ \E d \in a : AccessCheck("Host", d) /\ ks[n] = NewConn(d)
    BY <1>5, <2>1, <2>4
  <2>9. Len(ks) \in Nat /\ DOMAIN ks = 1 .. Len(ks)
    BY <1>2, <2>3
  <2>. QED BY <2>5, <2>7, <2>8, <2>9 DEF Served
<1>. QED BY <1>4, <1>5, AcceptedIs

\* select reports: connections are accepted, read, answered and closed.
LEMMA HandleFdKeeps ==
  ASSUME Exposed = {}, ControlInv, HandleFd
  PROVE  ControlInv'
<1>1. ControlTypes /\ ConnsAreOpen /\ ConnsFit /\ Unopened /\ TimerFirst
  BY DEF ControlInv
<1>2. PICK io \in Ios(conns), a \in {{c} : c \in Clients} \cup {{}} :
         /\ IF \A c \in Clients : status[c] # "queued" THEN a = {}
            ELSE a # {} /\ \A c \in a : status[c] = "queued"
         /\ HandleEvent(Accepted(a) \o conns, events, a, Reports(io))
  BY DEF HandleFd
<1>3. polled /\ polled' = FALSE
      /\ ~(events # <<>> /\ \E n \in DOMAIN conns' : conns'[n].state \in {"PARSE_HEADER", "PARSE_BODY"})
  BY DEF HandleFd
<1>4. /\ \A n \in DOMAIN conns : conns[n].state \notin Asking
      /\ \A c : NoEvent(events, c)
  BY <1>1, <1>3, NoneAsks DEF TimerFirst
<1>5. a \subseteq Clients /\ \A c \in a : c \in Clients /\ status[c] = "queued"
  BY <1>2
<1>6. PICK ks : ks = Accepted(a) \o conns
  OBVIOUS
<1>7. Served(ks, a)
  BY <1>1, <1>5, <1>6, ServedAre
<1>8. /\ \A c \in Clients : ClientOK(c)
      /\ got = [d \in Clients |-> got[d]] /\ wire = [d \in Clients |-> wire[d]]
      /\ \A d \in Clients : IsSeq(got[d]) /\ wire[d] \in Seq(PartSet)
  BY <1>1, ClientsOK
<1>9. DOMAIN io = {conns[n].client : n \in DOMAIN conns} /\
      \A c \in DOMAIN io : /\ io[c].first \in 0 .. Len(wire[c]) /\ io[c].then \in 0 .. Len(wire[c])
                           /\ io[c].full \in BOOLEAN
  <2> DEFINE open == {conns[n].client : n \in DOMAIN conns}
             Of(c) == {r \in [first : 0..Len(wire[c]), then : 0..Len(wire[c]), full : BOOLEAN] : r.first <= r.then}
  <2>1. io \in [open -> UNION {Of(c) : c \in open}] /\ \A c \in open : io[c] \in Of(c)
    BY <1>2 DEF Ios
  <2>. QED BY <2>1
<1>10. PICK rs : rs = Reports(io)
  OBVIOUS
<1>11. ASSUME NEW c \in Clients
       PROVE  /\ rs[c].select \in BOOLEAN /\ rs[c].first \in 0 .. Len(wire[c]) /\ rs[c].then \in 0 .. Len(wire[c])
              /\ rs[c].full \in BOOLEAN
  <2>1. PICK w : w = IF c \in DOMAIN io THEN io[c] ELSE [first |-> 0, then |-> Len(wire[c]), full |-> FALSE]
    OBVIOUS
  <2>2. rs[c] = [select |-> c \in Selected(io), first |-> w.first, then |-> w.then, full |-> w.full]
    <3> DEFINE With(d) == IF d \in DOMAIN io THEN io[d]
                          ELSE [first |-> 0, then |-> Len(wire[d]), full |-> FALSE]
               R(d) == [select |-> d \in Selected(io), first |-> With(d).first, then |-> With(d).then,
                        full |-> With(d).full]
    <3>1. rs = [d \in Clients |-> R(d)]
      BY <1>10 DEF Reports
    <3>2. w = With(c)
      BY <2>1
    <3>. HIDE DEF With
    <3>3. R(c) = [select |-> c \in Selected(io), first |-> w.first, then |-> w.then, full |-> w.full]
      BY <3>2
    <3>. HIDE DEF R
    <3>. QED BY <3>1, <3>3
  <2>3. Len(wire[c]) \in Nat
    BY <1>8, LenProperties
  <2>4. w.first \in 0 .. Len(wire[c]) /\ w.then \in 0 .. Len(wire[c]) /\ w.full \in BOOLEAN
    <3>1. CASE c \in DOMAIN io
      <4>1. w = io[c]
        BY <2>1, <3>1
      <4>. QED BY <1>9, <3>1, <4>1, Zenon
    <3>2. CASE c \notin DOMAIN io
      <4>1. w = [first |-> 0, then |-> Len(wire[c]), full |-> FALSE]
        BY <2>1, <3>2, Zenon
      <4>2. w.first = 0 /\ w.then = Len(wire[c]) /\ w.full = FALSE
        BY <4>1
      <4>3. w.first \in 0 .. Len(wire[c]) /\ w.then \in 0 .. Len(wire[c])
        BY <2>3, <4>2
      <4>4. FALSE \in BOOLEAN
        OBVIOUS
      <4>. QED BY <4>2, <4>3, <4>4, Zenon
    <3>. QED BY <3>1, <3>2, Zenon
  <2>. QED BY <2>2, <2>4
<1>12. ASSUME NEW n \in DOMAIN ks, NEW k, k = ks[n]
       PROVE  /\ Settled(k, wire[k.client], sent[k.client], Len(got[k.client])) /\ k.state \notin Asking
              /\ \/ k.client \in a /\ AccessCheck("Host", k.client)
                 \/ \E m \in DOMAIN conns : conns[m].client = k.client
  <2>1. CASE \E m \in DOMAIN conns : k = conns[m]
    BY <1>1, <1>4, <2>1 DEF ConnsFit
  <2>2. ASSUME NEW c \in a, AccessCheck("Host", c), k = NewConn(c)
        PROVE  /\ Settled(k, wire[k.client], sent[k.client], Len(got[k.client])) /\ k.state \notin Asking
               /\ k.client \in a /\ AccessCheck("Host", k.client)
    <3>1. Settled(k, wire[c], sent[c], Len(got[c])) /\ k.client = c /\ k.state = "READ_HEADER"
      BY <1>1, <1>5, <2>2, NewConnSettles
    <3>. QED BY <2>2, <3>1 DEF Asking
  <2>3. \/ \E m \in DOMAIN conns : ks[n] = conns[m]
        \/ \E c \in a : AccessCheck("Host", c) /\ ks[n] = NewConn(c)
    BY <1>7 DEF Served
  <2>. QED BY <1>12, <2>1, <2>2, <2>3
<1>13. ConnsReady(ks, events, rs)
  <2>1. ASSUME NEW n \in DOMAIN ks, NEW k, k = ks[n]
        PROVE  /\ ClientOK(k.client) /\ Settled(k, wire[k.client], sent[k.client], Len(got[k.client]))
               /\ Asked(events, k) /\ k.state \notin {"PARSE_HEADER", "PARSE_BODY"} /\ IoFits(rs, k, wire[k.client])
    <3>1. Settled(k, wire[k.client], sent[k.client], Len(got[k.client])) /\ k.state \notin Asking
      BY <1>12, <2>1
    <3>2. k.client \in Clients
      BY <3>1 DEF Settled, ConnShape
    <3>3. IoFits(rs, k, wire[k.client])
      BY <1>11, <3>1, <3>2 DEF IoFits
    <3>. QED BY <1>4, <1>8, <3>1, <3>2, <3>3 DEF Asked, Asking
  <2>2. IsSeq(events) /\ AllTo(events)
    BY <1>1 DEF ControlTypes, Unopened, AllTo
  <2>3. Len(ks) \in Nat /\ DOMAIN ks = 1 .. Len(ks) /\ \A m, n \in DOMAIN ks : ks[m].client = ks[n].client => m = n
    BY <1>7 DEF Served
  <2>. QED BY <1>8, <2>1, <2>2, <2>3 DEF ConnsReady
<1>14. Called(ks, events, a)
  <2>1. \A m \in DOMAIN conns : \E n \in DOMAIN ks : ks[n].client = conns[m].client
    BY <1>7 DEF Served
  <2>2. \A n \in DOMAIN ks : \/ ks[n].client \in a /\ AccessCheck("Host", ks[n].client)
                             \/ \E m \in DOMAIN conns : conns[m].client = ks[n].client
    BY <1>12
  <2>. QED BY <1>4, <1>5, <2>1, <2>2 DEF Called
<1>15. HandleEvent(ks, events, a, rs)
  BY <1>2, <1>6, <1>10
<1>16. Over(events)
  BY <1>1, <1>3, <1>13, <1>14, <1>15, HandleEventDoes
<1>17. ControlTypes' /\ ConnsAreOpen' /\ ConnsFit' /\ Unopened' /\ OnlyTimer(events', events)
  BY <1>16 DEF Over
<1>18. TimerFirst'
  <2>1. ASSUME NEW n \in DOMAIN events', events'[n] = Timer
        PROVE  n = 1 /\ \A m \in DOMAIN conns' : conns'[m].state \notin {"PARSE_HEADER", "PARSE_BODY"}
    <3>1. n \in DOMAIN events /\ events[n] = Timer
      BY <1>17, <2>1 DEF OnlyTimer
    <3>2. events # <<>>
      BY <3>1
    <3>. QED BY <1>1, <1>3, <3>1, <3>2 DEF TimerFirst
  <2>. QED BY <1>3, <2>1 DEF TimerFirst
<1>. QED BY <1>17, <1>18 DEF ControlInv

\* The timer's event: nothing is asked for, or it waits for its event.
LEMMA ExecuteTimerKeeps ==
  ASSUME Exposed = {}, ControlInv, ExecuteTimer
  PROVE  ControlInv'
<1>1. ControlTypes /\ ConnsAreOpen /\ ConnsFit /\ Unopened /\ TimerFirst
  BY DEF ControlInv
<1>2. polled = FALSE /\ polled' = FALSE /\ events # <<>> /\ Head(events) = Timer
  BY <1>1 DEF ExecuteTimer, ControlTypes
<1>3. PICK full, none, rs :
        /\ full \in BOOLEAN /\ none \in BOOLEAN /\ none = FALSE
        /\ rs = [c \in Clients |-> [select |-> none, first |-> 0, then |-> 0, full |-> full]]
        /\ HandleEvent(conns, Tail(events), {}, rs)
  <2>1. PICK none \in BOOLEAN : none = FALSE
    <3>1. FALSE \in BOOLEAN
      OBVIOUS
    <3>. QED BY <3>1, Zenon
  <2>2. PICK full \in BOOLEAN :
          HandleEvent(conns, Tail(events), {},
                      [c \in Clients |-> [select |-> FALSE, first |-> 0, then |-> 0, full |-> full]])
    BY Zenon DEF ExecuteTimer
  <2>. QED BY <2>1, <2>2, Zenon
<1>4. IsSeq(events)
  BY <1>1 DEF ControlTypes
<1>5. PICK q : q = Tail(events)
  OBVIOUS
<1>6. /\ IsSeq(q) /\ (AllTo(events) => AllTo(q))
      /\ \A d : NoEvent(events, d) => NoEvent(q, d)
      /\ \A k : Asked(events, k) => Asked(q, k)
  BY <1>2, <1>4, <1>5, TailEvents
<1>7. PICK l \in Nat : /\ DOMAIN events = 1 .. l /\ l >= 1 /\ DOMAIN q = 1 .. l - 1 /\ events[1] = Timer
                       /\ \A n \in 1 .. l - 1 : q[n] = events[n + 1]
  BY <1>2, <1>4, <1>5, TailIsSeq
<1>8. \A m \in DOMAIN conns : conns[m].state \notin {"PARSE_HEADER", "PARSE_BODY"}
  <2>1. 1 \in DOMAIN events
    BY <1>7
  <2>. QED BY <1>1, <1>7, <2>1 DEF TimerFirst
<1>9. \A n \in DOMAIN q : q[n] # Timer
  <2>1. \A n \in 1 .. l - 1 : n + 1 \in 1 .. l /\ n + 1 # 1
    BY <1>7
  <2>. QED BY <1>1, <1>7, <2>1 DEF TimerFirst
<1>10. AllTo(q)
  BY <1>1, <1>6 DEF Unopened, AllTo
<1>11. /\ \A c \in Clients : ClientOK(c)
       /\ got = [d \in Clients |-> got[d]] /\ wire = [d \in Clients |-> wire[d]]
       /\ \A d \in Clients : IsSeq(got[d]) /\ wire[d] \in Seq(PartSet)
  BY <1>1, ClientsOK
<1>12. IsSeq(conns) /\ Len(conns) \in Nat /\ DOMAIN conns = 1 .. Len(conns)
  BY <1>1, IsSeqFacts DEF ConnsAreOpen
<1>13. ConnsReady(conns, q, rs)
  <2>1. ASSUME NEW n \in DOMAIN conns, NEW k, k = conns[n]
        PROVE  /\ ClientOK(k.client) /\ Settled(k, wire[k.client], sent[k.client], Len(got[k.client]))
               /\ Asked(q, k) /\ k.state \notin {"PARSE_HEADER", "PARSE_BODY"} /\ IoFits(rs, k, wire[k.client])
    <3>1. Settled(k, wire[k.client], sent[k.client], Len(got[k.client])) /\ Asked(q, k)
      BY <1>1, <1>6, <2>1 DEF ConnsFit
    <3>2. k.client \in Clients
      BY <3>1 DEF Settled, ConnShape
    <3>3. rs[k.client].select = none /\ rs[k.client].first = 0 /\ rs[k.client].then = 0 /\ rs[k.client].full = full
      BY <1>3, <3>2
    <3>4. Len(wire[k.client]) \in Nat
      BY <1>11, <3>2, LenProperties
    <3>5. 0 \in 0 .. Len(wire[k.client])
      BY <3>4
    <3>6. IoFits(rs, k, wire[k.client])
      BY <1>3, <3>3, <3>5, Zenon DEF IoFits
    <3>. QED BY <1>8, <1>11, <2>1, <3>1, <3>2, <3>6
  <2>2. \A m, n \in DOMAIN conns : conns[m].client = conns[n].client => m = n
    BY <1>1 DEF ConnsAreOpen
  <2>. QED BY <1>6, <1>10, <1>11, <1>12, <2>1, <2>2 DEF ConnsReady
<1>14. Called(conns, q, {})
  BY <1>1, <1>6 DEF Called, Unopened
<1>15. HandleEvent(conns, q, {}, rs)
  BY <1>3, <1>5
<1>16. polled' \in BOOLEAN
  BY <1>2
<1>17. Over(q)
  BY <1>1, <1>13, <1>14, <1>15, <1>16, HandleEventDoes
<1>18. ControlTypes' /\ ConnsAreOpen' /\ ConnsFit' /\ Unopened' /\ OnlyTimer(events', q)
  BY <1>17 DEF Over
<1>19. TimerFirst'
  BY <1>2, <1>9, <1>18 DEF TimerFirst, OnlyTimer
<1>. QED BY <1>18, <1>19 DEF ControlInv

\* A connection that is asking gets its answer.
LEMMA RespondSettles ==
  ASSUME NEW k, NEW w, NEW s, NEW g, Settled(k, w, s, g), k.state \in Asking, NEW e, NEW result,
         NEW k1, k1 = Respond(k, e, result)
  PROVE  /\ Settled(k1, w, s, g) /\ k1.client = k.client /\ k1.state \notin Asking
<1>1. /\ k = [client |-> k.client, state |-> k.state, wr |-> k.wr, keep |-> k.keep, age |-> k.age,
              buf |-> k.buf, lreq |-> k.lreq, lb |-> k.lb, answer |-> k.answer]
      /\ k.client \in Clients /\ k.wr \in BOOLEAN /\ k.keep \in BOOLEAN
      /\ k.buf \in Seq(PartSet) /\ k.lreq \in Nat /\ k.lb \in Nat
  BY DEF Settled, ConnShape
<1>2. s = g + 1 /\ k.lb = Len(k.buf) - k.lreq /\ Len(w) = 0
  BY DEF Settled, Fits
<1>3. PICK m : m = MkHeader(k, result)
  OBVIOUS
<1>4. m = [k EXCEPT !.state = "WRITE", !.answer = [status |-> result, of |-> RequestOf(k)]]
  BY <1>3 DEF MkHeader
<1>5. k1 = [m EXCEPT !.wr = TRUE, !.answer.of = e.i]
  BY <1>3 DEF Respond
<1>6. TRUE \in BOOLEAN
  OBVIOUS
<1>7. PICK yes \in BOOLEAN : yes = TRUE
  BY <1>6, Zenon
<1>8. k1 = [m EXCEPT !.wr = yes, !.answer.of = e.i]
  BY <1>5, <1>7, Zenon
<1>9. /\ m = [client |-> k.client, state |-> "WRITE", wr |-> k.wr, keep |-> k.keep, age |-> k.age,
              buf |-> k.buf, lreq |-> k.lreq, lb |-> k.lb, answer |-> m.answer]
  BY <1>1, <1>4
<1>10. /\ k1 = [client |-> k.client, state |-> "WRITE", wr |-> yes, keep |-> k.keep, age |-> k.age,
                buf |-> k.buf, lreq |-> k.lreq, lb |-> k.lb, answer |-> k1.answer]
  <2>1. PICK an : k1 = [[m EXCEPT !.wr = yes] EXCEPT !.answer = an]
    BY <1>8
  <2>2. PICK m2 : m2 = [m EXCEPT !.wr = yes]
    OBVIOUS
  <2>3. /\ m2 = [client |-> k.client, state |-> "WRITE", wr |-> yes, keep |-> k.keep, age |-> k.age,
              buf |-> k.buf, lreq |-> k.lreq, lb |-> k.lb, answer |-> m.answer]
    BY <1>9, <2>2
  <2>4. k1 = [m2 EXCEPT !.answer = an]
    BY <2>1, <2>2, Zenon
  <2>5. k1 = [client |-> k.client, state |-> "WRITE", wr |-> yes, keep |-> k.keep, age |-> k.age,
              buf |-> k.buf, lreq |-> k.lreq, lb |-> k.lb, answer |-> an]
    BY <2>3, <2>4
  <2>6. k1.answer = an
    BY <2>5
  <2>. QED BY <2>5, <2>6
<1>11. /\ k1.client = k.client /\ k1.state = "WRITE" /\ k1.wr = yes /\ k1.keep = k.keep /\ k1.buf = k.buf
       /\ k1.lreq = k.lreq /\ k1.lb = k.lb /\ k1.age = k.age
  BY <1>10
<1>12. ConnShape(k1)
  <2>1. k1 = [client |-> k1.client, state |-> k1.state, wr |-> k1.wr, keep |-> k1.keep, age |-> k1.age,
              buf |-> k1.buf, lreq |-> k1.lreq, lb |-> k1.lb, answer |-> k1.answer]
    BY <1>10
  <2>2. k1.wr \in BOOLEAN /\ k1.keep \in BOOLEAN
    BY <1>1, <1>7, <1>11, Zenon
  <2>. QED BY <1>1, <1>11, <2>1, <2>2, Zenon DEF ConnShape
<1>13. Left(k1, w, 0)
  <2>1. Len(k.buf) \in Nat
    BY <1>1, LenProperties
  <2>2. Len(k.buf) = k.lreq + k.lb
    BY <1>1, <1>2, <2>1
  <2>. QED BY <1>2, <1>11, <2>2 DEF Left
<1>14. Fits(k1, w, 0, s, g)
  BY <1>2, <1>11, <1>13 DEF Fits, States, Asking
<1>15. k1.state \notin Asking /\ k1.state # "FINISHED" /\ k1.state # "CLOSE"
  BY <1>11 DEF Asking
<1>. QED BY <1>11, <1>12, <1>14, <1>15, Zenon DEF Settled

\* The event at the head of the queue is executed.
LEMMA ExecuteKeeps ==
  ASSUME ControlInv, Execute
  PROVE  ControlInv'
<1>1. ControlTypes /\ ConnsAreOpen /\ ConnsFit /\ Unopened /\ TimerFirst
  BY DEF ControlInv
<1>2. PICK e, status1 :
        /\ polled = FALSE /\ events # <<>> /\ Head(events) # Timer /\ e = Head(events)
        /\ conns' = [n \in DOMAIN conns |-> IF conns[n].client = e.to
                                            THEN Respond(conns[n], e, status1) ELSE conns[n]]
        /\ events' = Tail(events) /\ polled' = polled
        /\ script' = script /\ status' = status /\ sent' = sent /\ wire' = wire /\ gone' = gone /\ got' = got
  <2>1. /\ polled = FALSE /\ events # <<>> /\ Head(events) # Timer /\ events' = Tail(events) /\ polled' = polled
        /\ script' = script /\ status' = status /\ sent' = sent /\ wire' = wire /\ gone' = gone /\ got' = got
    BY <1>1 DEF Execute, clients, ControlTypes
  <2>2. PICK e : e = Head(events)
    OBVIOUS
  <2>3. PICK r : conns' = [n \in DOMAIN conns |-> IF conns[n].client = e.to
                                                 THEN Respond(conns[n], e, r.status) ELSE conns[n]]
    BY <2>2, Zenon DEF Execute
  <2>4. PICK status1 : status1 = r.status
    OBVIOUS
  <2>. QED BY <2>1, <2>2, <2>3, <2>4, Zenon
<1>3. IsSeq(events)
  BY <1>1 DEF ControlTypes
<1>4. PICK q : q = Tail(events)
  OBVIOUS
<1>5. /\ IsSeq(q) /\ (AllTo(events) => AllTo(q))
      /\ \A d : NoEvent(events, d) => NoEvent(q, d)
      /\ \A k : Asked(events, k) /\ e.to # k.client => Asked(q, k)
      /\ \A k : Asked(events, k) /\ e.to = k.client => k.state \in Asking /\ NoEvent(q, k.client)
  BY <1>2, <1>3, <1>4, TailEvents
<1>6. PICK l \in Nat : /\ DOMAIN events = 1 .. l /\ l >= 1 /\ DOMAIN q = 1 .. l - 1
                       /\ \A n \in 1 .. l - 1 : q[n] = events[n + 1]
  BY <1>2, <1>3, <1>4, TailIsSeq
<1>7. \A n \in DOMAIN q : q[n] # Timer
  <2>1. \A n \in 1 .. l - 1 : n + 1 \in 1 .. l /\ n + 1 # 1
    BY <1>6
  <2>. QED BY <1>1, <1>6, <2>1 DEF TimerFirst
<1>8. /\ DOMAIN conns' = DOMAIN conns
      /\ \A n \in DOMAIN conns : conns'[n] = IF conns[n].client = e.to
                                             THEN Respond(conns[n], e, status1) ELSE conns[n]
  BY <1>2
<1>9. ASSUME NEW n \in DOMAIN conns, NEW k, k = conns[n], NEW k1, k1 = conns'[n]
      PROVE  /\ k1.client = k.client /\ Settled(k1, wire[k.client], sent[k.client], Len(got[k.client]))
             /\ Asked(q, k1)
  <2>1. Settled(k, wire[k.client], sent[k.client], Len(got[k.client])) /\ Asked(events, k)
    BY <1>1, <1>9 DEF ConnsFit
  <2>2. CASE k.client = e.to
    <3>1. k1 = Respond(k, e, status1)
      BY <1>8, <1>9, <2>2
    <3>2. k.state \in Asking /\ NoEvent(q, k.client)
      BY <1>5, <2>1, <2>2
    <3>3. /\ Settled(k1, wire[k.client], sent[k.client], Len(got[k.client])) /\ k1.client = k.client
          /\ k1.state \notin Asking
      BY <2>1, <3>1, <3>2, RespondSettles
    <3>. QED BY <3>2, <3>3 DEF Asked
  <2>3. CASE k.client # e.to
    <3>1. k1 = k
      BY <1>8, <1>9, <2>3
    <3>. QED BY <1>5, <2>1, <2>3, <3>1
  <2>. QED BY <2>2, <2>3
<1>10. ControlTypes'
  BY <1>1, <1>2, <1>4, <1>5 DEF ControlTypes
<1>11. ConnsAreOpen'
  <2>1. conns' = [n \in DOMAIN conns |-> conns'[n]]
    BY <1>2
  <2>2. IsSeq(conns')
    <3>1. IsSeq(conns)
      BY <1>1 DEF ConnsAreOpen
    <3>. QED BY <1>8, <2>1, <3>1, MapIsSeq
  <2>3. \A n \in DOMAIN conns : conns'[n].client = conns[n].client
    BY <1>9
  <2>. QED BY <1>1, <1>2, <1>8, <2>2, <2>3 DEF ConnsAreOpen
<1>12. ConnsFit'
  <2>1. ASSUME NEW n \in DOMAIN conns', NEW k, k = conns'[n]
        PROVE  Settled(k, wire'[k.client], sent'[k.client], Len(got'[k.client])) /\ Asked(events', k)
    BY <1>2, <1>4, <1>8, <1>9, <2>1
  <2>2. FitNow
    BY <2>1 DEF FitNow
  <2>. QED BY <1>2, <2>2, FitsStay
<1>13. Unopened'
  <2>1. \A c \in Clients : Parts(c, 1)' = Parts(c, 1)
    BY <1>2 DEF Parts, Request
  <2>2. AllTo(q)
    BY <1>1, <1>5 DEF Unopened, AllTo
  <2>. QED BY <1>1, <1>2, <1>4, <1>5, <2>1, <2>2 DEF Unopened, AllTo
<1>14. TimerFirst'
  BY <1>2, <1>4, <1>7 DEF TimerFirst
<1>. QED BY <1>10, <1>11, <1>12, <1>13, <1>14 DEF ControlInv

\* A connection that is not asking gets older.
Aged(k1, k, w, s, g) == Settled(k1, w, s, g) /\ k1.client = k.client /\ k1.state \notin Asking
LEMMA OlderSettles ==
  ASSUME NEW k, NEW w, NEW s, NEW g, Settled(k, w, s, g), k.state \notin Asking, NEW age,
         NEW k1, k1 = [k EXCEPT !.age = age]
  PROVE  Aged(k1, k, w, s, g)
<1>1. /\ k = [client |-> k.client, state |-> k.state, wr |-> k.wr, keep |-> k.keep, age |-> k.age,
              buf |-> k.buf, lreq |-> k.lreq, lb |-> k.lb, answer |-> k.answer]
      /\ k.client \in Clients /\ k.wr \in BOOLEAN /\ k.keep \in BOOLEAN
      /\ k.buf \in Seq(PartSet) /\ k.lreq \in Nat /\ k.lb \in Nat
  BY DEF Settled, ConnShape
<1>2. k1 = [client |-> k.client, state |-> k.state, wr |-> k.wr, keep |-> k.keep, age |-> age,
            buf |-> k.buf, lreq |-> k.lreq, lb |-> k.lb, answer |-> k.answer]
  BY <1>1
<1>3. /\ k1.client = k.client /\ k1.state = k.state /\ k1.wr = k.wr /\ k1.keep = k.keep /\ k1.buf = k.buf
      /\ k1.lreq = k.lreq /\ k1.lb = k.lb /\ k1.answer = k.answer /\ k1.age = age
  BY <1>2
<1>4. ConnShape(k1)
  BY <1>1, <1>2, <1>3, Zenon DEF ConnShape
<1>5. /\ \A i : Whole(k, w, 0, i) => Whole(k1, w, 0, i)
      /\ Left(k, w, 0) => Left(k1, w, 0)
  BY <1>3 DEF Whole, Left
<1>6. /\ \A i : Begun(k, w, 0, i) => Begun(k1, w, 0, i)
      /\ Coming(k, w, 0, s, g) => Coming(k1, w, 0, s, g)
  BY <1>3, <1>5 DEF Begun, Coming
<1>7. Fits(k1, w, 0, s, g)
  BY <1>3, <1>5, <1>6 DEF Settled, Fits, Asking
<1>. QED BY <1>3, <1>4, <1>7 DEF Settled, Aged

LEMMA TickKeeps ==
  ASSUME ControlInv, Tick
  PROVE  ControlInv'
<1>1. ControlTypes /\ ConnsAreOpen /\ ConnsFit /\ Unopened /\ TimerFirst
  BY DEF ControlInv
<1>2. /\ events = <<>> /\ events' = <<Timer>> /\ polled' = polled
      /\ conns' = [n \in DOMAIN conns |-> [conns[n] EXCEPT !.age = Min({@ + 1, Timeout + 1})]]
      /\ script' = script /\ status' = status /\ sent' = sent /\ wire' = wire /\ gone' = gone /\ got' = got
  BY DEF Tick, clients
<1>3. \A n \in DOMAIN events' : n = 1 /\ events'[n] = Timer
  BY <1>2
<1>4. IsSeq(events') /\ \A c : NoEvent(events', c)
  <2>1. events' \in Seq({Timer})
    BY <1>2
  <2>. QED BY <1>3, <2>1, SeqIsSeq DEF NoEvent
<1>5. \A n \in DOMAIN conns : conns[n].state \notin Asking
  <2>1. \A n \in DOMAIN events : events[n] = Timer
    BY <1>2
  <2>. QED BY <2>1, NoneAsks
<1>6. /\ DOMAIN conns' = DOMAIN conns /\ conns' = [n \in DOMAIN conns |-> conns'[n]]
      /\ \A n \in DOMAIN conns : \E age : conns'[n] = [conns[n] EXCEPT !.age = age]
  BY <1>2
<1>7. ASSUME NEW n \in DOMAIN conns, NEW k, k = conns[n], NEW k1, k1 = conns'[n]
      PROVE  /\ k1.client = k.client /\ Settled(k1, wire[k.client], sent[k.client], Len(got[k.client]))
             /\ k1.state \notin Asking
  <2>1. Settled(k, wire[k.client], sent[k.client], Len(got[k.client])) /\ k.state \notin Asking
    BY <1>1, <1>5, <1>7 DEF ConnsFit
  <2>2. PICK age : k1 = [k EXCEPT !.age = age]
    BY <1>6, <1>7
  <2>3. PICK w, s, g : w = wire[k.client] /\ s = sent[k.client] /\ g = Len(got[k.client])
    OBVIOUS
  <2>4. Settled(k, w, s, g) /\ k.state \notin Asking
    BY <2>1, <2>3
  <2>5. Aged(k1, k, w, s, g)
    BY <2>2, <2>4, OlderSettles
  <2>. QED BY <2>3, <2>5 DEF Aged
<1>8. ControlTypes'
  BY <1>1, <1>2, <1>4 DEF ControlTypes
<1>9. ConnsAreOpen'
  <2>1. IsSeq(conns')
    <3>1. IsSeq(conns)
      BY <1>1 DEF ConnsAreOpen
    <3>. QED BY <1>6, <3>1, MapIsSeq
  <2>2. \A n \in DOMAIN conns : conns'[n].client = conns[n].client
    BY <1>7
  <2>3. status' = status /\ DOMAIN conns' = DOMAIN conns
    BY <1>2, <1>6
  <2>. QED BY <1>1, <2>1, <2>2, <2>3 DEF ConnsAreOpen
<1>10. ConnsFit'
  <2>1. ASSUME NEW n \in DOMAIN conns', NEW k, k = conns'[n]
        PROVE  Settled(k, wire'[k.client], sent'[k.client], Len(got'[k.client])) /\ Asked(events', k)
    BY <1>2, <1>4, <1>6, <1>7, <2>1 DEF Asked
  <2>2. FitNow
    BY <2>1 DEF FitNow
  <2>. QED BY <1>2, <2>2, FitsStay
<1>11. Unopened'
  <2>1. \A c \in Clients : Parts(c, 1)' = Parts(c, 1)
    BY <1>2 DEF Parts, Request
  <2>. QED BY <1>1, <1>2, <1>3, <1>4, <2>1 DEF Unopened
<1>12. TimerFirst'
  <2>1. \A m \in DOMAIN conns' : conns'[m].state \notin {"PARSE_HEADER", "PARSE_BODY"}
    BY <1>6, <1>7 DEF Asking
  <2>. QED BY <1>3, <2>1 DEF TimerFirst
<1>. QED BY <1>8, <1>9, <1>10, <1>11, <1>12 DEF ControlInv

\* Nothing but what the loop waits for changes.
LEMMA WaitingKeeps ==
  ASSUME ControlInv, UNCHANGED <<script, status, sent, wire, gone, got, conns, events>>,
         polled' \in BOOLEAN, polled' => polled \/ events = <<>>
  PROVE  ControlInv'
<1>1. ControlTypes /\ ConnsAreOpen /\ ConnsFit /\ Unopened /\ TimerFirst
  BY DEF ControlInv
<1>2. ControlTypes'
  BY <1>1 DEF ControlTypes
<1>3. ConnsAreOpen'
  BY <1>1 DEF ConnsAreOpen
<1>4. ConnsFit'
  <2>1. FitNow
    BY <1>1 DEF FitNow, ConnsFit
  <2>. QED BY <2>1, FitsStay
<1>5. Unopened'
  <2>1. \A c \in Clients : Parts(c, 1)' = Parts(c, 1)
    BY DEF Parts, Request
  <2>. QED BY <1>1, <2>1 DEF Unopened
<1>6. TimerFirst'
  <2>1. events = <<>> => \A n \in DOMAIN events : events[n] = Timer
    OBVIOUS
  <2>. QED BY <1>1, <2>1 DEF TimerFirst
<1>. QED BY <1>2, <1>3, <1>4, <1>5, <1>6 DEF ControlInv

LEMMA PollKeeps ==
  ASSUME ControlInv, Poll \/ SelectEnds \/ UNCHANGED vars
  PROVE  ControlInv'
<1>1. UNCHANGED <<script, status, sent, wire, gone, got, conns, events>>
  BY DEF Poll, SelectEnds, vars, clients
<1>2. polled \in BOOLEAN
  BY DEF ControlInv, ControlTypes
<1>3. polled' \in BOOLEAN /\ (polled' => polled \/ events = <<>>)
  <2>1. CASE Poll
    <3>1. polled' = TRUE /\ events = <<>>
      BY <2>1 DEF Poll
    <3>. QED BY <3>1
  <2>2. CASE SelectEnds
    <3>1. polled' = FALSE
      BY <2>2 DEF SelectEnds
    <3>. QED BY <3>1
  <2>3. CASE UNCHANGED vars
    <3>1. polled' = polled
      BY <2>3 DEF vars
    <3>. QED BY <1>2, <3>1
  <2>. QED BY <2>1, <2>2, <2>3
<1>. QED BY <1>1, <1>3, WaitingKeeps

-----------------------------------------------------------------------------
(* The steps of the clients *)

\* A client connects.
LEMMA ConnectKeeps ==
  ASSUME ControlInv, NEW c \in Clients, Connect(c)
  PROVE  ControlInv'
<1>1. ControlTypes /\ ConnsAreOpen /\ ConnsFit /\ Unopened /\ TimerFirst
  BY DEF ControlInv
<1>2. /\ status[c] = "new" /\ status' = [status EXCEPT ![c] = "queued"]
      /\ UNCHANGED <<script, sent, wire, gone, got, conns, events, polled>>
  BY DEF Connect
<1>3. ControlTypes'
  BY <1>1, <1>2 DEF ControlTypes
<1>4. \A d \in Clients : status'[d] = IF d = c THEN "queued" ELSE status[d]
  BY <1>1, <1>2 DEF ControlTypes
<1>5. ConnsAreOpen'
  BY <1>1, <1>2, <1>4 DEF ConnsAreOpen
<1>6. ConnsFit'
  <2>1. FitNow
    BY <1>1, <1>2 DEF FitNow, ConnsFit
  <2>. QED BY <1>2, <2>1, FitsStay
<1>7. Unopened'
  <2>1. \A d \in Clients : Parts(d, 1)' = Parts(d, 1)
    BY <1>2 DEF Parts, Request
  <2>. QED BY <1>1, <1>2, <1>4, <2>1 DEF Unopened
<1>8. TimerFirst'
  BY <1>1, <1>2 DEF TimerFirst
<1>. QED BY <1>3, <1>5, <1>6, <1>7, <1>8 DEF ControlInv

\* A client that has all its answers closes its side.
LEMMA HangUpKeeps ==
  ASSUME Exposed = {}, ControlInv, NEW c \in Clients, HangUp(c)
  PROVE  ControlInv'
<1>1. ControlTypes /\ ConnsAreOpen /\ ConnsFit /\ Unopened /\ TimerFirst
  BY DEF ControlInv
<1>2. /\ sent[c] = Len(got[c]) /\ gone' = gone \cup {c}
      /\ UNCHANGED <<script, status, sent, wire, got, conns, events, polled>>
  BY DEF HangUp
<1>3. ControlTypes'
  BY <1>1, <1>2 DEF ControlTypes
<1>4. ConnsAreOpen'
  BY <1>1, <1>2 DEF ConnsAreOpen
<1>5. ConnsFit'
  <2>1. FitNow
    BY <1>1, <1>2 DEF FitNow, ConnsFit
  <2>. QED BY <1>2, <2>1, FitsStay
<1>6. Unopened'
  <2>1. \A d \in Clients : Parts(d, 1)' = Parts(d, 1)
    BY <1>2 DEF Parts, Request
  <2>2. sent[c] \in Nat
    BY <1>1 DEF ControlTypes
  <2>3. sent[c] <= Len(got[c])
    BY <1>2, <2>2
  <2>. QED BY <1>1, <1>2, <2>1, <2>3 DEF Unopened
<1>7. TimerFirst'
  BY <1>1, <1>2 DEF TimerFirst
<1>. QED BY <1>3, <1>4, <1>5, <1>6, <1>7 DEF ControlInv

\* A connection whose client has all its answers, when the next request comes
LEMMA SendSettles ==
  ASSUME script \in Scripts, NEW c \in Clients, NEW k, k.client = c, NEW w \in Seq(PartSet), NEW g \in Nat,
         Settled(k, w, g, g), g + 1 \in 1 .. Len(script[c]), NEW w1, w1 = w \o Parts(c, g + 1)
  PROVE  Settled(k, w1, g + 1, g)
<1>1. PICK p, i : p = Parts(c, i) /\ i = g + 1
  OBVIOUS
<1>2. /\ p \in Seq(PartSet) /\ Len(p) = Size(c, i) /\ \A q \in 1 .. Size(c, i) : p[q] = PartAt(c, i, q)
      /\ HeadAt(c, i) \in {1, 2} /\ Request(c, i).body \in Nat /\ Size(c, i) = HeadAt(c, i) + Request(c, i).body
  BY <1>1, PartsFacts, RequestFacts
<1>3. Len(w) \in Nat /\ Len(p) \in Nat /\ Len(p) >= 1
  BY <1>2, LenProperties
<1>4. /\ w1 \in Seq(PartSet) /\ Len(w1) = Len(w) + Len(p)
      /\ \A q \in 1 .. Len(w) + Len(p) : w1[q] = IF q <= Len(w) THEN w[q] ELSE p[q - Len(w)]
  BY <1>1, <1>2, ConcatProperties
<1>5. ConnShape(k) /\ Fits(k, w, 0, g, g) /\ k.state # "FINISHED" /\ k.state # "CLOSE"
  BY DEF Settled
<1>6. g # g + 1
  OBVIOUS
<1>7. k.state \in {"READ_HEADER", "KEEPALIVE", "WRITE"} /\ (k.state = "WRITE" => ~k.keep)
  BY <1>5, <1>6 DEF Fits, States, Asking
<1>8. ASSUME Coming(k, w, 0, g, g) PROVE Coming(k, w1, 0, g + 1, g)
  <2>1. CASE k.buf = <<>> /\ 0 = Len(w)
    <3>1. Len(k.buf) = 0
      BY <2>1
    <3>2. Len(w1) = Size(c, i) /\ \A q \in 1 .. Len(w1) : w1[q] = PartAt(c, i, q)
      <4>1. \A q \in 1 .. Len(p) : ~(q <= Len(w)) /\ q - Len(w) = q
        BY <1>3, <2>1
      <4>. QED BY <1>2, <1>3, <1>4, <2>1, <4>1
    <3>3. Whole(k, w1, 0, i)
      <4>1. Len(k.buf) + Len(w1) - 0 = Size(k.client, i)
        BY <1>2, <3>1, <3>2
      <4>2. \A q \in 0 + 1 .. Len(w1) : w1[q] = PartAt(k.client, i, Len(k.buf) + q - 0)
        <5>. TAKE q \in 0 + 1 .. Len(w1)
        <5>1. q \in 1 .. Len(w1) /\ Len(k.buf) + q - 0 = q
          BY <3>1
        <5>. QED BY <3>2, <5>1
      <4>3. \A q \in 1 .. Len(k.buf) : k.buf[q] = PartAt(k.client, i, q)
        BY <3>1
      <4>4. PICK u : u = 0
        OBVIOUS
      <4>5. /\ Len(k.buf) + Len(w1) - u = Size(k.client, i)
            /\ \A q \in u + 1 .. Len(w1) : w1[q] = PartAt(k.client, i, Len(k.buf) + q - u)
        BY <4>1, <4>2, <4>4, Zenon
      <4>6. Whole(k, w1, u, i)
        BY <4>3, <4>5, Zenon DEF Whole
      <4>. QED BY <4>4, <4>6, Zenon
    <3>. QED BY <1>1, <1>2, <3>1, <3>3 DEF Coming
  <2>2. CASE k.buf = <<>> /\ Doomed(w, 0)
    <3>1. 0 < Len(w) /\ w[1].kind = "body"
      BY <2>2 DEF Doomed
    <3>2. w1[1] = w[1] /\ 0 < Len(w1)
      BY <1>3, <1>4, <3>1
    <3>. QED BY <2>2, <3>1, <3>2 DEF Coming, Doomed
  <2>. QED BY <1>6, <1>8, <2>1, <2>2 DEF Coming
<1>9. Fits(k, w1, 0, g + 1, g)
  BY <1>5, <1>7, <1>8 DEF Fits, Asking
<1>. QED BY <1>5, <1>7, <1>9 DEF Settled, Asking

\* A client that has all its answers sends its next request.
LEMMA SendKeeps ==
  ASSUME Exposed = {}, ControlInv, NEW c \in Clients, Send(c)
  PROVE  ControlInv'
<1>1. ControlTypes /\ ConnsAreOpen /\ ConnsFit /\ Unopened /\ TimerFirst
  BY DEF ControlInv
<1>2. /\ status[c] \in {"queued", "open"} /\ c \notin gone /\ sent[c] < Len(script[c]) /\ sent[c] = Len(got[c])
      /\ sent' = [sent EXCEPT ![c] = @ + 1] /\ wire' = [wire EXCEPT ![c] = @ \o Parts(c, sent[c] + 1)]
      /\ UNCHANGED <<script, status, gone, got, conns, events, polled>>
  BY DEF Send
<1>3. script \in Scripts /\ sent[c] \in Nat /\ Len(script[c]) \in Nat /\ wire[c] \in Seq(PartSet)
  BY <1>1, ScriptLength DEF ControlTypes
<1>4. sent[c] + 1 \in 1 .. Len(script[c])
  BY <1>2, <1>3
<1>5. Parts(c, sent[c] + 1) \in Seq(PartSet)
  BY <1>3, <1>4, PartsFacts
<1>6. PICK w1 : w1 = wire[c] \o Parts(c, sent[c] + 1) /\ w1 \in Seq(PartSet)
  BY <1>3, <1>5, ConcatProperties
<1>7. /\ \A d \in Clients : /\ sent'[d] = IF d = c THEN sent[c] + 1 ELSE sent[d]
                            /\ wire'[d] = IF d = c THEN w1 ELSE wire[d]
      /\ wire' = [d \in Clients |-> wire'[d]]
  BY <1>1, <1>2, <1>6 DEF ControlTypes
<1>8. ControlTypes'
  <2>1. \A d \in Clients : wire'[d] \in Seq(PartSet) /\ sent'[d] <= Len(script[d])
    <3>. TAKE d \in Clients
    <3>1. CASE d = c
      <4>1. wire'[d] = w1 /\ sent'[d] = sent[c] + 1
        BY <1>7, <3>1
      <4>2. w1 \in Seq(PartSet)
        BY <1>6
      <4>3. sent[c] + 1 <= Len(script[c])
        BY <1>4
      <4>. QED BY <3>1, <4>1, <4>2, <4>3
    <3>2. CASE d # c
      BY <1>1, <1>7, <3>2 DEF ControlTypes
    <3>. QED BY <3>1, <3>2
  <2>2. wire' \in [Clients -> Seq(PartSet)]
    BY <1>7, <2>1
  <2>3. sent' \in [Clients -> Nat]
    BY <1>1, <1>2, <1>3 DEF ControlTypes
  <2>. QED BY <1>1, <1>2, <2>1, <2>2, <2>3 DEF ControlTypes
<1>9. ConnsAreOpen'
  BY <1>1, <1>2 DEF ConnsAreOpen
<1>10. ConnsFit'
  <2>1. ASSUME NEW n \in DOMAIN conns, NEW k, k = conns[n]
        PROVE  Settled(k, wire'[k.client], sent'[k.client], Len(got[k.client])) /\ Asked(events, k)
    <3>1. Settled(k, wire[k.client], sent[k.client], Len(got[k.client])) /\ Asked(events, k)
      BY <1>1, <2>1 DEF ConnsFit
    <3>2. k.client \in Clients
      BY <3>1 DEF Settled, ConnShape
    <3>3. CASE k.client # c
      BY <1>7, <3>1, <3>2, <3>3
    <3>4. CASE k.client = c
      <4>1. PICK w, g : w = wire[c] /\ g = sent[c]
        OBVIOUS
      <4>2. Settled(k, w, g, g) /\ w \in Seq(PartSet) /\ g \in Nat /\ w1 = w \o Parts(c, g + 1)
            /\ g + 1 \in 1 .. Len(script[c])
        BY <1>2, <1>3, <1>4, <1>6, <3>1, <3>4, <4>1
      <4>3. Settled(k, w1, g + 1, g)
        BY <1>3, <3>4, <4>2, SendSettles
      <4>. QED BY <1>2, <1>7, <3>1, <3>4, <4>1, <4>3
    <3>. QED BY <3>3, <3>4
  <2>2. FitNow
    BY <1>2, <2>1 DEF FitNow
  <2>. QED BY <1>2, <2>2, FitsStay
<1>11. Unopened'
  <2>1. \A d \in Clients : Parts(d, 1)' = Parts(d, 1)
    BY <1>2 DEF Parts, Request
  <2>2. ASSUME status[c] = "queued"
        PROVE  got[c] = <<>> /\ sent'[c] = 1 /\ wire'[c] = Parts(c, 1)'
    <3>1. got[c] = <<>> /\ Len(got[c]) = 0
      BY <1>1, <2>2 DEF Unopened
    <3>2. sent[c] = 0 /\ wire[c] = <<>>
      BY <1>1, <1>2, <2>2, <3>1 DEF Unopened
    <3>3. w1 = Parts(c, 1)
      <4>1. PICK p : p = Parts(c, sent[c] + 1) /\ p \in Seq(PartSet)
        BY <1>5
      <4>2. w1 = p
        BY <1>6, <3>2, <4>1, ConcatEmptySeq
      <4>3. sent[c] + 1 = 1
        BY <3>2
      <4>. QED BY <4>1, <4>2, <4>3
    <3>4. sent'[c] = 1
      BY <1>7, <3>2
    <3>. QED BY <1>7, <2>1, <2>2, <3>1, <3>3, <3>4
  <2>3. \A d \in Clients : status[d] \in {"new", "queued"} =>
          /\ got[d] = <<>>
          /\ \/ sent'[d] = 0 /\ wire'[d] = <<>>
             \/ sent'[d] = 1 /\ status[d] = "queued" /\ wire'[d] = Parts(d, 1)'
    <3>. TAKE d \in Clients
    <3>. HAVE status[d] \in {"new", "queued"}
    <3>1. CASE d = c
      BY <1>2, <2>2, <3>1
    <3>2. CASE d # c
      BY <1>1, <1>7, <2>1, <3>2 DEF Unopened
    <3>. QED BY <3>1, <3>2
  <2>4. \A d \in gone : d \in Clients /\ d # c /\ sent'[d] = sent[d]
    BY <1>1, <1>2, <1>7 DEF ControlTypes
  <2>5. /\ \A d \in Clients : status[d] # "open" => NoEvent(events, d)
        /\ \A n \in DOMAIN events : events[n] # Timer => events[n].to \in Clients
        /\ \A d \in gone : sent'[d] <= Len(got[d])
    BY <1>1, <2>4 DEF Unopened
  <2>6. /\ status' = status /\ events' = events /\ got' = got /\ gone' = gone
    BY <1>2
  <2>. QED BY <2>3, <2>5, <2>6 DEF Unopened
<1>12. TimerFirst'
  BY <1>1, <1>2 DEF TimerFirst
<1>. QED BY <1>8, <1>9, <1>10, <1>11, <1>12 DEF ControlInv

-----------------------------------------------------------------------------
\* Every step keeps the invariant.
LEMMA InvariantStep ==
  ASSUME Exposed = {}, ControlInv, [Next]_vars
  PROVE  ControlInv'
<1>1. CASE Poll \/ SelectEnds \/ UNCHANGED vars
  BY <1>1, PollKeeps
<1>2. CASE HandleFd
  BY <1>2, HandleFdKeeps
<1>3. CASE Execute
  BY <1>3, ExecuteKeeps
<1>4. CASE ExecuteTimer
  BY <1>4, ExecuteTimerKeeps
<1>5. CASE Tick
  BY <1>5, TickKeeps
<1>6. ASSUME NEW c \in Clients, Connect(c) \/ Send(c) \/ HangUp(c)
      PROVE  ControlInv'
  BY <1>6, ConnectKeeps, SendKeeps, HangUpKeeps
<1>. QED BY <1>1, <1>2, <1>3, <1>4, <1>5, <1>6 DEF Next

\* As long as the situations that the model excludes do not come up, the
\* invariant of the control interface holds: the connections, their buffers
\* and states, the queue of events and what is on its way fit together
\* (httpd.c:330, request.c:101, CtrlComm.cc:516).
THEOREM ControlInvariant ==
  ASSUME Exposed = {}
  PROVE  Spec => []ControlInv
<1>1. Init => ControlInv
  BY InvariantInit
<1>2. ControlInv /\ [Next]_vars => ControlInv'
  BY InvariantStep
<1>. QED BY <1>1, <1>2, PTL DEF Spec

\* A queued command has a connection that waits for it with the request it
\* was made from, a connection that waits has one such command, and one that
\* waits for its next request has forgotten none (CtrlComm.cc:516,
\* httpd.c:381, httpd.c:330): the event's pointer to the request is good until
\* the meter executes it.
THEOREM EventsAlwaysHaveRequests ==
  ASSUME Exposed = {}
  PROVE  Spec => []EventsHaveRequests
<1>1. ControlInv => EventsHaveRequests
  BY InvariantTells
<1>. QED BY <1>1, ControlInvariant, PTL
=============================================================================
