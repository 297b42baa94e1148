----------------------------- MODULE ControlComm -----------------------------
(***************************************************************************)
(* The control interface: clients (nmrsh, a browser) that send requests    *)
(* over connections, the HTTP server's connections and their states,       *)
(* CtrlComm, which turns a request into an event of the meter's scheduler, *)
(* and the meter's loop, which executes the event and sends the answer.    *)
(* A client is one connection.  What it sends travels in parts, and the    *)
(* server reads as many parts as have arrived.                             *)
(***************************************************************************)
EXTENDS RuleParsers

CONSTANTS
    Clients,
    AccessList,     \* the configuration's entries: [type, value, allow]
    Addresses,      \* of the hosts that can be resolved; a client is one
    Modules,        \* that can be loaded
    Pages,          \* paths of static pages
    Scripts,        \* what the clients may do: [Clients -> Seq(command)]
    KeepaliveTime,  \* in intervals of the timer, which are as long
    Timeout,        \* of the network, in intervals of the timer
    MaxConn,        \* of the server
    Exposed         \* situations, excluded otherwise, that break properties

\* What is sent of a command; what is got with GET has no body.
IsCommand(u) ==
    /\ u.body \in Nat /\ u.get \in BOOLEAN /\ (u.get => u.body = 0)
    /\ u.cut \in {"none", "start", "bit"}

ASSUME ControlCommAssumption ==
    /\ \A s \in Scripts : /\ DOMAIN s = Clients
                          /\ \A c \in Clients : /\ s[c] \in Seq(Range(s[c]))
                                                /\ \A u \in Range(s[c]) : IsCommand(u)
    /\ KeepaliveTime \in Nat \ {0} /\ Timeout \in Nat \ {0} /\ MaxConn \in Nat \ {0}
    /\ Exposed \subseteq {"page after command", "timer with command", "hang up", "pipelined"}

VARIABLES
    script,         \* the commands each client gives in this behaviour
    status,         \* of a client: "new", "queued" (in connect), "open", "ended"
    sent,           \* number of requests a client has sent
    wire,           \* parts of requests that have not been read
    gone,           \* clients that have closed their side
    got,            \* the answers each client was sent
    conns,          \* the server's connections, the newest first
    events,         \* the scheduler's due events in order
    polled,         \* the loop waits in select, no event was due
    lists,          \* the definitions of filters and values loaded so far
    tasks,          \* the installed rules
    ruleDone,       \* names of the rules that were removed
    done            \* the commands executed: history
clients == <<script, status, sent, wire, gone>>
meter == <<lists, tasks, ruleDone, done>>
vars == <<clients, got, conns, events, polled, meter>>

Timer == [type |-> "timer"]
None == [type |-> "none"]
Commands == {"/get_info", "/get_modinfo", "/add_task", "/rm_task"}

\* nmrsh makes a request of a command; a browser asks for a path itself.
Path(u) ==
    CASE u.action \in {"add_task", "add_tasks"} -> "/add_task"
      [] u.action \in {"get_info", "get_modinfo", "rm_task"} -> "/" \o u.action
      [] OTHER -> u.action
Request(c, i) == script[c][i]

\* The parts of a request: a start too short to be recognised or an
\* incomplete header if the client's writes cut it there, the rest of the
\* header, the parts of the body.
Parts(c, i) ==
    LET u == Request(c, i)
        Part(kind) == [kind |-> kind, i |-> i]
    IN  (IF u.cut = "none" THEN <<>> ELSE <<Part(u.cut)>>)
        \o <<Part("head")>> \o [n \in 1..u.body |-> Part("body")]

\* checkHosts: a host is in the list with each of its addresses, one that
\* is not known is left out; users, and all hosts, are there as they are.
CheckHosts(list) ==
    LET Entry(value, allow) == [type |-> "Host", value |-> value, allow |-> allow]
        Resolved(e) ==
            CASE e.type = "Host" /\ e.value # "All" ->
                   [n \in DOMAIN SetToSeq(Addresses[e.value]) |-> Entry(SetToSeq(Addresses[e.value])[n], e.allow)]
              [] e.type \in {"Host", "User"} -> <<e>>
              [] OTHER -> <<>>
    IN  FlattenSeq([n \in DOMAIN list |-> Resolved(list[n])])

\* CtrlComm::accessCheck: the first entry that fits decides; a user's fits
\* if what the user gives begins with it.
AccessCheck(type, value) ==
    LET list == CheckHosts(AccessList)
        Fits(e) == /\ e.type = type
                   /\ IF type = "Host" THEN e.value \in {"All", value}
                      ELSE e.value = <<"All">> \/ IsPrefix(e.value, value)
        fits == {n \in DOMAIN list : Fits(list[n])}
    IN  fits # {} /\ list[Min(fits)].allow

\* A connection as accept leaves it.
NewConn(c) ==
    [client |-> c, state |-> "READ_HEADER", wr |-> FALSE, keep |-> FALSE, age |-> 0,
     buf |-> <<>>, lreq |-> 0, lb |-> 0, answer |-> [status |-> "none", of |-> 0]]

\* The request whose header the connection has read, and its number.
RequestOf(k) == IF k.lreq = 0 THEN 0 ELSE k.buf[k.lreq].i
Current(k) == Request(k.client, RequestOf(k))

-----------------------------------------------------------------------------
(* httpd *)

\* mkerror: ka FALSE closes the connection after the answer.  mkheader.
MkError(k, code, ka) ==
    [k EXCEPT !.state = "WRITE", !.keep = @ /\ ka, !.answer = [status |-> code, of |-> RequestOf(k)]]
MkHeader(k, result) ==
    [k EXCEPT !.state = "WRITE", !.answer = [status |-> result, of |-> RequestOf(k)]]

\* Is what has been read a request, and is its header complete?
CheckHeader(k) ==
    LET heads == {n \in 1..Len(k.buf) : k.buf[n].kind = "head"}
    IN  IF Head(k.buf).kind = "body" \/ (Len(k.buf) = 1 /\ Head(k.buf).kind = "start")
          THEN MkError(k, "400", FALSE)
        ELSE IF heads = {} THEN k
        ELSE [k EXCEPT !.lreq = Min(heads), !.state = "PARSE_HEADER", !.lb = Len(k.buf) - Min(heads)]

\* What a call works on: the connection k, the parts in that have come, the
\* number of parts read, the other connections, the events and the answers.
\* s.ret is retEvent, s.again: it was queued twice; s.pass: "parsing" follows.
Call(queue, open) ==
    [k |-> None, in |-> <<>>, used |-> 0, n |-> open, conns |-> <<>>, ret |-> None, again |-> FALSE,
     pass |-> TRUE, events |-> queue, got |-> got, wire |-> wire]

AtEnd(s) == s.used + Len(s.in) = Len(wire[s.k.client]) /\ s.k.client \in gone
Taken(s) == [s EXCEPT !.k.buf = @ \o s.in, !.used = @ + Len(s.in), !.in = <<>>]
Closed(s) == [s EXCEPT !.k.state = "CLOSE"]

\* read_header until nothing is left.
ReadHeader(s) ==
    LET read == [Taken(s) EXCEPT !.k = CheckHeader(@)]
    IN  IF s.in = <<>> THEN IF AtEnd(s) THEN Closed(s) ELSE s
        ELSE IF AtEnd(s) /\ read.k.state = "READ_HEADER" THEN Closed(read) ELSE read

ReadBody(s) ==
    LET read == Taken(s)
        body == Current(s.k).body
    IN  IF s.in # <<>> /\ Len(read.k.buf) - s.k.lreq = body
          THEN [read EXCEPT !.k.state = "PARSE_BODY", !.k.lb = body]
        ELSE IF AtEnd(s) THEN Closed(read) ELSE read

\* CtrlComm::parseRequest: the parameters, of the path or of the body.
Parameters(k) == IF Current(k).get \/ k.lb > 0 THEN Current(k).names ELSE {}
\* processAddTask, processDelTask, processGetInfo, processGetModInfo: the
\* command has its parameter.
HasParameter(k) == Parameters(k) # {}
\* MeterInfo::addInfo: the meter has the information that is asked for.
KnownInfo(u) == Path(u) = "/get_info" => u.valid

\* CtrlComm::processCmd, the callback of parse_request: at once the answer,
\* or an event for the meter.
ProcessCmd(s) ==
    LET u == Current(s.k)
        c == s.k.client
        new == [type |-> Path(u), client |-> c, i |-> RequestOf(s.k), to |-> c]
        again == [s.ret EXCEPT !.to = c]
        Same(e) == e # Timer /\ e.client = s.ret.client /\ e.i = s.ret.i
        page == [s EXCEPT !.k = MkHeader(@, "OK")]
        twice == [page EXCEPT !.ret = again, !.again = TRUE,
                    !.events = Append([n \in DOMAIN s.events |-> IF Same(s.events[n]) THEN again ELSE s.events[n]],
                                      again)]
    IN  IF Path(u) \in Pages THEN IF s.ret = None THEN page ELSE twice
        ELSE IF Path(u) \notin Commands THEN [s EXCEPT !.k = MkError(@, "404", TRUE)]
        ELSE IF ~(HasParameter(s.k) /\ KnownInfo(u)) THEN [s EXCEPT !.k = MkHeader(@, "Error")]
        ELSE [s EXCEPT !.ret = new, !.events = Append(@, new)]

\* A mutant: the command does not wait for the rest of its body.
ParseRequestAtOnce(s) ==
    LET kept == [s EXCEPT !.k.keep = TRUE]
        read == ReadBody(kept)
        u == Current(s.k)
    IN  IF ~AccessCheck("User", u.user) THEN [kept EXCEPT !.k = MkError(@, "401", TRUE)]
        ELSE IF u.get THEN ProcessCmd(read)
        ELSE ProcessCmd([read EXCEPT !.k.state = "PROCESS"])

\* parse_request, which first reads what has come of the body.
ParseRequest(s) ==
    LET kept == [s EXCEPT !.k.keep = TRUE]
        read == ReadBody(kept)
        u == Current(s.k)
    IN  IF ~AccessCheck("User", u.user) THEN [kept EXCEPT !.k = MkError(@, "401", TRUE)]
        ELSE IF u.get THEN ProcessCmd(read)
        ELSE IF read.k.lb < u.body THEN [read EXCEPT !.k.state = "READ_BODY"]
        ELSE ProcessCmd([read EXCEPT !.k.state = "PROCESS"])

\* write_request: all of the answer, or none if the socket is full.
WriteRequest(s, full) ==
    IF full THEN s
    ELSE [s EXCEPT !.k.state = "FINISHED", !.got[s.k.client] = Append(@, s.k.answer)]

\* What follows an answer: close, wait, or go on with what has been read.
Finish(k) ==
    LET rest == SubSeq(k.buf, k.lreq + k.lb + 1, Len(k.buf))
        reading == [k EXCEPT !.wr = FALSE, !.buf = rest, !.lreq = 0]
    IN  IF ~k.keep THEN [k EXCEPT !.state = "CLOSE"]
        ELSE IF rest = <<>> THEN [reading EXCEPT !.state = "KEEPALIVE", !.lb = 0]
        ELSE CheckHeader([reading EXCEPT !.state = "READ_HEADER"])

\* One pass from the label "parsing" to the end of a finished request.
ParsingPass(s, full) ==
    LET parsed == IF s.k.state = "PARSE_HEADER" THEN ParseRequest(s) ELSE s
        body == IF parsed.k.state = "PARSE_BODY" THEN ProcessCmd(parsed) ELSE parsed
        written == IF body.k.state # "WRITE" THEN body
                   ELSE WriteRequest([body EXCEPT !.k.wr = TRUE], full)
    IN  IF ~s.pass THEN s
        ELSE IF written.k.state = "FINISHED" THEN [written EXCEPT !.k = Finish(@)]
        ELSE [written EXCEPT !.pass = FALSE]

\* The passes over a connection; each works on what the one before left,
\* evaluated once.
Passes(s, full, n) ==
    FoldLeft(LAMBDA t, m : CHOOSE u \in {ParsingPass(v, full) : v \in {t}} : TRUE, s, [m \in 1..n |-> m])

\* What select has reported: something to read, or room for the answer.
Io(s) ==
    LET back == [s EXCEPT !.k.age = 0, !.k.state = IF @ = "KEEPALIVE" THEN "READ_HEADER" ELSE @]
    IN  IF s.k.wr THEN WriteRequest(back, FALSE)
        ELSE CASE back.k.state = "READ_HEADER" -> ReadHeader(back)
               [] back.k.state = "READ_BODY" -> ReadBody(back)
               [] OTHER -> back

\* Mutants: with too many connections any that neither reads nor writes is
\* closed; only reading times out.
CheckTimeoutsFull(s) ==
    IF s.n > (MaxConn * 9) \div 10 /\ s.k.state \in {"KEEPALIVE", "PROCESS"} THEN Closed(s) ELSE s
CheckTimeoutsReading(s) ==
    LET k == s.k
    IN  IF k.state \in {"READ_HEADER", "READ_BODY"} /\ k.age > Timeout
          THEN [s EXCEPT !.k = MkError(@, "408", FALSE)]
        ELSE IF k.state = "KEEPALIVE" /\ k.age > KeepaliveTime THEN Closed(s) ELSE s

CheckTimeouts(s) ==
    LET k == s.k
        kept == k.state = "KEEPALIVE" /\ (k.age > KeepaliveTime \/ s.n > (MaxConn * 9) \div 10)
        late == k.state # "KEEPALIVE" /\ k.age > Timeout
    IN  IF late /\ k.state \in {"READ_HEADER", "READ_BODY"} THEN [s EXCEPT !.k = MkError(@, "408", FALSE)]
        ELSE IF kept \/ late THEN Closed(s) ELSE s

\* One connection in httpd_handle_event.  io: what select has reported, how
\* many parts have come when it is read and when its body is read, and
\* whether its socket is full when an answer is ready.
HandleConn(s, k, io) ==
    LET c == k.client
        begun == [s EXCEPT !.k = k, !.in = SubSeq(wire[c], 1, io[c].first), !.used = 0, !.pass = TRUE]
        ioed == CheckTimeouts(IF io[c].select THEN Io(begun) ELSE begun)
        more == [ioed EXCEPT !.in = SubSeq(wire[c], ioed.used + 1, io[c].then)]
        end == Passes(more, io[c].full, Len(script[c]) + 1)
    IN  IF end.k.state = "CLOSE" THEN [end EXCEPT !.n = @ - 1, !.wire[c] = <<>>]
        ELSE [end EXCEPT !.conns = Append(@, end.k), !.wire[c] = SubSeq(@, end.used + 1, Len(@))]

HandleConns(s, ks, io) ==
    FoldLeft(LAMBDA t, k : CHOOSE u \in {HandleConn(v, k, io) : v \in {t}} : TRUE, s, ks)

\* httpd_handle_event for connections ks, after the clients in a have been
\* accepted; a host that is not allowed is told so and the connection closed.
HandleEvent(ks, queue, a, io) ==
    \E s \in {HandleConns(Call(queue, Len(ks)), ks, io)} :
    LET open == {s.conns[n].client : n \in DOMAIN s.conns}
        refused == {c \in a : ~AccessCheck("Host", c)}
    IN  /\ s.again => "page after command" \in Exposed
        /\ conns' = s.conns /\ events' = s.events
        /\ got' = [c \in Clients |-> IF c \in refused THEN <<[status |-> "403", of |-> 0]>> ELSE s.got[c]]
        /\ wire' = [c \in Clients |-> IF c \in refused THEN <<>> ELSE s.wire[c]]
        /\ status' = [c \in Clients |-> IF c \in open THEN "open"
                                        ELSE IF c \in a \/ status[c] = "open" THEN "ended" ELSE status[c]]
        /\ UNCHANGED <<script, sent, gone, meter>>

-----------------------------------------------------------------------------
(* The meter's loop *)

\* The scheduler's token wakes select at once if an event is due.
Poll ==
    /\ ~polled /\ events = <<>>
    /\ polled' = TRUE
    /\ UNCHANGED <<clients, got, conns, events, meter>>

\* What comes for connections ks while select and the server run.
Ios(ks) ==
    LET open == {ks[n].client : n \in DOMAIN ks}
        Of(c) == {r \in [first : 0..Len(wire[c]), then : 0..Len(wire[c]), full : BOOLEAN] :
                    r.first <= r.then}
    IN  {io \in [open -> UNION {Of(c) : c \in open}] : \A c \in open : io[c] \in Of(c)}

\* select reports parts or an end to read, or room.
Reported(k, io) ==
    IF k.wr THEN ~io[k.client].full
    ELSE io[k.client].first > 0 \/ (wire[k.client] = <<>> /\ k.client \in gone)
Selected(io) == {conns[n].client : n \in {m \in DOMAIN conns : Reported(conns[m], io)}}
Reports(io) ==
    LET With(c) == IF c \in DOMAIN io THEN io[c] ELSE [first |-> 0, then |-> Len(wire[c]), full |-> FALSE]
    IN  [c \in Clients |-> [select |-> c \in Selected(io), first |-> With(c).first,
                            then |-> With(c).then, full |-> With(c).full]]

\* The connections of the clients in a that may connect.
Accepted(a) == SetToSeq({NewConn(c) : c \in {d \in a : AccessCheck("Host", d)}})

\* select reports one connection to accept if there is one, and what it
\* reports of the others.
HandleFd ==
    /\ polled /\ polled' = FALSE
    /\ \E io \in Ios(conns), a \in {{c} : c \in Clients} \cup {{}} :
          /\ IF \A c \in Clients : status[c] # "queued" THEN a = {}
             ELSE a # {} /\ \A c \in a : status[c] = "queued"
          /\ a \cup Selected(io) # {}
          /\ HandleEvent(Accepted(a) \o conns, events, a, Reports(io))
    /\ (events # <<>> /\ \E n \in DOMAIN conns' : conns'[n].state \in {"PARSE_HEADER", "PARSE_BODY"})
         => "timer with command" \in Exposed

\* select ends with the next event's time, nothing has been reported.
SelectEnds ==
    /\ polled /\ \A c \in Clients : status[c] # "queued"
    /\ polled' = FALSE
    /\ UNCHANGED <<clients, got, conns, events, meter>>

Ok(there, over) == [status |-> "OK", tasks |-> there, ruleDone |-> over, lists |-> lists]
Wrong == [status |-> "Error", tasks |-> tasks, ruleDone |-> ruleDone, lists |-> lists]
Names(rules) == {r.name : r \in rules}

\* checkRules of the exporter and the packet processor: the modules exist.
CheckRules(rules) ==
    \A n \in DOMAIN rules : {a.name : a \in Range(rules[n].actions \o rules[n].exports)} \subseteq Modules

\* RuleManager::addRules, after the rules were checked: a rule whose name is
\* taken is an error only if it is the only one.
AddRules(rules) ==
    LET Added(there, r) == IF r.name \in Names(there) THEN there ELSE there \cup {r}
        after == FoldLeft(Added, tasks, rules)
    IN  IF ~CheckRules(rules) \/ (Len(rules) = 1 /\ after = tasks) THEN Wrong ELSE Ok(after, ruleDone)

\* ADD_RULES_CTRLCOMM: nothing is added if the text has an error.  The loop
\* stays in a parser that does not end.
AddText(u) ==
    LET parsed == ParseRulesBuffer(u.text, lists)
        answers == IF parsed.results = {} THEN {Wrong}
                   ELSE {AddRules(p.rules) : p \in {q \in parsed.results : ~q.endless}}
    IN  {[a EXCEPT !.lists = parsed.lists] : a \in answers}

\* A rule is removed by its name.
RemoveRule(u) ==
    IF u.names \subseteq Names(tasks)
      THEN Ok({r \in tasks : r.name \notin u.names}, ruleDone \cup u.names) ELSE Wrong

\* Information about the rule, or about the meter.
RuleInfo(u) == u.names \subseteq Names(tasks) \cup ruleDone \cup {"all"}
GetModuleInfo(u) == u.names \subseteq Modules

\* A mutant: a rule that is there already is added again.
ResultUnchecked(u) ==
    CASE Path(u) = "/add_task" ->
           {Ok(tasks \cup Range(p.rules), ruleDone) : p \in ParseRulesBuffer(u.text, lists).results}
      [] Path(u) = "/rm_task" -> {RemoveRule(u)}
      [] OTHER -> {Ok(tasks, ruleDone)}

\* Meter::handleEvent: what the answer says and the rules afterwards.
Result(u) ==
    CASE Path(u) = "/add_task" -> AddText(u)
      [] Path(u) = "/rm_task" -> {RemoveRule(u)}
      [] Path(u) = "/get_info" -> {IF RuleInfo(u) THEN Ok(tasks, ruleDone) ELSE Wrong}
      [] OTHER -> {IF GetModuleInfo(u) THEN Ok(tasks, ruleDone) ELSE Wrong}

\* sendMsg, sendErrMsg and httpd_send_response: the answer waits for select.
Respond(k, e, result) == [MkHeader(k, result) EXCEPT !.wr = TRUE, !.answer.of = e.i]

Execute ==
    /\ ~polled /\ events # <<>> /\ Head(events) # Timer
    /\ LET e == Head(events)
       IN  \E r \in Result(Request(e.client, e.i)) :
           /\ tasks' = r.tasks /\ ruleDone' = r.ruleDone /\ lists' = r.lists
           /\ done' = Append(done, [client |-> e.client, i |-> e.i, status |-> r.status])
           /\ conns' = [n \in DOMAIN conns |-> IF conns[n].client = e.to
                                                 THEN Respond(conns[n], e, r.status) ELSE conns[n]]
    /\ events' = Tail(events)
    /\ UNCHANGED <<clients, got, polled>>

\* The timer's event: httpd_handle_event without descriptors, so that only
\* the timeouts are looked at, and what is to be parsed is parsed.
ExecuteTimer ==
    /\ ~polled /\ events # <<>> /\ Head(events) = Timer
    /\ \E full \in BOOLEAN :
          HandleEvent(conns, Tail(events), {},
                      [c \in Clients |-> [select |-> FALSE, first |-> 0, then |-> 0, full |-> full]])
    /\ UNCHANGED polled

\* Time for the timer's next event passes while the loop waits.
Tick ==
    /\ polled /\ events = <<>> /\ events' = <<Timer>>
    /\ conns' = [n \in DOMAIN conns |-> [conns[n] EXCEPT !.age = Min({@ + 1, Timeout + 1})]]
    /\ UNCHANGED <<clients, got, polled, meter>>

-----------------------------------------------------------------------------
(* The clients *)

Connect(c) ==
    /\ status[c] = "new" /\ script[c] # <<>> /\ status' = [status EXCEPT ![c] = "queued"]
    /\ UNCHANGED <<script, sent, wire, gone, got, conns, events, polled, meter>>

\* nmrsh sends a request when the last one has been answered.
Send(c) ==
    /\ status[c] \in {"queued", "open"} /\ c \notin gone
    /\ sent[c] < Len(script[c])
    /\ sent[c] = Len(got[c]) \/ "pipelined" \in Exposed
    /\ sent' = [sent EXCEPT ![c] = @ + 1]
    /\ wire' = [wire EXCEPT ![c] = @ \o Parts(c, sent[c] + 1)]
    /\ UNCHANGED <<script, status, gone, got, conns, events, polled, meter>>

HangUp(c) ==
    /\ status[c] \in {"queued", "open"} /\ c \notin gone
    /\ sent[c] = Len(got[c]) \/ "hang up" \in Exposed
    /\ gone' = gone \cup {c}
    /\ UNCHANGED <<script, status, sent, wire, got, conns, events, polled, meter>>

-----------------------------------------------------------------------------
Init ==
    /\ script \in Scripts
    /\ status = [c \in Clients |-> "new"] /\ sent = [c \in Clients |-> 0]
    /\ wire = [c \in Clients |-> <<>>] /\ gone = {} /\ got = [c \in Clients |-> <<>>]
    /\ conns = <<>> /\ events = <<>> /\ polled = FALSE
    /\ lists = [defs |-> NoFile, vals |-> NoFile] /\ tasks = {} /\ ruleDone = {} /\ done = <<>>

Next ==
    \/ Poll \/ HandleFd \/ SelectEnds \/ Execute \/ ExecuteTimer \/ Tick
    \/ \E c \in Clients : Connect(c) \/ Send(c) \/ HangUp(c)

\* The loop comes to select and leaves it again, and time passes, both seen
\* in the variable that changes; nothing is assumed of clients and network.
LoopGoesOn == polled' = ~polled
TimePasses == events = <<>> /\ events' = <<Timer>>

Spec == Init /\ [][Next]_vars /\ WF_polled(LoopGoesOn) /\ SF_events(TimePasses)

-----------------------------------------------------------------------------
(* Properties *)

Executed(c) == SelectSeq(done, LAMBDA d : d.client = c)
Answered(c, i) == i <= Len(got[c])

\* Every answer a client gets is the answer to the request it is waiting
\* for; the commands it sent are executed once, in order, and it is told the
\* result; only the last answer of a connection may be a timeout or a
\* refusal, and no request is called malformed (request.c:101, CtrlComm.cc:367).
AnswersFitRequests ==
    \A c \in Clients :
       /\ \A i \in DOMAIN got[c] :
             \/ got[c][i].of = i /\ got[c][i].status \notin {"400", "403", "408"}
             \/ i = Len(got[c]) /\ got[c][i].status \in {"403", "408"}
       /\ \A m, n \in DOMAIN Executed(c) : m < n => Executed(c)[m].i < Executed(c)[n].i
       /\ \A d \in Range(Executed(c)) : Answered(c, d.i) => got[c][d.i].status = d.status
       /\ \A i \in DOMAIN got[c] : (Path(Request(c, i)) \in Commands /\ got[c][i].status = "OK")
                                     => \E d \in Range(Executed(c)) : d.i = i

\* The rule r is what a part of the text describes: its filters stand for
\* the numbers written there, it has the actions of the part and the global
\* ones once each, both directions are told apart if it is bidirectional,
\* and it stops after it starts.
AsWritten(r, text) ==
    LET Means(w, f) ==
            IF w.kind = "number" THEN {w.n}
            ELSE {v.value.n : v \in {u \in Range(ValFile) : u.name = w.name /\ u.type = Named(DefFile)[f].type}}
        Items(p) == IF text.mapi THEN p ELSE p.items
        Kind(t) == IF text.mapi THEN IF "mtype" \in DOMAIN t.value THEN "FILTER" ELSE t.k ELSE t.node
        FiltersOf(p) == SelectSeq(Items(p), LAMBDA t : Kind(t) = "FILTER")
        ActionsOf(p) == {t.name : t \in {u \in Range(Items(p)) : Kind(u) = "ACTION"}}
        Globals == {p \in Range(text.parts) : ~text.mapi /\ p.node = "GLOBAL"}
    IN  \E p \in Range(text.parts) \ Globals :
          /\ r.name = (IF text.mapi THEN p[1].name ELSE p.id)
          /\ Len(r.filters) = Len(FiltersOf(p))
          /\ \A n \in DOMAIN r.filters :
                LET f == r.filters[n]
                    w == FiltersOf(p)[n]
                IN  /\ f.name = w.name /\ Len(f.values) = Len(w.value.words)
                    /\ \A m \in DOMAIN f.values : f.values[m] \in Means(w.value.words[m], f.name)
                    /\ r.bidir => f.rname = Named(DefFile)[f.name].rname
          /\ Cardinality({a.name : a \in Range(r.actions)}) = Len(r.actions)
          /\ IF text.mapi THEN Len(r.actions) = Cardinality({n \in DOMAIN p : p[n].k = "option" /\ p[n].name = "a"})
             ELSE {a.name : a \in Range(r.actions)} = ActionsOf(p) \cup UNION {ActionsOf(g) : g \in Globals}
          /\ r.start >= Now /\ (r.stop = 0 \/ r.stop > r.start)

\* The installed rules are those that the answers say: of several clients
\* that add or remove the same rule, one is told that it did, and a client is
\* told of a rule that was added; and a rule is what the text of the client
\* that added it describes (RuleManager.cc:251, Meter.cc:717,
\* MAPIRuleParser.cc:96).
AnswersTellTheRules ==
    LET Of(d) == Request(d.client, d.i)
        Did(d, path) == d.status = "OK" /\ Path(Of(d)) = path
        After(n) == FoldLeft(LAMBDA there, d : IF Did(d, "/add_task") THEN there \cup Of(d).names
                                               ELSE IF Did(d, "/rm_task") THEN there \ Of(d).names
                                               ELSE there, {}, SubSeq(done, 1, n))
    IN  /\ Names(tasks) = After(Len(done)) /\ Cardinality(tasks) = Cardinality(Names(tasks))
        /\ \A r \in tasks : \E d \in Range(done) : Did(d, "/add_task") /\ AsWritten(r, Of(d).text)
        /\ \A n \in DOMAIN done :
              /\ Did(done[n], "/add_task") => Of(done[n]).names \cap After(n - 1) = {}
              /\ Did(done[n], "/rm_task") => Of(done[n]).names \subseteq After(n - 1)
              /\ Did(done[n], "/get_info") =>
                    \A r \in Of(done[n]).names \ {"all"} : \E m \in 1..(n - 1) : r \in After(m)

\* A queued command has a connection that waits for it with the request it
\* was made from, and a connection that waits has one such command: the
\* event's pointer to the request is good until it is executed.  And while a
\* connection waits for the next request none has been forgotten
\* (CtrlComm.cc:516, httpd.c:381, httpd.c:330).
EventsHaveRequests ==
    LET Waiting == {"PARSE_HEADER", "PARSE_BODY", "PROCESS"}
        For(k) == {n \in DOMAIN events : events[n] # Timer /\ events[n].to = k.client}
    IN  /\ \A e \in Range(events) : e # Timer =>
              \E k \in Range(conns) : k.client = e.to /\ e.client = e.to /\ RequestOf(k) = e.i
        /\ \A k \in Range(conns) : Cardinality(For(k)) = (IF k.state \in Waiting THEN 1 ELSE 0)
        /\ \A k \in Range(conns) : (k.state = "KEEPALIVE" /\ wire[k.client] = <<>>)
                                     => sent[k.client] = Len(got[k.client])

\* A connection ends when its client stops: whether it does not send, does
\* not read, or only half a request comes (httpd.c:243).
ConnectionsEnd ==
    \A c \in Clients : status[c] \in {"queued", "open"} ~> status[c] = "ended"
=============================================================================
