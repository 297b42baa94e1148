---------------------------- MODULE MCControlComm ----------------------------
(* Clients and their commands for model checking: rules with a body in two *)
(* parts, a and b that work on the same rule, every kind of request, and d *)
(* whose host is not allowed.                                              *)
EXTENDS ControlComm, TLC

Entry(type, value, allow) == [type |-> type, value |-> value, allow |-> allow]
MCAccessList ==
    <<Entry("Other", "x", TRUE), Entry("Host", "unknown", TRUE), Entry("Host", "denied", FALSE),
      Entry("Host", "All", TRUE), Entry("User", <<"u">>, TRUE)>>
MCAddresses == "unknown" :> {} @@ "denied" :> {"d"}

Def(name, type, rname) == [name |-> name, type |-> type, rname |-> rname, ok |-> TRUE]
MCDefFile == <<Def("srcport", "UInt16", "dstport"), Def("dstport", "UInt16", "srcport"), Def("proto", "UInt8", "")>>
MCValFile == <<[name |-> "http", type |-> "UInt16", value |-> Number(80), ok |-> TRUE],
               [name |-> "tcp", type |-> "UInt8", value |-> Number(6), ok |-> TRUE]>>

\* A rule file: rule q with the global action and export, rule r with its own.
Item(node, name, value) == [node |-> node, name |-> name, value |-> value, ok |-> TRUE, conf |-> <<>>]
Part(node, id, items) == [node |-> node, id |-> id, items |-> items]
Filter(name, mtype, words) == Item("FILTER", name, [mtype |-> mtype, words |-> words])
Conf(name, value) == [name |-> name, value |-> value, ok |-> TRUE]
Globals == Part("GLOBAL", "", <<Item("ACTION", "count", Nothing), Item("EXPORT", "text_file", Nothing),
                                Item("PREF", "Interval", Number(2)), Item("PREF", "Duration", Number(9))>>)
RuleQ == Part("RULE", "q", <<Filter("proto", "exact", <<Name("tcp")>>), Filter("dstport", "range", <<Number(1), Number(9)>>),
                             Item("PREF", "bidir", Name("yes")), Item("PREF", "Stop", [kind |-> "plus", n |-> 20, name |-> ""])>>)
RuleR == Part("RULE", "r", <<Filter("srcport", "set", <<Name("http"), Number(8080)>>), Item("ACTION", "jitter", Nothing),
                             [Item("ACTION", "count", Nothing) EXCEPT !.conf = <<Conf("Max", Number(3))>>],
                             [Item("EXPORT", "text_file", Nothing) EXCEPT !.conf = <<Conf("Interval", Number(5))>>],
                             Item("PREF", "FlowTimeout", Number(4)), Item("PREF", "auto", Name("yes"))>>)
File(parts) == [mapi |-> FALSE, parts |-> parts]
Unknown == Part("RULE", "s", <<Filter("ttl", "wild", <<>>)>>)
Mistyped == Part("RULE", "s", <<Filter("proto", "exact", <<Name("http")>>)>>)

\* The same rule r in one line.
Word(k, name, value) == [k |-> k, name |-> name, value |-> value]
Option(name) == Word("option", name, Nothing)
Assign(name, value) == Word("assign", name, value)
Target == Assign("target", [module |-> "text_file", conf |-> <<Conf("Filename", Name("f"))>>])
OneLine(r, filter, action, more) ==
    <<Word("word", r, Nothing), Option("r"), Assign(filter, [mtype |-> "exact", words |-> <<[Name("http") EXCEPT !.kind = "Name"]>>]),
      Option("a"), Word("word", action, Nothing), Assign("method", Name("all")), Assign("Max", Number(3)),
      Option("m"), Assign("duration", Number(7)), Option("e"), Target>> \o more
Lines(lines) == [mapi |-> TRUE, parts |-> lines]

NoText == File(<<>>)
Shell(action, names, text, body) ==
    [action |-> action, names |-> names, text |-> text, valid |-> TRUE, body |-> body, get |-> FALSE,
     user |-> <<"u", "pw">>, cut |-> "none"]
Browse(path, names) == [Shell(path, names, NoText, 0) EXCEPT !.get = TRUE]

AddR == Shell("add_task", {"r"}, Lines(<<OneLine("r", "dstport", "rtt", <<>>)>>), 1)
AddFile(parts) == Shell("add_tasks", {parts[n].id : n \in DOMAIN parts} \ {""}, File(parts), 2)
RemoveR == Shell("rm_task", {"r"}, NoText, 1)
Page == [Browse("/help", {}) EXCEPT !.cut = "bit"]
NoUser == [Browse("/get_info", {"all"}) EXCEPT !.user = <<"v">>]

MCScripts ==
    {"a" :> s[1] @@ "b" :> s[2] @@ "d" :> s[3] : s \in
       {<< <<AddFile(<<Globals, RuleR>>), RemoveR>>, <<AddR, Page>>, <<>> >>,
        << <<AddFile(<<Globals, RuleQ, RuleR>>)>>, <<Page, Browse("/get_info", {"r"})>>, <<>> >>,
        << <<Shell("get_info", {}, NoText, 0), Browse("/other", {})>>,
           <<NoUser, [Browse("/get_info", {"all"}) EXCEPT !.valid = FALSE]>>, <<>> >>,
        << <<Shell("add_task", {"s"}, File(<<Globals, Mistyped>>), 1)>>, <<AddFile(<<Globals, RuleR, Unknown>>)>>, <<>> >>,
        << <<Shell("get_modinfo", {"m"}, NoText, 1)>>, <<>>, <<Page>> >>}}
=============================================================================
