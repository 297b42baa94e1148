----------------------------- MODULE RuleParsers -----------------------------
(***************************************************************************)
(* From a text to rules: the definitions of filters and of their values,   *)
(* rule files, the one-line form of the measurement API, and the           *)
(* constructor of a rule.                                                  *)
(* A parser is the set of what it can return: nothing if it throws, more   *)
(* than one element where it uses a value that is not initialized.         *)
(* A word of a text is [kind, n, name]: a "number", a time "plus" some     *)
(* seconds, a "name", or a name with capitals ("Name").                    *)
(***************************************************************************)
EXTENDS Integers, SequencesExt, FiniteSetsExt

CONSTANTS
    DefFile,        \* filterdef.xml: a sequence of [name, type, rname, ok]
    ValFile,        \* filterval.xml: a sequence of [name, type, value, ok]
    MaxSet,         \* MAX_FILTER_SET_SIZE
    Now,            \* when the text is parsed
    Leftover        \* what a new rule's flowTimeout may hold

ASSUME RuleParsersAssumption ==
    MaxSet \in Nat \ {0} /\ Now \in Nat \ {0} /\ Leftover \subseteq Nat

Number(n) == [kind |-> "number", n |-> n, name |-> ""]
Name(name) == [kind |-> "name", n |-> 0, name |-> name]
Nothing == [kind |-> "none", n |-> 0, name |-> ""]

NoFile == [x \in {} |-> Nothing]
Named(list) == [x \in {list[n].name : n \in DOMAIN list} |-> list[Min({n \in DOMAIN list : list[n].name = x})]]

\* The entries of a file until one throws; the first of a name counts.
ReadFile(file) ==
    LET bad == {n \in DOMAIN file : ~file[n].ok}
    IN  [entries |-> Named(SubSeq(file, 1, Min(bad \cup {Len(file) + 1}) - 1)), ok |-> bad = {}]

\* FilterDefParser::parse: at the end the reverse attributes are checked.
ReadDefs ==
    LET read == ReadFile(DefFile)
        d == read.entries
    IN  [read EXCEPT !.ok = @ /\ \A x \in DOMAIN d : d[x].rname # "" =>
                                   d[x].rname \in DOMAIN d /\ d[d[x].rname].type = d[x].type]

\* loadFilterDefs, loadFilterVals: a list that has entries is used as it is.
Load(list, read) == IF DOMAIN list # {} THEN [entries |-> list, ok |-> TRUE] ELSE read

-----------------------------------------------------------------------------
(* Filters *)

\* lookup: the name of a value stands for it.  The names are kept in lower
\* case; what the one-line form gives is made lower case before.
Lookup(vals, w, type, mapi) ==
    LET lower == w.kind = "name" \/ (mapi /\ w.kind = "Name")
    IN  IF ~lower \/ w.name \notin DOMAIN vals THEN {w}
        ELSE IF vals[w.name].type = type THEN {vals[w.name].value}
        ELSE IF mapi THEN {w} ELSE {}

\* FilterValue: a number of any size is cut to the type's width.
FilterValue(type, w) ==
    IF w.kind # "number" THEN {}
    ELSE CASE type = "UInt8" -> {w.n % 2 ^ 8} [] type = "UInt16" -> {w.n % 2 ^ 16} [] OTHER -> {w.n}

\* parseFilterValue: "*", "range", "set" or "exact".
ParseFilterValue(vals, v, type, mapi) ==
    LET meaning == [n \in DOMAIN v.words |->
                      UNION {FilterValue(type, w) : w \in Lookup(vals, v.words[n], type, mapi)}]
    IN  IF Len(v.words) > MaxSet \/ \E n \in DOMAIN meaning : meaning[n] = {} THEN {}
        ELSE {[n \in DOMAIN meaning |-> CHOOSE m \in meaning[n] : TRUE]}

\* A filter as its definition says; only a rule file gives it the reverse
\* attribute.  The masks are left out.
Filters(defs, vals, item, mapi) ==
    IF item.name \notin DOMAIN defs THEN {}
    ELSE {[name |-> item.name, mtype |-> item.value.mtype, values |-> m,
           rname |-> IF mapi THEN "" ELSE defs[item.name].rname] :
            m \in ParseFilterValue(vals, item.value, defs[item.name].type, mapi)}

-----------------------------------------------------------------------------
(* The constructor *)

NoRule(name) ==
    [name |-> name, filters |-> <<>>, actions |-> <<>>, exports |-> <<>>, miscs |-> NoFile]

\* getMiscVal; parseTime: 0 if there is no time.
MiscVal(r, name) == IF name \in DOMAIN r.miscs THEN r.miscs[name] ELSE Nothing
ParseTime(w) == IF w.kind = "plus" THEN Now + w.n ELSE w.n

\* The flow timeout, -1 if there is none: "yes" leaves it uninitialized.
FlowTimeouts(w) ==
    IF w = Nothing \/ (w.kind = "number" /\ w.n = 0) \/ w.name \in {"no", "false"} THEN {-1}
    ELSE IF w.name \in {"yes", "true"} THEN Leftover
    ELSE IF w.kind = "number" THEN {w.n}
    ELSE {}

\* The export intervals: an export's own setting, or the rule's.
Setting(r, e, name) ==
    LET own == SelectSeq(e.conf, LAMBDA p : p.name = name)
    IN  IF own = <<>> THEN MiscVal(r, name) ELSE own[1].value
Intervals(r) ==
    LET Key(e) == [interval |-> Setting(r, e, "Interval").n, align |-> Setting(r, e, "Align") # Nothing]
    IN  {[key |-> Key(e), exports |-> {f.name : f \in {g \in Range(r.exports) : Key(g) = Key(e)}}] :
           e \in {g \in Range(r.exports) : Key(g).interval > 0}}

\* Rule::Rule.
Rules(r) ==
    LET Given(name) == MiscVal(r, name) # Nothing
        duration == MiscVal(r, "Duration").n
        start == IF Given("Start") THEN ParseTime(MiscVal(r, "Start")) ELSE Now
        stop == ParseTime(MiscVal(r, "Stop"))
        first == IF duration > 0 /\ stop # 0 THEN stop - duration ELSE start
        last == IF duration > 0 /\ stop = 0 THEN start + duration ELSE stop
        wrong == \/ r.filters = <<>> \/ r.actions = <<>> \/ r.exports = <<>>
                 \/ Given("Start") /\ Given("Stop") /\ Given("Duration")
                 \/ Given("Start") /\ start = 0
                 \/ Given("Stop") /\ stop = 0
                 \/ Given("Duration") /\ MiscVal(r, "Duration").kind # "number"
                 \/ last # 0 /\ last <= Now
                 \/ \E e \in Range(r.exports) : Setting(r, e, "Interval").kind \notin {"number", "none"}
    IN  IF wrong THEN {}
        ELSE {[name |-> r.name, filters |-> r.filters, actions |-> r.actions, exports |-> r.exports,
               start |-> Max({first, Now}), stop |-> last, timeout |-> t, intervals |-> Intervals(r),
               bidir |-> Given("bidir"), sepPaths |-> Given("sep_paths"), auto |-> Given("auto")] :
                 t \in FlowTimeouts(MiscVal(r, "FlowTimeout"))}

-----------------------------------------------------------------------------
(* Rule files: nodes [node, id, items], items [node, name, value, ok, conf] *)

\* parsePref has found a value of the preference's type.
PrefsOk(item) == item.ok /\ \A n \in DOMAIN item.conf : item.conf[n].ok
Module(item) == [name |-> item.name, conf |-> item.conf]
Instead(list, item) == Append(RemoveFirstMatch(list, LAMBDA a : a.name = item.name), Module(item))
Preferred(miscs, name, value) == [x \in DOMAIN miscs \cup {name} |-> IF x = name THEN value ELSE miscs[x]]

\* One element of the global settings, one of a rule.
Global(g, item) ==
    IF ~PrefsOk(item) THEN {}
    ELSE CASE item.node = "PREF" -> {[g EXCEPT !.miscs = Preferred(@, item.name, item.value)]}
           [] item.node = "ACTION" -> {[g EXCEPT !.actions = Append(@, Module(item))]}
           [] item.node = "EXPORT" -> {[g EXCEPT !.exports = Append(@, Module(item))]}
           [] OTHER -> {g}
Local(r, item, defs, vals) ==
    IF ~PrefsOk(item) THEN {}
    ELSE CASE item.node = "PREF" -> {[r EXCEPT !.miscs = Preferred(@, item.name, item.value)]}
           [] item.node = "FILTER" -> {[r EXCEPT !.filters = Append(@, f)] : f \in Filters(defs, vals, item, FALSE)}
           [] item.node = "ACTION" -> {[r EXCEPT !.actions = Instead(@, item)]}
           [] item.node = "EXPORT" -> {[r EXCEPT !.exports = Instead(@, item)]}
           [] OTHER -> {r}

\* What a sequence of steps makes of some states, each of which may throw.
Through(Step(_, _), states, items) == FoldLeft(LAMBDA S, i : UNION {Step(s, i) : s \in S}, states, items)

\* RuleFileParser::parse.
Node(s, node, defs, vals) ==
    LET r == [s.global EXCEPT !.name = node.id]
    IN  IF node.node = "GLOBAL" THEN {[s EXCEPT !.global = g] : g \in Through(Global, {s.global}, node.items)}
        ELSE UNION {{[s EXCEPT !.rules = Append(@, new)] : new \in Rules(t)} :
                      t \in Through(LAMBDA u, item : Local(u, item, defs, vals), {r}, node.items)}

ParseFile(nodes, defs, vals) ==
    {[rules |-> s.rules, endless |-> FALSE] :
       s \in Through(LAMBDA s, node : Node(s, node, defs, vals), {[global |-> NoRule(""), rules |-> <<>>]}, nodes)}

-----------------------------------------------------------------------------
(* The one-line form: words [k, name, value]; k is "word", "assign" (with   *)
(* an equals sign) or "option" (with a dash)                               *)

Options == {"w", "r", "a", "m", "e"}
Settings == [start |-> "Start", stop |-> "Stop", duration |-> "Duration", interval |-> "Interval",
             auto |-> "auto", bidir |-> "bidir"]

\* An argument that is not an option, where o is the option before it.  The
\* loop does not go on if that takes no arguments.
Argument(s, t, defs, vals) ==
    CASE s.option \in {"", "w"} -> {[s EXCEPT !.endless = TRUE]}
      [] t.k # "assign" -> {}
      [] s.option = "r" -> {[s EXCEPT !.rule.filters = Append(@, f)] : f \in Filters(defs, vals, t, TRUE)}
      [] s.option = "a" ->
           LET last == Len(s.rule.actions)
           IN  IF t.name = "method" THEN {[s EXCEPT !.rule.actions[last].name = @ \o "_" \o t.value.name]}
               ELSE {[s EXCEPT !.rule.actions[last].conf = Append(@, [name |-> t.name, value |-> t.value])]}
      [] s.option = "m" ->
           IF t.name \notin DOMAIN Settings THEN {}
           ELSE {[s EXCEPT !.rule.miscs = Preferred(@, Settings[t.name], t.value)]}
      [] OTHER ->
           IF t.name # "target" THEN {}
           ELSE LET e == [name |-> t.value.module, conf |-> s.export.conf \o t.value.conf]
                IN  {[s EXCEPT !.export = e, !.rule.exports = Append(@, e)]}

\* One argument; the first one after -a is the action's name.
Token(s, t, defs, vals) ==
    IF s.endless THEN {s}
    ELSE IF s.naming
      THEN {[s EXCEPT !.naming = FALSE, !.rule.actions = Append(@, [name |-> t.name, conf |-> <<>>])]}
    ELSE IF t.k # "option" THEN Argument(s, t, defs, vals)
    ELSE IF t.name \notin Options THEN {}
    ELSE {[s EXCEPT !.option = t.name, !.naming = (t.name = "a"), !.export = [name |-> "", conf |-> <<>>]]}

\* MAPIRuleParser::parse, one line.  Neither the arguments nor what they
\* gave are cleared between the lines; a word that is alone is not taken.
Line(s, line, defs, vals) ==
    LET args == s.args \o (IF Len(line) = 1 THEN <<>> ELSE line)
        begun == [s EXCEPT !.args = args, !.rule.name = args[1].name, !.option = "", !.naming = FALSE]
        parsed == Through(LAMBDA t, word : Token(t, word, defs, vals), {begun}, Tail(args))
    IN  IF s.endless THEN {s}
        ELSE IF args = <<>> THEN {}
        ELSE {t \in parsed : t.endless}
             \cup UNION {{[t EXCEPT !.rules = Append(@, new)] : new \in Rules(t.rule)} : t \in {u \in parsed : ~u.endless}}

ParseLines(lines, defs, vals) ==
    LET none == [args |-> <<>>, rule |-> NoRule(""), option |-> "", naming |-> FALSE,
                 export |-> [name |-> "", conf |-> <<>>], rules |-> <<>>, endless |-> FALSE]
    IN  {[rules |-> s.rules, endless |-> s.endless] :
           s \in Through(LAMBDA s, line : Line(s, line, defs, vals), {none}, lines)}

\* RuleManager::parseRulesBuffer with the lists as loaded so far: the lists
\* afterwards, and what the text can be parsed to.
ParseRulesBuffer(text, lists) ==
    LET defs == Load(lists.defs, ReadDefs)
        vals == Load(lists.vals, ReadFile(ValFile))
    IN  [lists |-> [defs |-> defs.entries, vals |-> IF defs.ok THEN vals.entries ELSE lists.vals],
         results |-> IF ~(defs.ok /\ vals.ok) THEN {}
                     ELSE IF text.mapi THEN ParseLines(text.parts, defs.entries, vals.entries)
                     ELSE ParseFile(text.parts, defs.entries, vals.entries)]
=============================================================================
