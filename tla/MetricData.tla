------------------------------ MODULE MetricData ------------------------------
(***************************************************************************)
(* The data of a flow record: how a processing module writes its values    *)
(* into memory, and how an export module walks through lists, flows, rows  *)
(* and columns and finds them again.  Nothing in memory says where a value *)
(* is: writer and reader align to the size of each type on their own.      *)
(* A value is [type, len, val], memory a set of values at their offsets.   *)
(***************************************************************************)
EXTENDS Integers, SequencesExt, FiniteSetsExt

\* The value of what is read in the wrong place.
Garbage == <<>>
Bytes == [UINT8 |-> 1, UINT16 |-> 2, UINT32 |-> 4, UINT64 |-> 8, IPV4ADDR |-> 4, DOUBLE |-> 8]
Aligned(pos, n) == ((pos + n - 1) \div n) * n

Length(v) == CASE v.type = "STRING" -> v.len + 1
               [] v.type = "BINARY" -> 4 + v.len
               [] v.type = "LIST" -> 8
               [] OTHER -> Bytes[v.type]

-----------------------------------------------------------------------------
(* ProcModule.c: the functions that export one value each *)

WriteAlign(t) == CASE t = "STRING" -> 1 [] t \in {"BINARY", "LIST"} -> 4 [] OTHER -> Bytes[t]

Add(w, v) ==
    LET at == Aligned(w.pos, WriteAlign(v.type))
    IN  [pos |-> at + Length(v), mem |-> w.mem \cup {[at |-> at, v |-> v]}]

\* exportData of a processing module: tables are the rows of its lists, and a
\* list of variable length starts with their number
Values(lists, tables) ==
    FlattenSeq([l \in DOMAIN lists |->
        (IF lists[l].variable THEN <<[type |-> "LIST", len |-> 0, val |-> Len(tables[l])]>> ELSE <<>>)
        \o FlattenSeq(tables[l])])

Written(lists, tables) == FoldLeft(Add, [pos |-> 0, mem |-> {}], Values(lists, tables))

-----------------------------------------------------------------------------
(* ExportList: the columns between LIST and LIST_END are a list of variable *)
(* length, those outside a list of one row.                                 *)

TakeType(acc, t) ==
    CASE t = "LIST" -> [lists |-> Append(acc.lists, [variable |-> TRUE, cols |-> <<>>]), open |-> TRUE]
      [] t = "LIST_END" -> [acc EXCEPT !.open = FALSE]
      [] acc.open /\ t \notin {"LIST", "LIST_END"} ->
            [acc EXCEPT !.lists[Len(acc.lists)].cols = Append(@, t)]
      [] OTHER -> [lists |-> Append(acc.lists, [variable |-> FALSE, cols |-> <<t>>]), open |-> TRUE]

ExportLists(info) == FoldLeft(TakeType, [lists |-> <<>>, open |-> FALSE], info).lists

-----------------------------------------------------------------------------
(* MetricData: a flow is [id, new, key, mem, ptr, swap, turned]; turned:    *)
(* its key is in host order, swap: it is known to be                        *)

AddFlowData(md, id, new, key, mem) ==
    [md EXCEPT !.flows = Append(@, [id |-> id, new |-> new, key |-> key, mem |-> mem,
                                    ptr |-> 0, swap |-> FALSE, turned |-> FALSE])]

InitExport(md) == [md EXCEPT !.flows = [i \in DOMAIN @ |-> [@[i] EXCEPT !.ptr = 0]]]

\* Mutant of GetNextFlowKey: the key is turned at every reading.
GetNextFlowKeyAgain(f) == [f EXCEPT !.turned = ~@]

\* The first reading of a key turns it to host order, in place.
GetNextFlowKey(f) == IF f.swap THEN f ELSE [f EXCEPT !.turned = ~@, !.swap = TRUE]

\* What the key reads: only addresses keep their order, and of 32 bits half is lost.
KeySeen(f) ==
    [k \in DOMAIN f.key |->
        LET v == f.key[k]
        IN  IF v.type = "UINT32" \/ (v.type = "UINT16" /\ ~f.turned) THEN [v EXCEPT !.val = Garbage] ELSE v]

ReadAlign(t) == CASE t = "STRING" -> 1 [] t \in {"BINARY", "LIST", "UINT64"} -> 4 [] OTHER -> Bytes[t]

\* What is found at an offset by one who looks for a value of type t.
Holds(mem, at, t) == \E c \in mem : c.at = at /\ c.v.type = t
Found(mem, at, t) ==
    IF Holds(mem, at, t) THEN (CHOOSE c \in mem : c.at = at).v
    ELSE [type |-> t, len |-> 0, val |-> Garbage]

ReadValue(f, row, at, v) == [f |-> [f EXCEPT !.ptr = at + Length(v)], row |-> Append(row, v)]
GetNextData(f, row, t) ==
    LET at == Aligned(f.ptr, ReadAlign(t)) IN ReadValue(f, row, at, Found(f.mem, at, t))

GetNextFlowDataRow(f, cols) ==
    FoldLeft(LAMBDA acc, t : GetNextData(acc.f, acc.row, t), [f |-> f, row |-> <<>>], cols)

Rows(f, list) ==
    LET at == Aligned(f.ptr, ReadAlign("LIST"))
    IN  CASE ~list.variable -> 1
          [] list.variable /\ Holds(f.mem, at, "LIST") -> Found(f.mem, at, "LIST").val
          [] OTHER -> 0

\* all rows of a list, of all flows
GetNextList(md, list) == FoldLeft(LAMBDA sum, f : sum + Rows(f, list), 0, md.flows)

\* The number of rows is looked for where it is aligned, and skipped from where
\* the pointer is.
GetNextFlow(f, list) == IF list.variable THEN [f EXCEPT !.ptr = @ + 8] ELSE f

-----------------------------------------------------------------------------
(* The loops of an export module over the lists, their flows and the flows' *)
(* rows.  An entry is a row, a flow's key on its own, or a table's header.  *)

Entry(kind, f, key, vals, cols) ==
    [kind |-> kind, flow |-> f.id, key |-> key, vals |-> vals, cols |-> cols]

\* Most rows come with the key of their flow; ipfix sends the key of a flow
\* that is new and has rows first, on its own.
OneRow(f, key, list, r) == [f |-> r.f, out |-> <<Entry("row", f, key, r.row, list.cols)>>]
DataRow(f, list) == OneRow(f, <<>>, list, GetNextFlowDataRow(f, list.cols))
RowWithKey(f, list) == OneRow(f, KeySeen(f), list, GetNextFlowDataRow(f, list.cols))
KeyedRow(f, list) == RowWithKey(GetNextFlowKey(f), list)

\* What comes of a flow: the flow, read so far, and the entries.
NoKey(f) == [f |-> f, out |-> <<>>]
KeyAlone(f) == [f |-> f, out |-> <<Entry("key", f, KeySeen(f), <<>>, <<>>)>>]

\* Mutant of NewFlowKey: a flow with one row is left out.
NewFlowKeyManyRows(f, n) == IF f.new /\ n > 1 THEN KeyAlone(GetNextFlowKey(f)) ELSE NoKey(f)
NewFlowKey(f, n) == IF f.new /\ n > 0 THEN KeyAlone(GetNextFlowKey(f)) ELSE NoKey(f)
TableHeader(list) == <<[kind |-> "header", cols |-> list.cols]>>

\* way: "rows" with their keys; "tables", the same with a header for each
\* list; "records", until a list has no rows; "keys", as ipfix does.

AddRow(out, r) == [f |-> r.f, out |-> out \o r.out]
WalkRow(acc, list, way) ==
    AddRow(acc.out, IF way = "keys" THEN DataRow(acc.f, list) ELSE KeyedRow(acc.f, list))

WalkRows(f, list, way, n) ==
    FoldLeft(LAMBDA acc, i : WalkRow(acc, list, way),
             IF way = "keys" THEN NewFlowKey(f, n) ELSE NoKey(f), [i \in 1..n |-> i])
WalkFlow(f, list, way) == WalkRows(GetNextFlow(f, list), list, way, Rows(f, list))

AddList(acc, header, x) ==
    [acc EXCEPT !.md.flows = [i \in DOMAIN x |-> x[i].f],
                !.out = @ \o header \o FlattenSeq([i \in DOMAIN x |-> x[i].out])]
WalkList(acc, list, way) ==
    IF acc.over \/ (way \in {"records", "keys"} /\ GetNextList(acc.md, list) = 0)
    THEN [acc EXCEPT !.over = TRUE]
    ELSE AddList(acc, IF way = "tables" THEN TableHeader(list) ELSE <<>>,
                 [i \in DOMAIN acc.md.flows |-> WalkFlow(acc.md.flows[i], list, way)])

Walk(md, way) ==
    FoldLeft(LAMBDA acc, list : WalkList(acc, list, way),
             [md |-> InitExport(md), out |-> <<>>, over |-> FALSE], md.lists)
=============================================================================
