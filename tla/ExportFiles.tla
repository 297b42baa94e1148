----------------------------- MODULE ExportFiles -----------------------------
(***************************************************************************)
(* The export modules that write files.  w is what the modules share, u an *)
(* export record's rule and place, x the export as the rule asks for it,   *)
(* md the data of one processing module.                                   *)
(***************************************************************************)
EXTENDS MetricData

CONSTANT LongBytes      \* size of a long

NewRec == [fd |-> 1, first |-> TRUE]

\* One file, or one for each processing module; a name that the rule does not
\* give comes from the configuration, or is the rule's own.
FileOf(x, md) == <<x.dest, IF x.multi THEN md.name ELSE "all">>
ToFile(w, file, entries) == [w EXCEPT !.files[file] = @ \o entries]

\* What is written of the entries: the option for the flow's number goes for
\* each row.
Lines(u, x, md, entries) ==
    [k \in DOMAIN entries |->
        LET e == entries[k]
        IN  IF e.kind = "header" THEN [kind |-> "header", cols |-> e.cols, flowId |-> x.flowId]
            ELSE [kind |-> e.kind, rule |-> u[1], metric |-> md.name, flow |-> e.flow, key |-> e.key,
                  cols |-> e.cols, flowId |-> x.flowId, vals |-> e.vals]]

\* Entries with their values printed: each module has its way.
Printed(entries, Value(_)) ==
    [k \in DOMAIN entries |->
        IF entries[k].kind = "header" THEN entries[k]
        ELSE [entries[k] EXCEPT !.vals = [c \in DOMAIN @ |-> Value(@[c])]]]

\* 32 bits printed as a long: with those that follow, if a long has 64
AsLong(v) == IF v.type = "UINT32" /\ LongBytes = 8 THEN [v EXCEPT !.val = Garbage] ELSE v

-----------------------------------------------------------------------------
(* text_file: a header for each list *)

TextInit(w, u) == [w EXCEPT !.recs[u] = NewRec]
TextValue(v) == AsLong(v)
TextMetricData(md) == Walk(md, "tables")
TextExport(w, u, x, md) ==
    LET r == TextMetricData(md)
    IN  [w |-> ToFile(w, FileOf(x, md), Lines(u, x, md, Printed(r.out, TextValue))), md |-> r.md]

-----------------------------------------------------------------------------
(* ctext_file: each row tells the rule and the processing module *)

CTextInit(w, u) == [w EXCEPT !.recs[u] = NewRec]
CTextValue(v) == AsLong(v)
CTextMetricData(md) == Walk(md, "rows")
CTextExport(w, u, x, md) ==
    LET r == CTextMetricData(md)
    IN  [w |-> ToFile(w, FileOf(x, md), Lines(u, x, md, Printed(r.out, CTextValue))), md |-> r.md]

-----------------------------------------------------------------------------
(* ac_file *)

AcInit(w, u) == [w EXCEPT !.recs[u] = NewRec]
AcValue(v) == v
AcMetricData(md) == Walk(md, "rows")
AcExport(w, u, x, md) ==
    LET r == AcMetricData(md)
    IN  [w |-> ToFile(w, FileOf(x, md), Lines(u, x, md, Printed(r.out, AcValue))), md |-> r.md]

-----------------------------------------------------------------------------
(* netai_arff: one header for an export record, with the columns of the first *)
(* list of the data at hand                                                   *)

ArffInit(w, u) == [w EXCEPT !.recs[u] = NewRec]
ArffValue(v) == v
ArffHeader(md) == <<[kind |-> "header", cols |-> md.lists[1].cols, flowId |-> FALSE]>>
ArffMetricData(md) == Walk(md, "rows")
ArffExport(w, u, x, md) ==
    LET r == ArffMetricData(md)
        s == IF w.recs[u].first THEN ToFile(w, FileOf(x, md), ArffHeader(md)) ELSE w
    IN  [w |-> [ToFile(s, FileOf(x, md), Lines(u, x, md, Printed(r.out, ArffValue))) EXCEPT !.recs[u].first = FALSE],
         md |-> r.md]

-----------------------------------------------------------------------------
(* bin_file: the first export of a record removes what the file held *)

BinInit(w, u) == [w EXCEPT !.recs[u] = NewRec]
BinValue(v) == v
BinMetricData(md) == Walk(md, "records")
BinExport(w, u, x, md) ==
    LET r == BinMetricData(md)
        s == IF w.recs[u].first THEN [w EXCEPT !.files[FileOf(x, md)] = <<>>] ELSE w
    IN  [w |-> [ToFile(s, FileOf(x, md), Lines(u, x, md, Printed(r.out, BinValue))) EXCEPT !.recs[u].first = FALSE],
         md |-> r.md]
=============================================================================
