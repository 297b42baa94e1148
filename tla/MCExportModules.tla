--------------------------- MODULE MCExportModules ---------------------------
(* What some processing modules export, and rules for model checking: with   *)
(* sockets, with files, with both, with ipfix's connections, which may be too *)
(* few, and with two hosts and values that ipfix cannot send.                *)
EXTENDS ExportModules

MCInfos == [count |-> <<"UINT32", "UINT32">>,
            pktlen |-> <<"UINT16", "UINT16">>,
            flowstats |-> <<"UINT32", "UINT32", "UINT64">>,
            jitter |-> <<"UINT32", "UINT64">>,
            port_use |-> <<"LIST", "STRING", "UINT64">>,
            pktid_crc32 |-> <<"LIST", "UINT32", "UINT16", "UINT8", "LIST_END">>,
            pktid_md5 |-> <<"LIST", "UINT32", "BINARY", "LIST_END">>,
            show_ascii |-> <<"LIST", "UINT8", "UINT16", "STRING", "UINT16", "LIST_END">>,
            testmod |-> <<"UINT16", "UINT32", "LIST", "UINT16", "UINT8", "LIST_END", "UINT8", "UINT32">>,
            list2 |-> <<"BINARY", "LIST", "UINT16", "LIST_END">>]

Export(m, d, multi, id) == [module |-> m, dest |-> d, multi |-> multi, flowId |-> id]
Rule(metrics, exports) == [metrics |-> metrics, exports |-> exports]

\* Both rules use a socket, both a file, both ipfix, or one each.
MCConfs ==
    {<<Rule(<<"pktlen">>, <<Export("netai_socket", "h1", FALSE, FALSE), Export("ac_udp", "h2", FALSE, TRUE)>>),
       Rule(<<"show_ascii">>, <<Export("netai_socket", "h1", FALSE, TRUE)>>)>>,
     <<Rule(<<"flowstats">>, <<Export("netai_arff", "f1", FALSE, FALSE), Export("ac_file", "f2", FALSE, TRUE)>>),
       Rule(<<"testmod">>, <<Export("text_file", "f3", FALSE, TRUE), Export("bin_file", "f4", FALSE, FALSE)>>)>>,
     <<Rule(<<"pktid_md5", "count">>, <<Export("ctext_file", "f1", TRUE, FALSE), Export("ac_udp", "h1", TRUE, FALSE)>>),
       Rule(<<"pktlen">>, <<Export("ac_udp", "h1", FALSE, FALSE)>>)>>,
     <<Rule(<<"testmod", "count">>, <<Export("ipfix", "h1", FALSE, FALSE), Export("text_file", "f1", TRUE, FALSE)>>),
       Rule(<<"pktid_crc32">>, <<Export("ipfix", "h2", FALSE, FALSE), Export("ipfix", "h1", FALSE, FALSE)>>)>>,
     <<Rule(<<"pktlen">>, <<Export("ipfix", "h2", FALSE, FALSE)>>),
       Rule(<<"pktlen">>, <<Export("ipfix", "h3", FALSE, FALSE)>>)>>,
     <<Rule(<<"pktid_crc32">>, <<Export("ac_udp", "h1", FALSE, FALSE)>>),
       Rule(<<"pktid_md5">>, <<Export("ipfix", "h1", FALSE, FALSE), Export("ac_udp", "h2", FALSE, FALSE)>>)>>}
MCKeyTypes == <<"UINT16", "IPV4ADDR">>
=============================================================================
