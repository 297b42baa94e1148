----------------------------- MODULE MCModuleUse -----------------------------
(* Modules and rules for model checking: p and b are processing modules, b  *)
(* with a timer, x and u export modules, u with a timer, and "u.so" is the  *)
(* library of u.                                                            *)
EXTENDS ModuleUse

MCNames == {"p", "b", "x", "u", "u.so"}
MCKind == [n \in MCNames |-> IF n \in {"p", "b"} THEN "proc" ELSE "export"]
MCFile == [n \in MCNames |-> IF n = "u.so" THEN "u" ELSE n]

Rule(a, e) == [actions |-> a, exports |-> e]
MCShapes ==
    {Rule(<<"p", "b">>, <<"u">>), Rule(<<"b", "b">>, <<"x">>), Rule(<<"p">>, <<"u", "x">>),
     Rule(<<"p", "bad parameters">>, <<"x">>), Rule(<<"p", "x">>, <<"u">>),
     Rule(<<"x", "b">>, <<"u">>), Rule(<<"b">>, <<"p", "u">>), Rule(<<"p">>, <<"u.so">>)}

MCPreloadLists ==
    {[Proc |-> <<"p">>, Export |-> <<>>], [Proc |-> <<"p", "b">>, Export |-> <<"x", "u">>]}
=============================================================================
