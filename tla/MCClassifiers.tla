---------------------------- MODULE MCClassifiers ----------------------------
(* Rules for model checking: on a source, a destination and a protocol of   *)
(* one byte, going one way or both, with each type of filter, and one that  *)
(* takes every packet.                                                      *)
EXTENDS Classifiers

Filter(on, back, type, vals) == [on |-> on, back |-> back, type |-> type, vals |-> vals]
Shape(bidir, filters) == [uid |-> 0, bidir |-> bidir, filters |-> filters]

Both(type, vals, bidir) ==
    Shape(bidir, << Filter("src", "dst", type, vals), Filter("dst", "src", "wild", <<>>) >>)

MCShapes ==
    { Shape(FALSE, << Filter("src", NoLine, "wild", <<>>) >>),
      Shape(FALSE, << Filter("dst", NoLine, "exact", <<1>>) >>),
      Shape(TRUE, << Filter("src", NoLine, "exact", <<0>>) >>),
      Shape(TRUE, << Filter("src", "dst", "exact", <<0>>) >>),
      Shape(FALSE, << Filter("src", NoLine, "set", <<0, 1>>), Filter("dst", NoLine, "exact", <<0>>) >>),
      Shape(FALSE, << Filter("dst", NoLine, "range", <<1, 2>>) >>),
      Shape(FALSE, << Filter("proto", NoLine, "range", <<1, 2>>) >>),
      Shape(TRUE, << Filter("proto", NoLine, "set", <<0, 2>>) >>),
      Shape(FALSE, << Filter("proto", NoLine, "exact", <<0>>), Filter("src", NoLine, "wild", <<>>) >>),
      Both("exact", <<1>>, TRUE),
      Shape(TRUE, << Filter("src", "dst", "exact", <<0>>), Filter("dst", "src", "set", <<0, 2>>) >>) }
=============================================================================
