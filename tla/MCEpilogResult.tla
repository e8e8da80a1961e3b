--------------------------- MODULE MCEpilogResult ---------------------------
(***************************************************************************)
(* The dependents of a loop's pointers: the pointer phi and its update,    *)
(* the value the loop's end is tested with, the test and the branch at the *)
(* loop's last address, and four ops behind the loop, each reading one or  *)
(* two Varnodes; one of them writes a control register.                    *)
(***************************************************************************)
EXTENDS EpilogResult

MCOp == {"phi", "next", "first", "test", "branch", "e1", "e2", "e3", "e4"}
MCVn == {"p", "q", "p2", "c", "t", "x1", "x2", "x3", "x4"}
MCInputVn == {"q"}
MCRegisterVn == {"p", "q", "p2", "c", "x1", "x3", "x4"}
MCOpsInLoop == {"phi", "next", "first", "test", "branch"}

MCAddr == [op \in MCOp |->
  CASE op = "phi" -> 1 [] op = "next" -> 2 [] op = "first" -> 3
    [] op \in {"test", "branch"} -> 4
    [] op = "e1" -> 5 [] op = "e2" -> 6 [] op = "e3" -> 7 [] OTHER -> 30]

MCOut == [op \in MCOp |->
  CASE op = "phi" -> "p" [] op = "next" -> "p2" [] op = "first" -> "c"
    [] op = "test" -> "t" [] op = "branch" -> NoVn
    [] op = "e1" -> "x1" [] op = "e2" -> "x2" [] op = "e3" -> "x3" [] OTHER -> "x4"]

(* Behind the loop, an op may read the result of any other: a phi also a   *)
(* later one.                                                              *)
MCFunctions ==
  {[ins |-> [op \in MCOp |->
       CASE op = "phi" -> <<"q", "p2">> [] op = "next" -> <<"p">>
         [] op = "first" -> f [] op = "test" -> t [] op = "branch" -> <<"t">>
         [] op = "e1" -> i1 [] op = "e2" -> i2 [] op = "e3" -> i3 [] OTHER -> <<"x3">>],
    out |-> MCOut] :
     f \in {<<"p", "q">>, <<"p2">>},
     t \in {<<"c">>, <<"c", "p2">>},
     i1 \in {<<"p", "q">>, <<"c", "p">>, <<"p2", "x3">>},
     i2 \in {<<"q", "x1">>, <<"p", "q">>, <<"x1">>},
     i3 \in {<<"c">>, <<"x1", "x2">>, <<"x2">>}}
=============================================================================
