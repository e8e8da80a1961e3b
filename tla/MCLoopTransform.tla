-------------------------- MODULE MCLoopTransform --------------------------
(***************************************************************************)
(* The loops GCC makes of memcpy, strlen and strcmp, as the repository's   *)
(* design notes show them, each with variations: how the loop is entered,  *)
(* who reads what it computes, how the result is used.                     *)
(***************************************************************************)
EXTENDS LoopTransform, TLC

Phis == {"phi_a", "phi_b", "phi_n", "phi_l", "phi_m", "outer"}

McLoopOrder ==
  <<"phi_a", "phi_b", "phi_n", "phi_l", "phi_m", "vset", "ld", "ldff", "seq", "sne", "mor",
    "first", "neg", "dec", "inca", "incb", "pcast", "st", "zext", "user", "vadd", "test", "br">>

McKind ==
  [op \in Phis |-> "phi"] @@
  [vset |-> "vset", ld |-> "load", ldff |-> "loadff", seq |-> "vcompare", sne |-> "vcompare",
   mor |-> "vlogical", first |-> "vlogical", neg |-> "mult", dec |-> "add", inca |-> "add",
   incb |-> "add", pcast |-> "cast", st |-> "store", zext |-> "other", user |-> "user",
   vadd |-> "vother", test |-> "less", br |-> "cbranch",
   start |-> "copy", ecast |-> "cast", end |-> "add", adda |-> "add", addb |-> "add",
   lda |-> "sload", ldb |-> "sload", sub |-> "sub", eq |-> "equal", ne |-> "notequal",
   plus |-> "add", mid |-> "other", ret |-> "call", branch |-> "cbranch", late |-> "other",
   call |-> "other", invert |-> "other"]

McOp == DOMAIN McKind

McAddr ==
  [op \in {McLoopOrder[i] : i \in DOMAIN McLoopOrder} |-> IF op \in Phis THEN 10 ELSE 15] @@
  [br |-> 20, call |-> 20, invert |-> 20, start |-> 2, outer |-> 5, ecast |-> 22, end |-> 22,
   adda |-> 22, addb |-> 22, mid |-> 24, lda |-> 24, ldb |-> 24, sub |-> 26, eq |-> 26, ne |-> 26,
   plus |-> 26, branch |-> 28, late |-> 40, ret |-> 44]

McHome ==
  [op \in McOp |->
     CASE op \in {McLoopOrder[i] : i \in DOMAIN McLoopOrder} \cup {"call", "invert"} -> "loop"
       [] op = "start" -> "pre" [] op = "outer" -> "head"
       [] op \in {"late", "ret"} -> "far" [] OTHER -> "epilog"]

McInputVn == {"ia", "ib", "in", "ia2", "ib2", "in2", "mem", "vl"}
McPoolVn == {"k", "f"}
McRegisterVn ==
  {"pa", "pan", "pb", "pbn", "n", "nn", "l", "la", "il", "r", "s", "o",
   "ia", "ib", "in", "ia2", "ib2", "in2", "callvn", "invertvn"}
McMemoryVn == {"m", "mem"}
McVn ==
  McInputVn \cup McPoolVn \cup McRegisterVn \cup McMemoryVn \cup
  {"v", "v2", "c", "c2", "cm", "x", "ng", "t", "pac", "e", "u", "sa", "sb", "xa", "xb", "mo", "w", "z"}

McReg ==
  [v \in McVn |->
     CASE v \in {"pa", "pan", "ia", "ia2", "r", "callvn", "invertvn"} -> 10
       [] v \in {"pb", "pbn", "ib", "ib2"} -> 11
       [] v \in {"n", "nn", "in", "in2"} -> 12
       [] v \in {"la", "il"} -> 13
       [] v = "l" -> 14 [] v \in {"s", "o"} -> 15 [] OTHER -> 0]

RECURSIVE Listed(_)
Listed(S) == IF S = {} THEN <<>> ELSE LET x == CHOOSE x \in S : TRUE IN <<x>> \o Listed(S \ {x})

McHeap ==
  LET ops == Listed(McOp)
  IN [op \in McOp |-> CHOOSE i \in DOMAIN ops : ops[i] = op]

-----------------------------------------------------------------------------
(* How the loop is entered: the slots of its phis, its block's in-edges. *)
Orders == {"entry first", "loop first", "same twice", "two entries"}

Phi(order, entry, second, inner) ==
  CASE order = "entry first" -> <<entry, inner>>
    [] order = "loop first" -> <<inner, entry>>
    [] order = "same twice" -> <<entry, entry, inner>>
    [] order = "two entries" -> <<entry, second, inner>>

EdgesOf(order) ==
  [b \in {"pre", "head", "loop", "epilog", "far"} |->
     CASE b = "loop" -> (CASE order = "entry first" -> <<"pre", "loop">>
                           [] order = "loop first" -> <<"loop", "pre">>
                           [] OTHER -> <<"pre", "head", "loop">>)
       [] b = "epilog" -> <<"loop">> [] b = "far" -> <<"epilog">>
       [] b = "head" -> <<"pre", "far">> [] OTHER -> <<>>]

Common(order) ==
  ("phi_m" :> <<Phi(order, "mem", "mem", "m"), "m">>) @@ ("start" :> <<<<"k">>, "il">>)

Memcpy(order) ==
  Common(order) @@
  ("phi_a" :> <<Phi(order, "ia", "ia2", "pan"), "pa">>) @@
  ("phi_b" :> <<Phi(order, "ib", "ib2", "pbn"), "pb">>) @@
  ("phi_n" :> <<Phi(order, "in", "in2", "nn"), "n">>) @@
  ("vset" :> <<<<"n">>, "l">>) @@ ("ld" :> <<<<"pa">>, "v">>) @@
  ("neg" :> <<<<"l", "k">>, "ng">>) @@ ("dec" :> <<<<"n", "ng">>, "nn">>) @@
  ("inca" :> <<<<"pa", "l">>, "pan">>) @@ ("st" :> <<<<"v", "pb">>, "null">>) @@
  ("incb" :> <<<<"pb", "l">>, "pbn">>) @@ ("test" :> <<<<"nn", "k">>, "t">>) @@
  ("br" :> <<<<"t">>, "null">>)

(* The pointers are advanced by vl, as the last round left it, before the  *)
(* loads.                                                                  *)
Strlen(order) ==
  Common(order) @@
  ("phi_a" :> <<Phi(order, "ia", "ia2", "pan"), "pa">>) @@
  ("phi_l" :> <<Phi(order, "il", "il", "vl"), "la">>) @@
  ("vset" :> <<<<"k">>, "l">>) @@ ("inca" :> <<<<"pa", "la">>, "pan">>) @@
  ("ldff" :> <<<<"pan">>, "v">>) @@ ("seq" :> <<<<"v", "k">>, "c">>) @@
  ("first" :> <<<<"c">>, "x">>) @@ ("test" :> <<<<"x", "k">>, "t">>) @@
  ("br" :> <<<<"t">>, "null">>)

LenResult(end) ==
  ("ecast" :> <<<<"pan">>, "e">>) @@ ("end" :> <<<<"e", "x">>, end>>) @@
  ("sub" :> <<<<end, "ia">>, "r">>)

Strcmp(order) ==
  Common(order) @@
  ("phi_a" :> <<Phi(order, "ia", "ia2", "pan"), "pa">>) @@
  ("phi_b" :> <<Phi(order, "ib", "ib2", "pbn"), "pb">>) @@
  ("phi_l" :> <<Phi(order, "il", "il", "vl"), "la">>) @@
  ("vset" :> <<<<"k">>, "l">>) @@
  ("inca" :> <<<<"pa", "la">>, "pan">>) @@ ("incb" :> <<<<"pb", "la">>, "pbn">>) @@
  ("ld" :> <<<<"pan">>, "v">>) @@ ("ldff" :> <<<<"pbn">>, "v2">>) @@
  ("seq" :> <<<<"v", "k">>, "c">>) @@ ("sne" :> <<<<"v", "v2">>, "c2">>) @@
  ("mor" :> <<<<"c", "c2">>, "cm">>) @@ ("first" :> <<<<"cm">>, "x">>) @@
  ("test" :> <<<<"x", "k">>, "t">>) @@ ("br" :> <<<<"t">>, "null">>)

CmpResult(op, reads) ==
  ("adda" :> <<<<"pan", "x">>, "sa">>) @@ ("addb" :> <<<<"pbn", "x">>, "sb">>) @@
  ("lda" :> <<<<"sa">>, "xa">>) @@ ("ldb" :> <<<<"sb">>, "xb">>) @@ (op :> <<reads, "r">>)

(* Who reads the result. *)
Returned(vns) == "ret" :> <<<<"f">> \o vns, "null">>
Branched == ("branch" :> <<<<"r">>, "null">>) @@ Returned(<<"m">>)

(* Who else reads a Varnode of the loop: an op in front of it, behind it,  *)
(* or between the two, whose output is read behind it.                     *)
Leaks(vns) ==
  {"outer" :> <<<<"k", v>>, "o">> : v \in vns} \cup {"late" :> <<<<v>>, "w">> : v \in vns} \cup
  {("mid" :> <<<<v>>, "mo">>) @@ ("late" :> <<<<"mo">>, "w">>) : v \in vns}

NoLeak == "late" :> <<<<"k">>, "w">>

(* A reader of the reader: an op whose output nobody reads is purged. *)
Function(order, wrapped, target, parts) ==
  LET all == parts @@ ("ret" :> <<<<"f", "m">>, "null">>)
  IN [ins |-> [op \in McOp |-> IF op \in DOMAIN all THEN all[op][1] ELSE <<>>],
      out |-> [op \in McOp |-> IF op \in DOMAIN all THEN all[op][2] ELSE "null"],
      live |-> DOMAIN all, edges |-> EdgesOf(order), wrapped |-> wrapped, target |-> target]

F(order, parts) == Function(order, FALSE, 10, parts)

MemcpyLoops ==
  {Function(o, w, 10, leak @@ Memcpy(o)) :
     o \in Orders, w \in BOOLEAN, leak \in {NoLeak} \cup Leaks({"pan", "v", "t", "l"})}

(* Loops that are none of the three, lack an operand, or have a load that  *)
(* lacks its output.                                                       *)
OddLoops ==
  {F("entry first", extra @@ Memcpy("entry first")) :
     extra \in {"zext" :> <<<<"l">>, "z">>, "user" :> <<<<"l">>, "z">>, "vadd" :> <<<<"v", "v">>, "z">>,
                ("pcast" :> <<<<"pb">>, "pac">>) @@ ("st" :> <<<<"v", "pac">>, "null">>)}} \cup
  {F(o, ("pcast" :> <<<<"pa">>, "pac">>) @@ ("ld" :> <<<<"pac">>, "v">>) @@ Memcpy(o)) :
     o \in {"entry first", "loop first"}} \cup
  {F("entry first", ("ldff" :> <<<<"pa">>, "null">>) @@ Memcpy("entry first")),
   F("entry first", ("ldff" :> <<<<"pan">>, "null">>) @@ ("seq" :> <<<<"ib2", "k">>, "c">>)
                    @@ LenResult("s") @@ Returned(<<"r">>) @@ Strlen("entry first"))} \cup
  {F("entry first", ("pcast" :> <<<<"pan">>, "pac">>) @@ ("ldff" :> <<<<"pac">>, "v">>)
                    @@ LenResult("s") @@ Returned(<<"r">>) @@ Strlen("entry first"))} \cup
  {F("entry first", ("pcast" :> <<<<"pbn">>, "pac">>) @@ ("ldff" :> <<<<"pac">>, "v2">>)
       @@ CmpResult("eq", <<"xa", "xb">>) @@ Branched @@ Strcmp("entry first"))} \cup
  {Function("entry first", FALSE, 5, Memcpy("entry first"))}

StrlenLoops ==
  {F(o, LenResult(end) @@ use @@ leak @@ Strlen(o)) :
     o \in Orders, end \in {"u", "s"},
     use \in {Returned(<<>>), Returned(<<"r">>), Returned(<<"r", "r">>)},
     leak \in {<<>>} \cup Leaks({"pan", "v", "x"})} \cup
  {F("entry first", Returned(<<"x">>) @@ Strlen("entry first")),
   F("entry first", ("test" :> <<<<"ia", "k">>, "t">>) @@ LenResult("s") @@ Returned(<<"r">>)
                    @@ Strlen("entry first"))} \cup
  {F("two entries", LenResult("s") @@ Returned(<<"r">>)
       @@ ("phi_a" :> <<entries \o <<"pan">>, "pa">>) @@ Strlen("two entries")) :
     entries \in {<<"r", "ia">>, <<"ia", "r">>}}

Cmp(order, op, reads, use, leak) == F(order, CmpResult(op, reads) @@ use @@ leak @@ Strcmp(order))

(* A branch tests a truth value; a difference is returned. *)
StrcmpLoops ==
  LET orders == {"entry first", "loop first", "two entries"}
      leaks == {<<>>, "late" :> <<<<"pbn">>, "w">>, "outer" :> <<<<"k", "pan">>, "o">>,
                "late" :> <<<<"xa">>, "w">>}
  IN {Cmp(o, op, reads, Returned(<<"r">>), leak) :
        o \in orders, op \in {"sub", "plus"}, reads \in {<<"xa", "xb">>, <<"xb", "xa">>}, leak \in leaks}
     \cup
     {Cmp(o, op, <<"xa", "xb">>, use, leak) :
        o \in orders, op \in {"eq", "ne"}, leak \in leaks,
        use \in {Returned(<<"r">>), Branched, ("branch" :> <<<<"r">>, "null">>) @@ Returned(<<"r", "r">>)}}
     \cup {F("entry first", Returned(<<"x">>) @@ Strcmp("entry first"))}

McLoops == MemcpyLoops \cup OddLoops \cup StrlenLoops \cup StrcmpLoops
=============================================================================
