------------------------- MODULE MCFunctionEditor -------------------------
(***************************************************************************)
(* A vectorised loop with its entry, a second entry and the block after    *)
(* it.  Fixed part: the loop's pointer phi, load, pointer update and a     *)
(* scalar copy to a global (all deleted), the builtin call inserted for    *)
(* them, a value computed before the loop that only the loop reads, and a  *)
(* chain of two ops behind the loop nobody reads.  Enumerated: the order   *)
(* and number of the loop's in-edges, a phi of the loop block the loop     *)
(* does not change, a phi, a call and another op after the loop that read  *)
(* Varnodes of the loop or of the entry.                                   *)
(***************************************************************************)
EXTENDS FunctionEditor

MCOp == {"init", "ptr", "load", "next", "copy", "call",
         "keep", "join", "fcall", "use", "epi1", "epi2"}
MCVn == {"n0", "p", "v", "p2", "g", "k", "j", "e1", "e2",
         "a", "b", "gin", "target", "const"}
MCInputVn == {"a", "b", "gin"}
MCPoolVn == {"target", "const"}
MCRegisterVn == {"n0", "p", "v", "p2", "k", "j", "e1", "e2", "a", "b"}
MCBlock == {"entry", "entry2", "loop", "after"}

MCCode == [op \in MCOp |->
  CASE op \in {"ptr", "keep", "join"} -> "MULTIEQUAL"
    [] op = "fcall" -> "CALL"
    [] OTHER -> "OTHER"]

MCHome == [op \in MCOp |->
  CASE op = "init" -> "entry"
    [] op \in {"ptr", "load", "next", "copy", "call", "keep"} -> "loop"
    [] OTHER -> "after"]

Sources == {"v", "g", "a"}

(* The alternatives, listed so that a job is a number. *)
Entries == <<<<"loop", "entry">>, <<"entry", "loop">>, <<"loop", "entry", "entry2">>>>
KeepIns == <<<<"k", "a">>, <<"k", "gin">>, <<"g", "gin">>>>
JoinPhis ==
  <<<<"v", "v">>, <<"v", "g">>, <<"v", "a">>, <<"g", "v">>, <<"g", "a">>, <<"a", "v">>,
    <<"a", "g">>, <<"a", "b">>, <<"a", "v", "v">>, <<"v", "a", "b">>, <<"g", "v", "a">>>>
Reads2 == <<"v", "a">>

(* One Varnode per in-edge: x from the loop, y from the entry, z from the  *)
(* second entry.                                                           *)
PhiOf(entries, x, y, z) ==
  [i \in DOMAIN entries |->
    CASE entries[i] = "loop" -> x
      [] entries[i] = "entry" -> y
      [] OTHER -> z]

JoinEdges(join) == IF Len(join) = 2 THEN <<"loop", "entry">>
                                    ELSE <<"entry", "entry2", "loop">>

FunctionOf(entries, keep, join, read, wrapped) ==
  [ins |-> [op \in MCOp |->
     CASE op = "init" -> <<"a", "const">>
       [] op = "ptr" -> PhiOf(entries, "p2", "n0", "a")
       [] op = "load" -> <<"const", "p">>
       [] op = "next" -> <<"p", "const">>
       [] op = "copy" -> <<"v">>
       [] op = "call" -> <<"const", "n0", "a">>
       [] op = "keep" -> PhiOf(entries, keep[1], keep[2], "b")
       [] op = "join" -> join
       [] op = "fcall" -> <<"target", read, "b", "const">>
       [] op = "use" -> <<read, "k", "j">>
       [] op = "epi1" -> <<"b">>
       [] op = "epi2" -> <<"e1">>],
   out |-> [op \in MCOp |->
     CASE op = "init" -> "n0" [] op = "ptr" -> "p" [] op = "load" -> "v"
       [] op = "next" -> "p2" [] op = "copy" -> "g" [] op = "keep" -> "k"
       [] op = "join" -> "j" [] op = "epi1" -> "e1" [] op = "epi2" -> "e2"
       [] OTHER -> NoVn],
   live |-> MCOp,
   edges |-> [b \in MCBlock |->
     CASE b = "loop" -> entries [] b = "after" -> JoinEdges(join) [] OTHER -> <<>>],
   del |-> {"ptr", "load", "next", "copy"},
   epilog |-> <<"after">>,
   related |-> <<"entry">>,
   wrapped |-> wrapped]

MCJobs == 1..(3 * 3 * 11 * 2 * 2)

(* The i-th alternative of a list, i counted modulo its length. *)
Pick(list, i) == list[1 + (i % Len(list))]

MCGiven == [n \in MCJobs |->
  FunctionOf(Pick(Entries, n \div 132), Pick(KeepIns, n \div 44),
             Pick(JoinPhis, n \div 4), Pick(Reads2, n \div 2), n % 2 = 1)]
=============================================================================
