-------------------------- MODULE MCBlockStructure --------------------------
(***************************************************************************)
(* Two loops and two other basic blocks in the structures that decide how  *)
(* a do..while is taken out: at either end or in the middle of a list, two *)
(* in a row, in a list that is looped itself, under a BlockIf, or directly *)
(* under the root.  Each comes with every goto a BlockIf or a BlockGoto    *)
(* next to it may have, and with every do..while that a BlockMultiGoto or  *)
(* a BlockSwitch may go to.                                                *)
(***************************************************************************)
EXTENDS BlockStructure, TLC

McBlock == {"root", "ls", "inner", "w1", "w2", "b1", "b2", "c1", "c2", "c3", "if", "goto", "multi", "switch", "outer"}

McKind ==
  [b \in McBlock |->
    CASE b = "root" -> "graph"
      [] b \in {"ls", "inner"} -> "list"
      [] b \in {"w1", "w2"} -> "dowhile"
      [] b = "outer" -> "whiledo"
      [] b = "multi" -> "multigoto"
      [] b \in {"if", "goto", "switch"} -> b
      [] OTHER -> "copy"]

Chain(s) == {<<s[i], s[i + 1]>> : i \in 1..(Len(s) - 1)}

(* The lists of one structure, and the edges between components of those   *)
(* blocks that are no lists.                                               *)
Shapes == <<
  [list |-> "root" :> <<"ls", "goto">> @@ "ls" :> <<"c1", "w1", "if">> @@ "if" :> <<"c2", "w2">>
     @@ "w1" :> <<"b1">> @@ "w2" :> <<"b2">> @@ "goto" :> <<"c3">>,
   more |-> {<<"c2", "w2">>}],
  [list |-> "root" :> <<"ls">> @@ "ls" :> <<"w1", "goto", "if">> @@ "if" :> <<"c1">>
     @@ "goto" :> <<"c2">> @@ "w1" :> <<"b1">>,
   more |-> {}],
  [list |-> "root" :> <<"ls">> @@ "ls" :> <<"if", "w1", "w2", "goto", "multi">>
     @@ "if" :> <<"c1">> @@ "goto" :> <<"c2">> @@ "w1" :> <<"b1">> @@ "w2" :> <<"b2">>,
   more |-> {}],
  [list |-> "root" :> <<"ls", "w2", "switch">> @@ "ls" :> <<"if", "w1">> @@ "if" :> <<"c1">>
     @@ "switch" :> <<"c3">> @@ "w1" :> <<"b1">> @@ "w2" :> <<"b2">>,
   more |-> {<<"ls", "w2">>, <<"w2", "switch">>}],
  [list |-> "root" :> <<"ls">> @@ "ls" :> <<"w2", "outer", "goto">> @@ "goto" :> <<"c2">>
     @@ "outer" :> <<"inner">> @@ "inner" :> <<"if", "w1">> @@ "if" :> <<"c1">>
     @@ "w1" :> <<"b1">> @@ "w2" :> <<"b2">>,
   more |-> {<<"w1", "if">>}]>>

Listed(h, g) == IF g \in DOMAIN h.list THEN h.list[g] ELSE <<>>
Used(h) == UNION {ToSet(h.list[g]) : g \in DOMAIN h.list}

Built(h, ifTo, gotoTo, multiTo) ==
  [kind |-> McKind,
   list |-> [g \in McBlock |-> Listed(h, g)],
   parent |-> [b \in McBlock |->
     IF b \in Used(h) THEN CHOOSE g \in DOMAIN h.list : b \in ToSet(h.list[g]) ELSE "none"],
   target |-> [b \in McBlock |->
     CASE b = "if" -> ifTo
       [] b = "goto" -> gotoTo
       [] b \in {"multi", "switch"} /\ b \in Used(h) -> multiTo
       [] OTHER -> "none"],
   edges |-> Chain(Listed(h, "ls")) \cup Chain(Listed(h, "inner")) \cup h.more
     \cup {<<b, b>> : b \in {"b1", "b2"} \cap Used(h)},
   loops |-> {"b1", "b2"} \cap Used(h)]

(* A goto leads to a structured block or to a basic block within it.       *)
Target(h) == (Used(h) \cap {"w1", "w2", "b1", "c1"}) \cup {"none"}

MultiTarget(h) ==
  IF Used(h) \cap {"multi", "switch"} = {} THEN {"none"} ELSE {"c1", "w1", "w2"}

(* A shape, and the targets of the BlockIf, of the BlockGoto, and of the   *)
(* BlockMultiGoto or BlockSwitch                                           *)
McJobs ==
  UNION {{n} \X Target(Shapes[n]) \X Target(Shapes[n]) \X MultiTarget(Shapes[n]) : n \in DOMAIN Shapes}
McGiven == [j \in McJobs |-> Built(Shapes[j[1]], j[2], j[3], j[4])]
=============================================================================
