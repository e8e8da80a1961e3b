--------------------------- MODULE MCCsrHeritage ---------------------------
(***************************************************************************)
(* Functions with a copy, a phi and an indirect of the vl register, a copy *)
(* of the vtype register, an op of another kind that may write one of the  *)
(* two, vset ops and readers.  vl is an input from the start, vtype is not *)
(* and has two Varnodes that may be read.                                  *)
(***************************************************************************)
EXTENDS CsrHeritage

MCOp == {"copy", "phi", "indirect", "write", "vtcopy", "gcopy", "vset1", "vset2", "read1", "read2"}
MCVn == {"vl0", "vl1", "vl2", "vl3", "vlin", "vt0", "vt1", "a", "b", "g"}
MCCsrVn == {"vl0", "vl1", "vl2", "vl3", "vlin", "vt0", "vt1"}
MCInputVn == {"a", "vlin"}
MCReg == [v \in MCCsrVn |-> IF v \in {"vt0", "vt1"} THEN "vtype" ELSE "vl"]

MCOpcode == [op \in MCOp |->
  CASE op \in {"copy", "vtcopy", "gcopy"} -> "COPY" [] op = "phi" -> "MULTIEQUAL"
    [] op = "indirect" -> "INDIRECT" [] OTHER -> "OTHER"]

FunctionOf(w, r1, r2, present) ==
  [ins |-> [op \in MCOp |->
     IF op \notin present THEN <<>>
     ELSE CASE op = "copy" -> <<"a">> [] op = "phi" -> <<"vl0", "vl2">>
            [] op = "indirect" -> <<"vl1">> [] op = "gcopy" -> <<"vl1">>
            [] op = "read1" -> r1 [] op = "read2" -> r2 [] op = "vset2" -> <<"b">>
            [] OTHER -> <<"a">>],
   out |-> [op \in MCOp |->
     IF op \notin present THEN NoVn
     ELSE CASE op = "copy" -> "vl0" [] op = "phi" -> "vl1" [] op = "indirect" -> "vl2"
            [] op = "write" -> w [] op = "vtcopy" -> "vt0" [] op = "gcopy" -> "g"
            [] op = "vset1" -> "b" [] OTHER -> NoVn],
   live |-> present]

MCFunc ==
  {FunctionOf(w, r1, r2, present) :
     w \in {NoVn, "vl3", "vt1"},
     r1 \in {<<"a", "vl2", "vt0">>, <<"vt0", "g", "vt1">>},
     r2 \in {<<"vl3", "g">>, <<"g", "vl1">>},
     present \in {MCOp, MCOp \ {"vset2", "write"}}}
=============================================================================
