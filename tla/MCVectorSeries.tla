--------------------------- MODULE MCVectorSeries ---------------------------
(***************************************************************************)
(* Blocks of a vsetivli and up to four ops that load, store or use three   *)
(* vector registers at three addresses; with two bytes or more to a        *)
(* transfer, two of the addresses overlap.  Elements are of one byte or    *)
(* two, as the vsetivli says or not.                                       *)
(***************************************************************************)
EXTENDS VectorSeries

MCVecVn == {"v", "w", "u"}

Vseti(avl, size, mult) ==
  [kind |-> "vseti", avl |-> avl, elementSize |-> size, multiplier |-> mult]

Load(v, p, width) == [kind |-> "load", v |-> v, p |-> p, width |-> width]
Store(v, p, width) == [kind |-> "store", v |-> v, p |-> p, width |-> width]

FirstOps == {Vseti(2, 1, 1), Vseti(1, 2, 1), Vseti(1, 1, 2)}
OtherOps ==
  {Vseti(1, 1, 1), [kind |-> "vset", avl |-> 3, elementSize |-> 1, multiplier |-> 1],
   [kind |-> "other", v |-> "v", w |-> "u"]}
Loads ==
  {Load("v", 1, 1), Load("w", 2, 2), Load(NoVn, 1, 1),
   [kind |-> "imm", v |-> "w", x |-> 1, p |-> 0], [kind |-> "imm", v |-> "w", x |-> 0, p |-> 0]}
Stores ==
  {Store("v", 2, 1), Store("v", 4, 1), Store("w", 1, 1), Store("w", 1, 2), Store("u", 4, 1)}

Defines(op, v) ==
  \/ op.kind \in {"load", "imm"} /\ op.v = v
  \/ op.kind = "other" /\ op.w = v

(* Every register is written once at most and before it is read. *)
WellFormed(c) ==
  /\ \E i \in DOMAIN c : c[i].kind \in {"load", "imm"}
  /\ \A i, j \in DOMAIN c : \A v \in MCVecVn : Defines(c[i], v) /\ Defines(c[j], v) => i = j
  /\ \A i \in DOMAIN c : c[i].kind \in {"store", "other"} =>
       \E j \in 1..(i - 1) : Defines(c[j], c[i].v)

Tails == {t \in [1..4 -> OtherOps \cup Loads \cup Stores] : WellFormed(t)}

MCPrograms ==
  {[code |-> <<first>> \o tail, elsewhere |-> e] :
     first \in FirstOps, tail \in Tails, e \in {{}, {"v"}}}
=============================================================================
