----------------------------- MODULE VectorLoop -----------------------------
(***************************************************************************)
(* What VectorLoop (vector_ops.cc) and VectorMatcher (vector_matcher.cc,   *)
(* vector_stdlib.cc) find out about a loop that begins with a vsetvli: its *)
(* phi nodes and what enters them from outside, its ops by kind, its       *)
(* pointers and counters, and whether it looks like a memcpy, strlen or    *)
(* strcmp.  The analysis changes nothing: every definition is an operator  *)
(* on a function g, a record [ins, out, live, target].                     *)
(*                                                                         *)
(* The first input of a user pcode, its id, is left out of ins: a load     *)
(* reads <<address>>, a store <<vector, address>>, a vset <<elements>>.    *)
(***************************************************************************)
EXTENDS Pcode, FiniteSets

CONSTANTS
  LoopBlock,  \* the block of the vsetvli
  home,       \* basic block of each op
  LoopOrder,  \* the ops that may be in the loop block, in order
  kind,       \* what each op is
  addr,       \* address of each op
  FirstAddr,  \* first and last address of the loop block
  LastAddr,
  RegisterVn, \* Varnodes of the register space
  MemoryVn,   \* Varnodes of the ram and stack spaces
  CsrVn,      \* Varnodes of the csreg space
  VlVn,       \* the vl register among them
  reg,        \* offset of each Varnode in its space
  MaxDepth,   \* MAX_DEPENDENCY_DEPTH
  SearchDepth \* EPILOG_SEARCH_DEPTH

(* The handlers of VectorLoop::static_init, and the opcodes                *)
(* examine_loop_pcodeops knows.                                            *)
LoadKinds == {"load", "loadff"}
VectorKinds == LoadKinds \cup {"vset", "store", "vcompare", "vlogical"}
TestKinds == {"equal", "notequal", "less"}
ArithmeticKinds == {"add", "sub", "mult"}
ScalarKinds == TestKinds \cup ArithmeticKinds \cup {"cbranch", "negate", "copy", "sload"}
Kinds == VectorKinds \cup ScalarKinds \cup
         {"phi", "cast", "vother", "user", "branch", "call", "other"}

Space(v) ==
  CASE v \in MemoryVn -> "memory" [] v \in CsrVn -> "csreg"
    [] v \in RegisterVn -> "register" [] OTHER -> "unique"

ASSUME LoopAssumption ==
  /\ LoopOrder \in Seq(Op) /\ home[LoopOrder[1]] = LoopBlock
  /\ kind \in [Op -> Kinds]
  /\ addr \in [Op -> Nat] /\ {FirstAddr, LastAddr, MaxDepth, SearchDepth} \subseteq Nat
  /\ VlVn \subseteq CsrVn /\ CsrVn \subseteq Vn
  /\ IsFiniteSet(Vn) /\ \A v \in Vn : v \in DOMAIN reg

(* The ops of the block of some kinds, in order. *)
Ops(g, kinds) == SelectSeq(LoopOrder, LAMBDA op : op \in g.live /\ kind[op] \in kinds)

LoopOps(g) == {op \in ToSet(LoopOrder) : op \in g.live /\ kind[op] # "phi"}

InAddresses(op) == addr[op] \in FirstAddr..LastAddr

(* isDefinedInLoop: vl is taken to be, other control registers are not. *)
DefinedInLoop(g, v) ==
  IF v \in CsrVn THEN v \in VlVn
  ELSE \E op \in g.live : g.out[op] = v /\ home[op] = LoopBlock /\ InAddresses(op)

(* examine_control_flow, and what examine_loop_pcodeops vetoes *)
LoopFound(g) ==
  LET all == Ops(g, Kinds)
  IN kind[Last(all)] = "cbranch" /\ g.target = FirstAddr

Simple(g) == LoopFound(g) /\ Ops(g, {"branch", "call"}) = <<>>

-----------------------------------------------------------------------------
(* collect_phi_nodes *)

PhisAffected(g) ==
  {phi \in ToSet(LoopOrder) :
     /\ phi \in g.live /\ kind[phi] = "phi"
     /\ g.out[phi] \notin MemoryVn
     /\ \E v \in Reads(g.ins, phi) : v # g.out[phi] /\ DefinedInLoop(g, v)}

(* Mutant: Varnodes the loop defines are not left out. *)
EntrySlotsAll(g, phi) == DOMAIN g.ins[phi]

(* registerPhiMapping: what flows into a register's phi from outside, ... *)
EntrySlots(g, phi) == {i \in DOMAIN g.ins[phi] : ~DefinedInLoop(g, g.ins[phi][i])}

(* ... by its last phi if there are several. *)
PhisOf(g, r) ==
  LET phis == {p \in PhisAffected(g) : Space(g.out[p]) = "register" /\ reg[g.out[p]] = r}
      Place(p) == CHOOSE i \in DOMAIN LoopOrder : LoopOrder[i] = p
  IN {p \in phis : \A q \in phis : Place(q) <= Place(p)}

(* pExternal and numElements: the first of them, for the register of v,    *)
(* a null pointer if there is none.                                        *)
EntryValue(g, v) ==
  LET phis == {p \in PhisOf(g, reg[v]) : EntrySlots(g, p) # {}}
      phi == CHOOSE p \in phis : TRUE
  IN IF phis = {} THEN NoVn ELSE g.ins[phi][Min(EntrySlots(g, phi))]

-----------------------------------------------------------------------------
(* collect_common_elements *)

Loads(g) == Ops(g, LoadKinds)
Stores(g) == Ops(g, {"store"})
Tests(g) == Ops(g, TestKinds)

(* The output of each load is dereferenced: Ghidra may have lost it.       *)
LoadsWrite(g) == \A op \in ToSet(Loads(g)) : g.out[op] # NoVn

PointerOf(g, op) == IF kind[op] = "store" THEN g.ins[op][2] ELSE g.ins[op][1]

NumElements(g) == EntryValue(g, g.ins[Last(Ops(g, {"vset"}))][1])

(* The Varnode the last comparison tests, of those that test what an op    *)
(* writes.                                                                 *)
Comparison(g) ==
  LET Tested(i) == g.ins[LoopOrder[i]][1]
      places == {i \in DOMAIN LoopOrder : /\ LoopOrder[i] \in g.live
                                         /\ kind[LoopOrder[i]] \in TestKinds
                                         /\ Written(g.out, Tested(i))}
  IN IF places = {} THEN NoVn ELSE Tested(Max(places))

LoopLocalVns(g) ==
  ( {g.out[op] : op \in ToSet(Ops(g, ArithmeticKinds \cup {"vset"}))}
    \cup {PointerOf(g, op) : op \in ToSet(Loads(g) \o Stores(g))}
    \cup (IF Len(Tests(g)) = 1 THEN {g.ins[Tests(g)[1]][1]} ELSE {}) ) \ {NoVn}

(* Mutant: readers in front of the loop are not looked at. *)
UnresolvedBehindOnly(g, op) ==
  \E v \in LoopLocalVns(g) : \E r \in Readers(g.ins, v) : addr[r] > addr[op]

(* unresolvedDependencies: a reader of a loop-local Varnode lies neither   *)
(* in the loop nor between it and op.                                      *)
Unresolved(g, op) ==
  \E v \in LoopLocalVns(g) :
    \E r \in Readers(g.ins, v) : addr[r] \notin FirstAddr..addr[op]

-----------------------------------------------------------------------------
(* VectorMatcher *)

(* collect_loop_registers: ops reached from the affected phis, without     *)
(* going beyond the first op outside of the loop.                          *)
Reached(g) ==
  LET Step[i \in 0..Len(LoopOrder)] ==
        PhisAffected(g) \cup
        IF i = 0 THEN {}
        ELSE UNION {Readers(g.ins, g.out[op]) : op \in {o \in Step[i-1] : InAddresses(o)}}
  IN Step[Len(LoopOrder)]

(* With one load and one store, these are the registers of the two; both   *)
(* are missing if neither is reached.                                      *)
RegistersMatch(g) ==
  {g.out[op] : op \in ToSet(Loads(g)) \cap Reached(g)} =
  {g.ins[op][1] : op \in ToSet(Stores(g)) \cap Reached(g)}

NothingElse(g) == Ops(g, {"vother", "user", "other"}) = <<>>
FaultOnlyFirst(g) == Ops(g, {"loadff"}) # <<>>
NumVector(g) == Len(Ops(g, VectorKinds))
NumScalar(g) == Len(Ops(g, ScalarKinds))

IsMemcpy(g) ==
  /\ ~FaultOnlyFirst(g) /\ Simple(g) /\ NothingElse(g)
  /\ NumVector(g) = 3 /\ NumScalar(g) >= 5
  /\ RegistersMatch(g)

IsStrlen(g) ==
  /\ FaultOnlyFirst(g) /\ Simple(g) /\ NothingElse(g)
  /\ NumVector(g) = 4 /\ NumScalar(g) = 3
  /\ Len(Loads(g)) = 1

IsStrcmp(g) ==
  /\ FaultOnlyFirst(g) /\ Simple(g) /\ NothingElse(g)
  /\ NumVector(g) = 7 /\ NumScalar(g) = 4
  /\ Len(Ops(g, {"vlogical"})) = 2 /\ Len(Ops(g, {"vcompare"})) = 2
  /\ Len(Loads(g)) = 2

-----------------------------------------------------------------------------
(* VectorEpilogProcessor *)

(* All that depends on root.  EpilogResult shows that collectDependencies  *)
(* finds this set unless it is cut off.                                    *)
Dependents(g, root, stops) ==
  LET Step[i \in 0..Cardinality(Vn)] ==
        IF i = 0 THEN {}
        ELSE {g.out[op] : op \in UNION {Readers(g.ins, v) : v \in Step[i-1] \cup {root}}}
             \ (stops \cup {NoVn})
  IN Step[Cardinality(Vn)]

(* The search may be cut off, and miss some dependents. *)
CutOff(dependents) == Cardinality(dependents) >= MaxDepth

DefAddr(g, v) == {addr[op] : op \in {o \in g.live : g.out[o] = v}}

InEpilog(g, v) ==
  /\ ~DefinedInLoop(g, v)
  /\ DefAddr(g, v) # {}
  /\ DefAddr(g, v) \subseteq LastAddr..(LastAddr + SearchDepth)
=============================================================================
