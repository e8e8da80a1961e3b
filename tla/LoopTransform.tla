--------------------------- MODULE LoopTransform ---------------------------
(***************************************************************************)
(* One loop from RuleVectorTransform::applyOp to the end: the matchers are *)
(* tried in order, the transform of the first that fits looks for its      *)
(* result, may still roll back, then inserts a call, redirects the readers *)
(* of the result, and hands the loop's ops to FunctionEditor.              *)
(***************************************************************************)
EXTENDS VectorLoop

CONSTANTS
  Loops,    \* the functions considered
  Block,    \* basic blocks
  NoOp,
  CallOp,   \* newVectorOp
  InvertOp, \* invertResultOp, strcmp only
  CallVn,   \* what they write
  InvertVn,
  heap,     \* address of each op in the decompiler's memory
  Limit     \* TRANSFORM_LIMIT_LOOPS

VARIABLES
  job,      \* <<the function, the transform, the result Varnode>>
  count,    \* transformCountLoop
  ins, out, live, edges, review, fixed, todo, blocks, cur, slot, pc

g == job[1]  \* the function as applyOp found it
transform == job[2]
result == job[3]
graph == <<ins, out, live>>
editing == <<edges, review, fixed, todo, blocks, cur, slot>>
vars == <<job, count, ins, out, live, edges, review, fixed, todo, blocks, cur, slot, pc>>

New == {CallOp, InvertOp}

ASSUME TransformAssumption ==
  /\ LoopBlock \in Block /\ NoOp \notin Op
  /\ home \in [Op -> Block]
  /\ RegisterVn \subseteq Vn /\ RegisterVn \cap PoolVn = {}
  /\ New \subseteq Op \ ToSet(LoopOrder) /\ CallOp # InvertOp
  /\ {CallVn, InvertVn} \subseteq Vn \ (InputVn \cup PoolVn) /\ CallVn # InvertVn
  /\ \A op \in New : home[op] = LoopBlock
  /\ heap \in [Op -> Nat] /\ IsInjective(heap)
  /\ Limit \in Nat
  /\ \A f \in Loops :
       /\ f.ins \in InputSeqs /\ f.out \in Outputs /\ f.live \subseteq Op
       /\ f.edges \in [Block -> Seq(Block)] /\ f.wrapped \in BOOLEAN
       /\ New \cap f.live = {}
       /\ \A op \in Op : {CallVn, InvertVn} \cap (Reads(f.ins, op) \cup {f.out[op]}) = {}

(* Along the in-edges other than the loop's own, what flows into the phis  *)
(* of a register.                                                          *)
FlowsIn(f, r) ==
  UNION {{f.ins[phi][i] : i \in {j \in DOMAIN f.ins[phi] : f.edges[LoopBlock][j] # LoopBlock}} :
         phi \in {p \in f.live : /\ kind[p] = "phi" /\ home[p] = LoopBlock
                                 /\ Space(f.out[p]) = "register" /\ reg[f.out[p]] = r}}

(* What Ghidra guarantees of the ops of a function.  Phis write something, *)
(* loads read an address, branches test a truth value; the loop block      *)
(* holds the ops at its addresses and no others, and its phis have a slot  *)
(* for each in-edge.  A definition in the loop does not reach the loop by  *)
(* every other way in.  Of the control registers the loop writes vl only:  *)
(* RuleCsrRemoveHeritage, which has run before, leaves no phis of the      *)
(* others.                                                                 *)
ASSUME PcodeAssumption ==
  /\ \A op \in ToSet(LoopOrder) : home[op] = LoopBlock /\ InAddresses(op)
  /\ \A op \in New : kind[op] # "phi"
  /\ \A f \in Loops :
       /\ \A op \in f.live : kind[op] = "phi" => f.out[op] # NoVn
       /\ \A i \in 1..Len(Loads(f)) : PointerOf(f, Loads(f)[i]) \in Vn
       /\ \A op, def \in f.live :
            kind[op] = "cbranch" /\ f.out[def] \in Reads(f.ins, op) =>
              kind[def] \notin ArithmeticKinds
       /\ \A op \in f.live : addr[op] \in FirstAddr..(LastAddr - 1) => op \in ToSet(LoopOrder)
       /\ \A op \in f.live : home[op] = LoopBlock => op \in ToSet(LoopOrder)
       /\ \A op \in f.live \cap ToSet(LoopOrder) : f.out[op] \in CsrVn => f.out[op] \in VlVn
       /\ \A op \in f.live :
            kind[op] = "phi" /\ home[op] = LoopBlock => Len(f.ins[op]) = Len(f.edges[LoopBlock])
       /\ \A i, j \in DOMAIN f.edges[LoopBlock] :
            f.edges[LoopBlock][i] = LoopBlock /\ f.edges[LoopBlock][j] = LoopBlock => i = j
       /\ \A v \in Vn : \A w \in FlowsIn(f, reg[v]) :
            FlowsIn(f, reg[v]) = {w} /\ w \notin CsrVn => ~DefinedInLoop(f, w)

-----------------------------------------------------------------------------
(* What a transform looks for. *)

(* applyOp tries the matchers in this order. *)
Match(f) ==
  IF IsMemcpy(f) THEN "memcpy" ELSE IF IsStrlen(f) THEN "strlen"
  ELSE IF IsStrcmp(f) THEN "strcmp" ELSE "none"

Operand(f, accesses, i) ==
  IF i \in DOMAIN accesses THEN EntryValue(f, PointerOf(f, accesses[i])) ELSE NoVn

(* The arguments of the call, a null pointer among them as NoVn. *)
Operands(f, t) ==
  CASE t = "memcpy" -> <<Operand(f, Stores(f), 1), Operand(f, Loads(f), 1), NumElements(f)>>
    [] t = "strlen" -> <<Operand(f, Loads(f), 1)>>
    [] t = "strcmp" -> <<Operand(f, Loads(f), 1), Operand(f, Loads(f), 2)>>

(* What depends on each of the two Varnodes the search begins with. *)
Found(f, t) ==
  LET pointer == PointerOf(f, Loads(f)[1])
  IN IF t = "strlen"
     THEN <<Dependents(f, pointer, {}), Dependents(f, Comparison(f), {})>>
     ELSE <<Dependents(f, pointer, {Comparison(f)}),
            Dependents(f, PointerOf(f, Loads(f)[2]), {Comparison(f)})>>

Candidates(f, t) ==
  {v \in Vn \cap Found(f, t)[1] \cap Found(f, t)[2] :
     InEpilog(f, v) /\ (t = "strlen" => Space(v) = "register")}

Def(f, v) == CHOOSE op \in f.live : f.out[op] = v

ComparisonKinds == {"sub", "equal", "notequal"}

(* What makes a transform roll back once it knows its result. *)
Vetoed(f, t, r) ==
  \/ t = "strlen" /\ Operands(f, t)[1] = NoVn
  \/ t = "strcmp" /\ kind[Def(f, r)] \notin ComparisonKinds
  \/ Unresolved(f, IF t = "memcpy" THEN Last(Ops(f, {"cbranch"})) ELSE Def(f, r))

-----------------------------------------------------------------------------
(* What a transform does before it calls simplifyBlocks. *)

(* Mutant: comparisonInverted is not looked at. *)
AnswerForPlain(f, t, r, op) ==
  IF t = "strcmp" /\ kind[op] = "cbranch" THEN InvertVn ELSE CallVn

(* What a reader of the result gets in its place. *)
AnswerFor(f, t, r, op) ==
  IF t = "strcmp" /\ kind[op] = "cbranch" /\ kind[Def(f, r)] # "notequal"
  THEN InvertVn ELSE CallVn

(* Mutant: the walk over the slots ends at the first one replaced. *)
RedirectedOnce(f, t, r, op, reads) ==
  IF \E i \in DOMAIN reads : reads[i] = r
  THEN [reads EXCEPT ![CHOOSE i \in DOMAIN reads : reads[i] = r] = AnswerFor(f, t, r, op)]
  ELSE reads

Redirected(f, t, r, op, reads) ==
  [i \in DOMAIN reads |-> IF r # NoVn /\ reads[i] = r THEN AnswerFor(f, t, r, op) ELSE reads[i]]

(* The new ops are linked before the readers of the result are collected:  *)
(* a call that reads the result itself is redirected too.                  *)
Linked(f, t, op) ==
  CASE op = CallOp -> Operands(f, t)
    [] op = InvertOp -> IF t = "strcmp" THEN <<CallVn>> ELSE <<>>
    [] OTHER -> f.ins[op]

(* Mutant: the call writes the result Varnode, which still has a writer. *)
WrittenReusing(f, t, r, op) ==
  CASE op = CallOp -> r
    [] op = InvertOp -> IF t = "strcmp" THEN InvertVn ELSE NoVn
    [] OTHER -> f.out[op]

WrittenBy(f, t, r, op) ==
  CASE op = CallOp -> IF t = "memcpy" THEN NoVn ELSE CallVn
    [] op = InvertOp -> IF t = "strcmp" THEN InvertVn ELSE NoVn
    [] OTHER -> f.out[op]

(* opsToDelete *)
Deleted(f, r) ==
  LoopOps(f) \cup PhisAffected(f) \cup (IF r = NoVn THEN {} ELSE {Def(f, r)})

(* The call of simplifyBlocks. *)
HandedOver(f, t, r) ==
  [ins |-> [op \in Op |-> Redirected(f, t, r, op, Linked(f, t, op))],
   out |-> [op \in Op |-> WrittenBy(f, t, r, op)],
   live |-> f.live \cup (IF t = "strcmp" THEN New ELSE {CallOp}),
   edges |-> f.edges,
   del |-> Deleted(f, r),
   epilog |-> IF r = NoVn THEN <<>> ELSE <<home[Def(f, r)]>>,
   related |-> RemoveFirst(f.edges[LoopBlock], LoopBlock),
   wrapped |-> f.wrapped]

(* The transforms that come that far. *)
Edits ==
  {e \in Loops \X {"memcpy", "strlen", "strcmp"} \X (Vn \cup {NoVn}) :
     /\ LoadsWrite(e[1]) /\ e[2] = Match(e[1])
     /\ e[3] \in IF e[2] = "memcpy" THEN {NoVn} ELSE Candidates(e[1], e[2])
     /\ ~Vetoed(e[1], e[2], e[3])
     /\ NoVn \notin ToSet(Operands(e[1], e[2]))}

Handover == [e \in Edits |-> HandedOver(e[1], e[2], e[3])]

EditorCode ==
  [op \in Op |-> CASE kind[op] = "phi" -> "MULTIEQUAL" [] kind[op] = "call" -> "CALL"
                   [] OTHER -> "OTHER"]

Editor == INSTANCE FunctionEditor WITH Jobs <- Edits, Given <- Handover, code <- EditorCode

(* As applyOp finds it, a function is in SSA form and its reads are defined. *)
ASSUME LoopsAssumption ==
  \A f \in Loops : Editor!WellFormed([ins |-> f.ins, out |-> f.out, live |-> f.live, del |-> {}])

-----------------------------------------------------------------------------
Init ==
  /\ \E f \in Loops : job = <<f, "none", NoVn>>
  /\ count \in 0..Limit
  /\ ins = g.ins /\ out = g.out /\ live = g.live /\ edges = g.edges
  /\ review = {} /\ fixed = {} /\ todo = {} /\ blocks = <<>>
  /\ cur = NoOp /\ slot = 1
  /\ pc = "match"

(* The loop is analysed before anything is asked of it: match and limit    *)
(* are not reached if a load has no output.                                *)
NullLoad ==
  /\ pc = "match"
  /\ ~LoadsWrite(g)
  /\ pc' = "null_operand"
  /\ UNCHANGED <<job, count, graph, editing>>

NoMatch ==
  /\ pc = "match"
  /\ LoadsWrite(g)
  /\ Match(g) = "none"
  /\ pc' = "unmatched"
  /\ UNCHANGED <<job, count, graph, editing>>

LimitReached ==
  /\ pc = "match"
  /\ LoadsWrite(g)
  /\ count >= Limit
  /\ Match(g) # "none"
  /\ pc' = "unmatched"
  /\ UNCHANGED <<job, count, graph, editing>>

(* Mutant: the limit is not looked at. *)
StartAnyway ==
  /\ pc = "match"
  /\ LoadsWrite(g)
  /\ LET t == Match(g)
     IN /\ t # "none"
        /\ job' = <<job[1], t, NoVn>>
        /\ pc' = IF t = "memcpy" THEN "check" ELSE "result"
  /\ count' = count + 1
  /\ UNCHANGED <<graph, editing>>

(* The transform is counted before it is known whether it rolls back. *)
Start ==
  /\ pc = "match"
  /\ LoadsWrite(g)
  /\ count < Limit
  /\ LET t == Match(g)
     IN /\ t # "none"
        /\ job' = <<job[1], t, NoVn>>
        /\ pc' = IF t = "memcpy" THEN "check" ELSE "result"
  /\ count' = count + 1
  /\ UNCHANGED <<graph, editing>>

(* The candidates come in the order of their heap addresses. *)
ChooseResult ==
  /\ pc = "result"
  /\ \E r \in Candidates(g, transform) : job' = <<job[1], transform, r>>
  /\ pc' = "check"
  /\ UNCHANGED <<count, graph, editing>>

(* There is none: among them the case that the test of a strlen loop is    *)
(* not on a Varnode that an op writes, since nothing depends on NoVn.      *)
NoResult ==
  /\ pc = "result"
  /\ Candidates(g, transform) = {} \/ \E i \in 1..2 : CutOff(Found(g, transform)[i])
  /\ pc' = "rolled_back"
  /\ UNCHANGED <<job, count, graph, editing>>

RollBack ==
  /\ pc = "check"
  /\ Vetoed(g, transform, result)
  /\ pc' = "rolled_back"
  /\ UNCHANGED <<job, count, graph, editing>>

(* memcpy and strcmp do not look whether their operands were found. *)
NullOperand ==
  /\ pc = "check"
  /\ ~Vetoed(g, transform, result)
  /\ NoVn \in ToSet(Operands(g, transform))
  /\ pc' = "null_operand"
  /\ UNCHANGED <<job, count, graph, editing>>

(* The point of no return: from here simplifyBlocks runs. *)
Commit ==
  /\ pc = "check"
  /\ ~Vetoed(g, transform, result)
  /\ NoVn \notin ToSet(Operands(g, transform))
  /\ LET f == HandedOver(g, transform, result)
     IN /\ ins' = f.ins /\ out' = f.out /\ live' = f.live /\ edges' = f.edges
        /\ todo' = f.del
        /\ blocks' = f.epilog \o <<LoopBlock>> \o f.related
  /\ pc' = "delete"
  /\ UNCHANGED <<job, count, review, fixed, cur, slot>>

(* The sets are iterated in the order of the ops' heap addresses. *)
InHeapOrder == \A op \in todo \ todo', rest \in todo \cap todo' : heap[op] < heap[rest]

Simplify == Editor!Next /\ InHeapOrder /\ UNCHANGED count

Next ==
  \/ NullLoad \/ NoMatch \/ LimitReached \/ Start
  \/ ChooseResult \/ NoResult \/ RollBack \/ NullOperand \/ Commit
  \/ Simplify

Spec == Init /\ [][Next]_vars
-----------------------------------------------------------------------------
(* Properties. *)

Ends == {"done", "aborted", "unmatched", "rolled_back", "null_operand"}

TypeOK ==
  /\ transform \in {"none", "memcpy", "strlen", "strcmp"}
  /\ result \in Vn \cup {NoVn}
  /\ count \in 0..Limit
  /\ ins \in InputSeqs /\ out \in Outputs
  /\ live \subseteq Op /\ review \subseteq Op /\ fixed \subseteq Op /\ todo \subseteq Op
  /\ edges \in [Block -> Seq(Block)] /\ blocks \in Seq(Block)
  /\ cur \in Op \cup {NoOp}
  /\ slot \in Nat \ {0}
  /\ pc \in {"match", "result", "check"} \cup Ends \cup Editor!PCs

(* simplifyBlocks gets what it relies on: a function in SSA form in which  *)
(* every read is defined, the call and its inverse included, and a list of *)
(* ops that are all linked.                                                *)
HandoverValid ==
  pc = "delete" /\ todo = Deleted(g, result) =>
    Editor!WellFormed([ins |-> ins, out |-> out, live |-> live, del |-> todo])

(* The transform as a whole: see LoopReplacement.  What is kept is kept    *)
(* untouched, whatever made the transform give up; what is replaced loses  *)
(* the loop, and nothing else that anyone reads.                           *)
AsGiven(f) == [ins |-> f.ins, out |-> f.out, live |-> f.live]

Shown == IF pc = "done" THEN AsGiven([ins |-> ins, out |-> out, live |-> live]) ELSE AsGiven(g)

Status ==
  CASE pc \in {"unmatched", "rolled_back"} -> "kept"
    [] pc \in {"null_operand", "aborted"} -> "stopped"
    [] pc = "done" -> "replaced"
    [] OTHER -> "open"

Replacement ==
  INSTANCE LoopReplacement WITH
    Functions <- {AsGiven(f) : f \in Loops},
    LoopOp <- {op \in ToSet(LoopOrder) : kind[op] # "phi"},
    LoopPhi <- {op \in ToSet(LoopOrder) : kind[op] = "phi"},
    NewOp <- New,
    NewVn <- {CallVn, InvertVn},
    Phi <- {op \in Op : kind[op] = "phi"},
    Call <- {op \in Op : kind[op] = "call"},
    shown <- Shown,
    status <- Status,
    answer <- IF pc = "done" THEN result ELSE NoVn

ImplementsReplacement == Replacement!Spec

Counted ==
  CASE transform = "memcpy" ->
         <<PointerOf(g, Stores(g)[1]), PointerOf(g, Loads(g)[1]), g.ins[Last(Ops(g, {"vset"}))][1]>>
    [] OTHER -> [i \in DOMAIN Loads(g) |-> PointerOf(g, Loads(g)[i])]

(* The call's arguments are the values the loop is entered with: the one   *)
(* there is for each, unless it is vl or the result itself; of several one *)
(* is read, whichever way the loop was entered.                            *)
CallReadsEntryValues ==
  pc = "done" /\ CallOp \in live =>
    \A i \in DOMAIN ins[CallOp] : \A v \in FlowsIn(g, reg[Counted[i]]) :
      FlowsIn(g, reg[Counted[i]]) = {v} /\ v \notin VlVn \cup {result} => ins[CallOp][i] = v

(* What the result of a strcmp loop says, and what its stand-in says.      *)
(* vector_strcmp is zero for equal strings, and its sign follows the order *)
(* of its arguments.                                                       *)
Says(r) ==
  CASE kind[Def(g, r)] = "equal" -> "same"
    [] kind[Def(g, r)] = "notequal" -> "differ"
    [] OTHER -> IF g.ins[Def(g, r)][1] \in Found(g, "strcmp")[1]
                THEN "order" ELSE "reverse order"

StandInSays(v) ==
  CASE v = InvertVn -> "same"
    [] OTHER -> IF kind[Def(g, result)] = "sub" THEN "order" ELSE "differ"

ReadsTheSame(op) ==
  \A i \in DOMAIN g.ins[op] : g.ins[op][i] = result => StandInSays(ins[op][i]) = Says(result)

(* A branch on the result of a strcmp loop goes the same way on what has   *)
(* taken its place.                                                        *)
BranchesGoTheSameWay ==
  pc = "done" /\ transform = "strcmp" =>
    \A op \in live \ New : kind[op] = "cbranch" => ReadsTheSame(op)

(* ... and every other reader is told the same. *)
ReadersAreToldTheSame ==
  pc = "done" /\ transform = "strcmp" => \A op \in live \ New : ReadsTheSame(op)

(* No op in front of the loop or in it, or behind the result, is left to   *)
(* read what the loop computed for itself: its counters, pointers and      *)
(* element count.  The phis of memory are not looked at by the transform.  *)
NothingLeaks ==
  pc = "done" =>
    \A op \in live, v \in LoopLocalVns(g) :
      ~(kind[op] = "phi" /\ out[op] \in MemoryVn) /\ v \in Reads(ins, op) /\ IsStale(out, v) =>
        addr[op] \in LastAddr..addr[IF result = NoVn THEN Last(Ops(g, {"cbranch"})) ELSE Def(g, result)]
=============================================================================
