---------------------------- MODULE EpilogResult ----------------------------
(***************************************************************************)
(* How transformStrlen and transformStrcmp find the Varnode that holds the *)
(* result of the loop: Inspector::collectDependencies (inspector.cc) walks *)
(* the descend lists from two roots, a pointer of the loop and either the  *)
(* value its end is tested with or its other pointer, and                  *)
(* VectorEpilogProcessor::getIntersectionVector (vector_ops.cc) takes what *)
(* depends on both and is defined shortly behind the loop.                 *)
(*                                                                         *)
(* The Varnode sets are std::sets of pointers: their order, and that of a  *)
(* descend list, is not one the program chooses.                           *)
(***************************************************************************)
EXTENDS Pcode, FiniteSets

CONSTANTS
  Functions,   \* the functions considered, records [ins, out]
  RegisterVn,  \* Varnodes of the register space
  CsrVn,       \* Varnodes of the csreg space
  VlVn,        \* the vl register among them
  OpsInLoop,   \* ops of the loop block within its addresses
  addr,        \* address of each op
  LastAddr,    \* lastAddr, the end of the loop
  MaxDepth,    \* MAX_DEPENDENCY_DEPTH
  SearchDepth, \* EPILOG_SEARCH_DEPTH
  Pointer,     \* pRegister of the first source operand
  Pointer2,    \* pRegister of the second, for strcmp
  ComparisonVn \* comparisonVarnode, which may be a null pointer

ASSUME EpilogAssumption ==
  /\ IsFiniteSet(Vn)
  /\ \A f \in Functions : f.ins \in InputSeqs /\ f.out \in Outputs /\ IsSSA(f.out)
  /\ RegisterVn \subseteq Vn /\ OpsInLoop \subseteq Op
  /\ VlVn \subseteq CsrVn /\ CsrVn \subseteq Vn
  /\ addr \in [Op -> Nat]
  /\ LastAddr \in Nat /\ MaxDepth \in Nat /\ SearchDepth \in Nat
  /\ {Pointer, Pointer2} \subseteq Vn /\ ComparisonVn \in Vn \cup {NoVn}

VARIABLES
  ins, out,
  kind,    \* the transform under way
  pass,    \* which root is being traced
  deps,    \* s1DepSet and s2DepSet
  vn,      \* the Varnode being expanded, NoVn when there is none left
  count,   \* Varnodes expanded
  visited, \* visitedOps
  stack,   \* candidateVns
  chosen,  \* resultsVector[0], NoVn if there is none
  pc

fn == <<ins, out, kind>>
search == <<vn, count, visited, stack>>
vars == <<fn, pass, deps, search, chosen, pc>>

Kinds == {"strlen", "strcmp"}
Passes == {1, 2}

Roots == IF kind = "strlen" THEN <<Pointer, ComparisonVn>> ELSE <<Pointer, Pointer2>>
StopSet == IF kind = "strlen" THEN {} ELSE {ComparisonVn}

TypeOK ==
  /\ ins \in InputSeqs
  /\ out \in Outputs
  /\ kind \in Kinds
  /\ pass \in Passes
  /\ deps \in [Passes -> SUBSET Vn]
  /\ vn \in Vn \cup {NoVn}
  /\ count \in Nat
  /\ visited \in SUBSET Op
  /\ stack \in Seq(Vn)
  /\ chosen \in Vn \cup {NoVn}
  /\ pc \in {"start", "expand", "select", "done"}

Init ==
  /\ \E f \in Functions : ins = f.ins /\ out = f.out
  /\ kind \in Kinds
  /\ pass = 1
  /\ deps = [p \in Passes |-> {}]
  /\ vn = Pointer /\ count = 0 /\ visited = {} /\ stack = <<>>
  /\ chosen = NoVn
  /\ pc = "start"

-----------------------------------------------------------------------------
(* collectDependencies *)

(* Mutant: one expansion too many. *)
BeginExpansionOffByOne ==
  /\ pc = "start"
  /\ vn # NoVn
  /\ count <= MaxDepth
  /\ count' = count + 1
  /\ pc' = "expand"
  /\ UNCHANGED <<fn, pass, deps, vn, visited, stack, chosen>>

(* The loop head: while ((vn != nullptr) && (count++ < maxDepth)) *)
BeginExpansion ==
  /\ pc = "start"
  /\ vn # NoVn
  /\ count < MaxDepth
  /\ count' = count + 1
  /\ pc' = "expand"
  /\ UNCHANGED <<fn, pass, deps, vn, visited, stack, chosen>>

Unvisited == Readers(ins, vn) \ visited

(* Mutant: an op without an output is not skipped. *)
IsNewWithoutOutput(v) == v \notin StopSet

(* visitedVns is the stop set: nothing is ever added to it. *)
IsNew(v) == v # NoVn /\ v \notin StopSet

(* Mutant: an op is marked as visited only when it leads further. *)
VisitReaderMarkingLate ==
  /\ pc = "expand"
  /\ \E op \in Unvisited :
       IF IsNew(out[op])
       THEN /\ visited' = visited \cup {op}
            /\ deps' = [deps EXCEPT ![pass] = @ \cup {out[op]}]
            /\ stack' = <<out[op]>> \o stack
       ELSE UNCHANGED <<visited, deps, stack>>
  /\ UNCHANGED <<fn, pass, vn, count, chosen, pc>>

VisitReader ==
  /\ pc = "expand"
  /\ \E op \in Unvisited :
       /\ visited' = visited \cup {op}
       /\ IF IsNew(out[op])
          THEN /\ deps' = [deps EXCEPT ![pass] = @ \cup {out[op]}]
               /\ stack' = <<out[op]>> \o stack
          ELSE UNCHANGED <<deps, stack>>
  /\ UNCHANGED <<fn, pass, vn, count, chosen, pc>>

(* Mutant: the search ends when the top of the stack has been expanded. *)
PopCandidateLosingRest ==
  /\ pc = "expand"
  /\ Unvisited = {}
  /\ IF stack = <<>>
     THEN vn' = NoVn /\ UNCHANGED stack
     ELSE vn' = Head(stack) /\ stack' = <<>>
  /\ pc' = "start"
  /\ UNCHANGED <<fn, pass, deps, count, visited, chosen>>

PopCandidate ==
  /\ pc = "expand"
  /\ Unvisited = {}
  /\ IF stack = <<>>
     THEN vn' = NoVn /\ UNCHANGED stack
     ELSE vn' = Head(stack) /\ stack' = Tail(stack)
  /\ pc' = "start"
  /\ UNCHANGED <<fn, pass, deps, count, visited, chosen>>

(* The search is over: nothing is left, or MaxDepth Varnodes are expanded. *)
SearchOver == pc = "start" /\ (vn = NoVn \/ count >= MaxDepth)

TraceSecondRoot ==
  /\ SearchOver
  /\ pass = 1
  /\ pass' = 2
  /\ vn' = Roots[2] /\ count' = 0 /\ visited' = {} /\ stack' = <<>>
  /\ UNCHANGED <<fn, deps, chosen, pc>>

FinishTracing ==
  /\ SearchOver
  /\ pass = 2
  /\ pc' = "select"
  /\ UNCHANGED <<fn, pass, deps, search, chosen>>

-----------------------------------------------------------------------------
(* getIntersectionVector *)

DefAddrs(v) == {addr[op] : op \in {o \in Op : out[o] = v}}

(* VectorLoop::isDefinedInLoop: vl is taken to be, other control registers *)
(* are not, whatever writes them.                                          *)
IsDefinedInLoop(v) == IF v \in CsrVn THEN v \in VlVn ELSE \E op \in OpsInLoop : out[op] = v

(* Mutant: what the loop defines is let through. *)
SelectedAnywhere(v) ==
  /\ DefAddrs(v) \subseteq LastAddr..(LastAddr + SearchDepth)
  /\ kind = "strlen" => v \in RegisterVn

(* selectRegisterVnOnly and selectAny *)
Selected(v) ==
  /\ ~IsDefinedInLoop(v)
  /\ DefAddrs(v) \subseteq LastAddr..(LastAddr + SearchDepth)
  /\ kind = "strlen" => v \in RegisterVn

Candidates == {v \in deps[1] \cap deps[2] : Selected(v)}

(* std::sort(begin, begin) sorts nothing: the first candidate is the one   *)
(* with the lowest address in memory.                                      *)
SelectResult ==
  /\ pc = "select"
  /\ Candidates # {}
  /\ chosen' \in Candidates
  /\ pc' = "done"
  /\ UNCHANGED <<fn, pass, deps, search>>

(* The transform is rolled back. *)
NoResult ==
  /\ pc = "select"
  /\ Candidates = {}
  /\ pc' = "done"
  /\ UNCHANGED <<fn, pass, deps, search, chosen>>

Next ==
  \/ BeginExpansion \/ VisitReader \/ PopCandidate
  \/ TraceSecondRoot \/ FinishTracing \/ SelectResult \/ NoResult

(* One call on one thread: it runs until it returns. *)
Spec == Init /\ [][Next]_vars /\ WF_vars(Next)
-----------------------------------------------------------------------------
(* Properties. *)

(* S holds what is written by an op that reads root or a member of S.      *)
Closed(root, S) ==
  \A op \in Op : IsNew(out[op]) /\ Reads(ins, op) \cap (S \cup {root}) # {} => out[op] \in S

(* The ends of all chains from root: what is in every such set.            *)
Dependents(root) == {v \in Vn : \A S \in SUBSET Vn : Closed(root, S) => v \in S}

(* The pairs of a Varnode and another that is written by a reader of it.  *)
Flow ==
  {e \in Vn \X Vn : IsNew(e[2]) /\ \E op \in Readers(ins, e[1]) : out[op] = e[2]}

(* In n steps of R or fewer, but at least one, root leads to v through S.  *)
LeadsTo(R, root, S, n, v) ==
  \E k \in 1..n : \E c \in [1..k -> S] :
    /\ \A i \in 1..k : <<IF i = 1 THEN root ELSE c[i-1], c[i]>> \in R
    /\ c[k] = v

(* Nothing is reported as a dependent of a root that is not one, and every *)
(* one is at the end of a chain of at most maxDepth ops that write what is *)
(* reported, too.                                                          *)
ChainsBounded ==
  \A p \in Passes : \A v \in deps[p] : LeadsTo(Flow, Roots[p], deps[p], MaxDepth, v)

(* A search that ended before the limit on expansions has found every      *)
(* dependent of its root, cycles through phis included: no reader of the   *)
(* root or of a dependent writes a Varnode that is missing.                *)
CompleteUnlessCut ==
  SearchOver /\ vn = NoVn =>
    \A v \in deps[pass] \cup {Roots[pass]} : \A op \in Readers(ins, v) :
      IsNew(out[op]) => out[op] \in deps[pass]

(* A result that replaces the loop depends on both roots, is not computed  *)
(* by the loop (unless it is a control register, of which the code does    *)
(* not know), and its chains do not run through the loop's own end test.   *)
(* A transform gives up only if there is no such Varnode close behind the  *)
(* loop, or a root has so many dependents that the search was cut off.     *)
Results == {v \in Dependents(Roots[1]) \cap Dependents(Roots[2]) : Selected(v)}

TooMany(root) == Cardinality(Dependents(root)) >= MaxDepth

ResultFound ==
  pc = "done" =>
    IF chosen = NoVn
    THEN Results = {} \/ \E p \in Passes : TooMany(Roots[p])
    ELSE /\ chosen \in Results
         /\ chosen \notin StopSet
         /\ chosen \notin CsrVn => \A op \in OpsInLoop : out[op] # chosen

(* The search returns although phis make the graph cyclic. *)
Returns == <>(pc = "done")

(* The result is the first such descendant behind the loop. *)
FirstInEpilog ==
  chosen # NoVn =>
    \A v \in Candidates : \A a \in DefAddrs(chosen), b \in DefAddrs(v) : a <= b
=============================================================================
