-------------------------- MODULE EpilogResultProofs --------------------------
(***************************************************************************)
(* What the search for the result of a loop guarantees for every function  *)
(* in SSA form, every limit and every order of the descend lists: a search *)
(* that was not cut off is complete, none goes further than the limit,     *)
(* what is chosen depends on both roots and is computed behind the loop,   *)
(* and it is found wherever the limit leaves room for all dependents.      *)
(***************************************************************************)
EXTENDS EpilogResult, SequenceFacts, FiniteSetTheorems

-----------------------------------------------------------------------------
(* The inductive invariant. *)

Root == Roots[pass]

(* Each Varnode found so far, and the root, is being expanded, waits for   *)
(* it, or has no reader left; each reader seen has its output among them.  *)
Traced ==
  /\ \A v \in deps[pass] \cup {Root} :
       v = vn \/ v \in ToSet(stack) \/ Readers(ins, v) \subseteq visited
  /\ \A op \in visited : IsNew(out[op]) => out[op] \in deps[pass]
  /\ vn = NoVn => stack = <<>>
  /\ pc = "expand" => vn # NoVn

(* Whatever is found or still to be expanded is reached from the root.     *)
Reached ==
  /\ \A p \in Passes : deps[p] \subseteq Dependents(Roots[p])
  /\ \A p \in Passes : deps[p] \cap StopSet = {}
  /\ ToSet(stack) \subseteq deps[pass]
  /\ vn \in deps[pass] \cup {Root, NoVn}

Order ==
  /\ pass = 1 => deps[2] = {} /\ pc \in {"start", "expand"}
  /\ chosen # NoVn => pc = "done" /\ chosen \in Candidates

IInv == TypeOK /\ Traced /\ Reached /\ Order

-----------------------------------------------------------------------------
(* The roots are Varnodes of the epilog's ops, the second may be missing.  *)
LEMMA RootsType ==
  ASSUME kind \in Kinds
  PROVE  /\ Roots[1] = Pointer /\ Roots[1] \in Vn /\ Roots[2] \in Vn \cup {NoVn}
         /\ \A p \in Passes : Roots[p] \in Vn \cup {NoVn}
BY EpilogAssumption DEF Kinds, Roots, Passes

(* What reads the root or a dependent writes a dependent. *)
LEMMA NextDependent ==
  ASSUME NEW root, NEW v \in Dependents(root) \cup {root},
         NEW op \in Readers(ins, v), IsNew(out[op]), out[op] \in Vn
  PROVE  out[op] \in Dependents(root)
<1> SUFFICES ASSUME NEW S \in SUBSET Vn, Closed(root, S)
    PROVE  out[op] \in S
  BY DEF Dependents
<1>1. v \in S \cup {root}
  BY DEF Dependents
<1>2. op \in Op /\ v \in Reads(ins, op)
  BY DEF Readers
<1> QED BY <1>1, <1>2 DEF Closed

(* Nothing is traced yet. *)
LEMMA InitInv == Init => IInv
<1> SUFFICES ASSUME Init PROVE IInv
  OBVIOUS
<1>1. Roots[1] = Pointer /\ Roots[1] \in Vn /\ pass = 1 /\ pass \in Passes
  BY RootsType DEF Init, Passes
<1>2. ins \in InputSeqs /\ out \in Outputs
  BY EpilogAssumption DEF Init
<1>3. TypeOK
  BY <1>1, <1>2 DEF Init, TypeOK
<1>4. Traced
  <2>1. Pointer # NoVn
    BY <1>1, VnAssumption
  <2> QED BY <1>1, <2>1 DEF Init, Traced, Root, Passes
<1>5. Reached
  <2>1. ToSet(<<>>) = {}
    BY DEF ToSet
  <2> QED BY <1>1, <2>1 DEF Init, Reached, Root, Passes
<1>6. Order
  BY DEF Init, Order, Passes
<1> QED BY <1>3, <1>4, <1>5, <1>6 DEF IInv

(* What an expansion begins with has been reached. *)
LEMMA ExpandStep == IInv /\ BeginExpansion => IInv'
<1> SUFFICES ASSUME IInv, BeginExpansion PROVE IInv'
  OBVIOUS
<1>1. UNCHANGED <<ins, out, kind, pass, deps, vn, visited, stack, chosen>> /\ vn # NoVn
  BY DEF BeginExpansion, fn
<1>2. TypeOK'
  BY DEF BeginExpansion, fn, IInv, TypeOK
<1>3. Roots' = Roots /\ StopSet' = StopSet /\ \A r : Dependents(r)' = Dependents(r)
  BY <1>1 DEF Roots, StopSet, Dependents, Closed, IsNew
<1>4. Traced'
  BY <1>1, <1>3 DEF IInv, Traced, Root, IsNew
<1>5. Reached'
  BY <1>1, <1>3 DEF IInv, Reached, Root
<1>6. Order'
  BY <1>1 DEF BeginExpansion, IInv, Order
<1> QED BY <1>2, <1>4, <1>5, <1>6 DEF IInv

(* The output of a reader of vn is a dependent, since vn is or is the root.*)
LEMMA VisitStep == IInv /\ VisitReader => IInv'
<1> SUFFICES ASSUME IInv, VisitReader PROVE IInv'
  OBVIOUS
<1>1. /\ UNCHANGED <<ins, out, kind, pass, vn, count, chosen, pc>> /\ pc = "expand" /\ vn # NoVn
      /\ out \in Outputs /\ deps \in [Passes -> SUBSET Vn] /\ pass \in Passes
      /\ stack \in Seq(Vn) /\ visited \in SUBSET Op
  BY DEF VisitReader, fn, IInv, TypeOK, Traced
<1>2. PICK op \in Unvisited :
        /\ visited' = visited \cup {op}
        /\ IF IsNew(out[op])
           THEN /\ deps' = [deps EXCEPT ![pass] = @ \cup {out[op]}]
                /\ stack' = <<out[op]>> \o stack
           ELSE UNCHANGED <<deps, stack>>
  BY DEF VisitReader
<1>3. op \in Op /\ op \in Readers(ins, vn)
  BY <1>2 DEF Unvisited, Readers
<1>4. /\ Roots' = Roots /\ StopSet' = StopSet /\ Root' = Root
      /\ (\A r : Dependents(r)' = Dependents(r)) /\ (\A v : IsNew(v)' = IsNew(v))
  BY <1>1 DEF Roots, StopSet, Dependents, Closed, IsNew, Root
<1>5. CASE IsNew(out[op])
  <2>1. out[op] \in Vn /\ out[op] \notin StopSet
    BY <1>1, <1>3, <1>5 DEF Outputs, IsNew
  <2>2. stack' \in Seq(Vn) /\ ToSet(stack') = {out[op]} \cup ToSet(stack)
    <3>1. stack' = <<out[op]>> \o stack
      BY <1>2, <1>5
    <3> QED BY <1>1, <2>1, <3>1, ConsElements
  <2>3. /\ deps' \in [Passes -> SUBSET Vn]
        /\ deps'[pass] = deps[pass] \cup {out[op]}
        /\ \A p \in Passes : p # pass => deps'[p] = deps[p]
    BY <1>1, <1>2, <1>5, <2>1
  <2>4. TypeOK'
    BY <1>1, <1>2, <1>3, <2>2, <2>3 DEF IInv, TypeOK
  <2>5. Traced'
    BY <1>1, <1>2, <1>4, <2>2, <2>3 DEF IInv, Traced
  <2>6. out[op] \in Dependents(Root)
    <3>1. vn \in Dependents(Root) \cup {Root}
      BY <1>1 DEF IInv, Reached, Root
    <3> QED BY <1>3, <1>5, <2>1, <3>1, NextDependent
  <2>7. Reached'
    BY <1>1, <1>4, <2>1, <2>2, <2>3, <2>6 DEF IInv, Reached, Root
  <2>8. Order'
    BY <1>1, <2>3 DEF IInv, Order, Passes
  <2> QED BY <2>4, <2>5, <2>7, <2>8 DEF IInv
<1>6. CASE ~IsNew(out[op])
  <2>1. UNCHANGED <<deps, stack>>
    BY <1>2, <1>6
  <2>2. TypeOK'
    BY <1>1, <1>2, <1>3, <2>1 DEF IInv, TypeOK
  <2>3. Traced'
    BY <1>1, <1>2, <1>4, <1>6, <2>1 DEF IInv, Traced
  <2>4. Reached'
    BY <1>1, <1>4, <2>1 DEF IInv, Reached
  <2>5. Order'
    BY <1>1, <2>1 DEF IInv, Order
  <2> QED BY <2>2, <2>3, <2>4, <2>5 DEF IInv
<1> QED BY <1>5, <1>6

(* vn is done with: all its readers have been seen. *)
LEMMA PopStep == IInv /\ PopCandidate => IInv'
<1> SUFFICES ASSUME IInv, PopCandidate PROVE IInv'
  OBVIOUS
<1>1. /\ UNCHANGED <<ins, out, kind, pass, deps, count, visited, chosen>>
      /\ pc = "expand" /\ pc' = "start"
      /\ Readers(ins, vn) \subseteq visited
      /\ stack \in Seq(Vn) /\ deps \in [Passes -> SUBSET Vn] /\ pass \in Passes
  BY DEF PopCandidate, fn, Unvisited, IInv, TypeOK
<1>2. /\ Roots' = Roots /\ StopSet' = StopSet /\ Root' = Root
      /\ (\A r : Dependents(r)' = Dependents(r)) /\ (\A v : IsNew(v)' = IsNew(v))
  BY <1>1 DEF Roots, StopSet, Dependents, Closed, IsNew, Root
<1>3. /\ stack' \in Seq(Vn) /\ vn' \in ToSet(stack) \cup {NoVn}
      /\ ToSet(stack') \subseteq ToSet(stack) /\ ToSet(stack) \subseteq ToSet(stack') \cup {vn'}
      /\ vn' = NoVn => stack' = <<>>
  <2>1. CASE stack = <<>>
    <3>1. vn' = NoVn /\ stack' = stack
      BY <2>1 DEF PopCandidate
    <3> QED BY <1>1, <2>1, <3>1 DEF ToSet
  <2>2. CASE stack # <<>>
    <3>1. vn' = Head(stack) /\ stack' = Tail(stack)
      BY <2>2 DEF PopCandidate
    <3>2. /\ Head(stack) \in Vn /\ Tail(stack) \in Seq(Vn)
          /\ ToSet(stack) = {Head(stack)} \cup ToSet(Tail(stack))
      BY <1>1, <2>2, HeadTailElements
    <3> QED BY <3>1, <3>2, VnAssumption
  <2> QED BY <2>1, <2>2
<1>4. ToSet(stack) \subseteq deps[pass] /\ deps[pass] \subseteq Vn
  BY <1>1 DEF IInv, Reached
<1>5. TypeOK'
  BY <1>1, <1>3, <1>4 DEF IInv, TypeOK
<1>6. Traced'
  BY <1>1, <1>2, <1>3 DEF IInv, Traced
<1>7. Reached'
  BY <1>1, <1>2, <1>3, <1>4 DEF IInv, Reached
<1>8. Order'
  BY <1>1 DEF IInv, Order
<1> QED BY <1>5, <1>6, <1>7, <1>8 DEF IInv

(* The second search begins with sets of its own; what the first found     *)
(* stays.                                                                  *)
LEMMA SecondRootStep == IInv /\ TraceSecondRoot => IInv'
<1> SUFFICES ASSUME IInv, TraceSecondRoot PROVE IInv'
  OBVIOUS
<1>1. /\ UNCHANGED <<ins, out, kind, deps, chosen, pc>> /\ pass = 1 /\ pass' = 2
      /\ vn' = Roots[2] /\ visited' = {} /\ stack' = <<>> /\ count' = 0 /\ pc = "start"
      /\ deps[2] = {}
  BY DEF TraceSecondRoot, SearchOver, fn, IInv, Order
<1>2. /\ Roots' = Roots /\ StopSet' = StopSet
      /\ (\A r : Dependents(r)' = Dependents(r))
  BY <1>1 DEF Roots, StopSet, Dependents, Closed, IsNew
<1>3. Roots[2] \in Vn \cup {NoVn} /\ ToSet(<<>>) = {}
  BY RootsType DEF IInv, TypeOK, ToSet
<1>4. TypeOK'
  BY <1>1, <1>3 DEF IInv, TypeOK, Passes
<1>5. Traced'
  BY <1>1, <1>2, <1>3 DEF Traced, Root
<1>6. Reached'
  BY <1>1, <1>2, <1>3 DEF IInv, Reached, Root, Passes
<1>7. Order'
  BY <1>1 DEF IInv, Order
<1> QED BY <1>4, <1>5, <1>6, <1>7 DEF IInv

(* The choice changes no dependents. *)
LEMMA ChoiceStep == IInv /\ (FinishTracing \/ SelectResult \/ NoResult) => IInv'
<1> SUFFICES ASSUME IInv, FinishTracing \/ SelectResult \/ NoResult PROVE IInv'
  OBVIOUS
<1>1. /\ UNCHANGED <<ins, out, kind, pass, deps, vn, count, visited, stack>>
      /\ pc' \in {"select", "done"}
  BY DEF FinishTracing, SelectResult, NoResult, fn, search
<1>2. /\ Roots' = Roots /\ StopSet' = StopSet /\ Root' = Root /\ Candidates' = Candidates
      /\ (\A r : Dependents(r)' = Dependents(r)) /\ (\A v : IsNew(v)' = IsNew(v))
  BY <1>1 DEF Roots, StopSet, Dependents, Closed, IsNew, Root, Candidates, Selected,
              IsDefinedInLoop, DefAddrs
<1>3. Candidates \subseteq Vn
  BY DEF IInv, TypeOK, Candidates, Passes
<1>4. TypeOK'
  BY <1>1, <1>3 DEF FinishTracing, SelectResult, NoResult, IInv, TypeOK
<1>5. Traced'
  BY <1>1, <1>2 DEF IInv, Traced
<1>6. Reached'
  BY <1>1, <1>2 DEF IInv, Reached
<1>7. Order'
  BY <1>1, <1>2 DEF FinishTracing, SearchOver, SelectResult, NoResult, IInv, Order
<1> QED BY <1>4, <1>5, <1>6, <1>7 DEF IInv

LEMMA NextInv == IInv /\ [Next]_vars => IInv'
<1>1. CASE UNCHANGED vars
  BY <1>1 DEF vars, fn, search, IInv, TypeOK, Traced, Reached, Order, Root, Roots, StopSet,
              Dependents, Closed, IsNew, Candidates, Selected, IsDefinedInLoop, DefAddrs
<1> QED BY <1>1, ExpandStep, VisitStep, PopStep, SecondRootStep, ChoiceStep DEF Next

(* When nothing is left to expand, what has been found is closed.          *)
LEMMA ClosedGives == IInv => CompleteUnlessCut
<1> SUFFICES ASSUME IInv, vn = NoVn, NEW v \in deps[pass] \cup {Roots[pass]},
                    NEW op \in Readers(ins, v), IsNew(out[op])
    PROVE  out[op] \in deps[pass]
  BY DEF CompleteUnlessCut
<1>1. v \in Vn /\ v # NoVn
  <2>1. op \in Op /\ v \in Reads(ins, op)
    BY DEF Readers
  <2> QED BY <2>1, VnAssumption, ElementsOf DEF IInv, TypeOK, InputSeqs, Reads
<1>2. ToSet(stack) = {}
  BY DEF IInv, Traced, ToSet
<1>3. Readers(ins, v) \subseteq visited
  BY <1>1, <1>2 DEF IInv, Traced, Root
<1> QED BY <1>3 DEF IInv, Traced

-----------------------------------------------------------------------------
(* Theorems. *)

(* The invariant holds throughout both searches and the choice.            *)
THEOREM Invariance == Spec => []IInv
BY InitInv, NextInv, PTL DEF Spec

(* The state is well typed: only an op's output is ever pushed, and only   *)
(* if it has one.                                                          *)
THEOREM Typing == Spec => []TypeOK
BY Invariance, PTL DEF IInv

(* collectDependencies finds every dependent, cycles through phis          *)
(* included, unless maxDepth expansions cut it off.                        *)
THEOREM Completeness == Spec => []CompleteUnlessCut
BY ClosedGives, Invariance, PTL

-----------------------------------------------------------------------------
(* How far the limit reaches.  Each expansion but the root's has been paid *)
(* for by a Varnode found: it was pushed when the op that writes it was    *)
(* visited, once.                                                          *)

Exact(p) == deps[p] = Dependents(Roots[p]) \/ TooMany(Roots[p])

(* the expansions that have been made or are to be made *)
Expansions == count + Len(stack) + (IF pc = "start" /\ vn # NoVn THEN 1 ELSE 0)

SearchInv ==
  /\ IsSSA(out)
  /\ \A v \in deps[pass] : \E op \in visited : out[op] = v
  /\ Expansions <= 1 + Cardinality(deps[pass])
  /\ pass = 2 => Exact(1)
  /\ pc \in {"select", "done"} => pass = 2 /\ Exact(2)
  /\ pc = "done" /\ chosen = NoVn => Candidates = {}

(* What a step that changes neither the function nor what has been found   *)
(* leaves as it is                                                         *)
LEMMA SameSearch ==
  ASSUME UNCHANGED fn
  PROVE  /\ IsSSA(out)' = IsSSA(out) /\ Roots' = Roots /\ StopSet' = StopSet
         /\ (\A r : Dependents(r)' = Dependents(r)) /\ (\A r : TooMany(r)' <=> TooMany(r))
         /\ deps' = deps => \A p : Exact(p)' <=> Exact(p)
         /\ deps' = deps => Candidates' = Candidates
BY DEF fn, Roots, StopSet, Dependents, Closed, IsNew, TooMany, Exact, Candidates, Selected,
       IsDefinedInLoop, DefAddrs, IsSSA

(* The sets are finite, and the numbers are numbers. *)
LEMMA SearchTypes ==
  ASSUME IInv
  PROVE  /\ IsFiniteSet(deps[pass]) /\ Cardinality(deps[pass]) \in Nat
         /\ count \in Nat /\ Len(stack) \in Nat /\ MaxDepth \in Nat /\ pass \in Passes
<1>1. pass \in Passes /\ deps[pass] \in SUBSET Vn /\ stack \in Seq(Vn) /\ count \in Nat
  BY DEF IInv, TypeOK
<1>2. IsFiniteSet(deps[pass])
  BY <1>1, EpilogAssumption, FS_Subset
<1> QED BY <1>1, <1>2, EpilogAssumption, FS_CardinalityType, LenProperties

LEMMA InitSearch == Init => SearchInv
<1> SUFFICES ASSUME Init PROVE SearchInv
  OBVIOUS
<1>1. /\ IsSSA(out) /\ deps[pass] = {} /\ pass = 1 /\ pc = "start" /\ count = 0 /\ stack = <<>>
  BY EpilogAssumption DEF Init, Passes
<1>2. Len(stack) = 0 /\ Cardinality(deps[pass]) = 0
  BY <1>1, EmptySeq, FS_EmptySet
<1> QED BY <1>1, <1>2 DEF SearchInv, Expansions

LEMMA ExpandSearch == IInv /\ SearchInv /\ BeginExpansion => SearchInv'
<1> SUFFICES ASSUME IInv, SearchInv, BeginExpansion PROVE SearchInv'
  OBVIOUS
<1>1. /\ UNCHANGED <<fn, pass, deps, vn, visited, stack, chosen>> /\ vn # NoVn
      /\ pc = "start" /\ pc' = "expand" /\ count' = count + 1
  BY DEF BeginExpansion
<1>2. Expansions' = Expansions
  BY <1>1, SearchTypes DEF Expansions
<1> QED BY <1>1, <1>2, SameSearch DEF SearchInv, fn

(* A Varnode found before has been found by the one op that writes it.     *)
LEMMA VisitSearch == IInv /\ SearchInv /\ VisitReader => SearchInv'
<1> SUFFICES ASSUME IInv, SearchInv, VisitReader PROVE SearchInv'
  OBVIOUS
<1>1. /\ UNCHANGED <<fn, pass, vn, count, chosen, pc>> /\ pc = "expand"
      /\ out \in Outputs /\ deps \in [Passes -> SUBSET Vn] /\ pass \in Passes
      /\ stack \in Seq(Vn) /\ visited \in SUBSET Op
  BY DEF VisitReader, IInv, TypeOK
<1>2. PICK op \in Unvisited :
        /\ visited' = visited \cup {op}
        /\ IF IsNew(out[op])
           THEN /\ deps' = [deps EXCEPT ![pass] = @ \cup {out[op]}]
                /\ stack' = <<out[op]>> \o stack
           ELSE UNCHANGED <<deps, stack>>
  BY DEF VisitReader
<1>3. op \in Op /\ op \notin visited
  BY <1>2 DEF Unvisited, Readers
<1>4. CASE ~IsNew(out[op])
  <2>1. UNCHANGED <<deps, stack>>
    BY <1>2, <1>4
  <2>2. Expansions' = Expansions
    BY <1>1, <2>1 DEF Expansions
  <2>3. \A v \in deps'[pass'] : \E o \in visited' : out'[o] = v
    BY <1>1, <1>2, <2>1 DEF SearchInv, fn
  <2> QED BY <1>1, <2>1, <2>2, <2>3, SameSearch DEF SearchInv
<1>5. CASE IsNew(out[op])
  <2>1. out[op] \in Vn /\ out[op] # NoVn
    BY <1>1, <1>3, <1>5 DEF Outputs, IsNew
  <2>2. out[op] \notin deps[pass]
    BY <1>1, <1>3, <2>1 DEF SearchInv, IsSSA
  <2>3. /\ deps'[pass] = deps[pass] \cup {out[op]} /\ (pass = 2 => deps'[1] = deps[1])
        /\ stack' = <<out[op]>> \o stack
    BY <1>1, <1>2, <1>5 DEF Passes
  <2>4. Len(stack') = 1 + Len(stack)
    BY <1>1, <2>1, <2>3, ConsElements, ConcatProperties
  <2>5. Cardinality(deps'[pass]) = Cardinality(deps[pass]) + 1
    BY <2>2, <2>3, SearchTypes, FS_AddElement
  <2>6. Expansions' <= 1 + Cardinality(deps[pass])'
    <3>1. Expansions' = count + Len(stack') /\ Expansions = count + Len(stack)
      BY <1>1, <2>4, SearchTypes DEF Expansions
    <3> QED BY <1>1, <2>4, <2>5, <3>1, SearchTypes DEF SearchInv
  <2>7. \A v \in deps'[pass'] : \E o \in visited' : out'[o] = v
    BY <1>1, <1>2, <2>3 DEF SearchInv, fn
  <2>8. pass = 2 => Exact(1)'
    BY <1>1, <2>3, SameSearch DEF SearchInv, Exact
  <2> QED BY <1>1, <2>6, <2>7, <2>8, SameSearch DEF SearchInv
<1> QED BY <1>4, <1>5

LEMMA PopSearch == IInv /\ SearchInv /\ PopCandidate => SearchInv'
<1> SUFFICES ASSUME IInv, SearchInv, PopCandidate PROVE SearchInv'
  OBVIOUS
<1>1. /\ UNCHANGED <<fn, pass, deps, count, visited, chosen>>
      /\ pc = "expand" /\ pc' = "start" /\ stack \in Seq(Vn)
  BY DEF PopCandidate, IInv, TypeOK
<1>2. Expansions' <= Expansions
  <2>1. CASE stack = <<>>
    <3>1. vn' = NoVn /\ stack' = stack
      BY <2>1 DEF PopCandidate
    <3> QED BY <1>1, <3>1, SearchTypes DEF Expansions
  <2>2. CASE stack # <<>>
    <3>1. Len(stack') = Len(stack) - 1
      BY <1>1, <2>2, HeadTailProperties DEF PopCandidate
    <3>2. Expansions' \in {count + Len(stack'), count + Len(stack') + 1}
      BY <1>1, <3>1, SearchTypes DEF Expansions
    <3>3. Expansions = count + Len(stack)
      BY <1>1, SearchTypes DEF Expansions
    <3> QED BY <3>1, <3>2, <3>3, SearchTypes
  <2> QED BY <2>1, <2>2
<1>3. Expansions' <= 1 + Cardinality(deps[pass])'
  <2>1. Expansions' \in Int /\ Expansions \in Int
    <3>1. Len(stack') \in Nat
      <4>1. stack' = stack \/ (stack' = Tail(stack) /\ stack # <<>>)
        BY DEF PopCandidate
      <4> QED BY <1>1, <4>1, SearchTypes, HeadTailProperties
    <3> QED BY <1>1, <3>1, SearchTypes DEF Expansions
  <2> QED BY <1>1, <1>2, <2>1, SearchTypes DEF SearchInv
<1> QED BY <1>1, <1>3, SameSearch DEF SearchInv, fn

(* A search that is over has found everything, or too much. *)
LEMMA OverIsExact == IInv /\ SearchInv /\ SearchOver => Exact(pass)
<1> SUFFICES ASSUME IInv, SearchInv, SearchOver PROVE Exact(pass)
  OBVIOUS
<1> DEFINE all == Dependents(Roots[pass])
<1>1. deps[pass] \in SUBSET all /\ all \in SUBSET Vn /\ deps[pass] \in SUBSET Vn
  BY SearchTypes DEF IInv, Reached, Dependents, TypeOK
<1>2. CASE vn = NoVn
  <2>1. Closed(Roots[pass], deps[pass])
    <3> SUFFICES ASSUME NEW op \in Op, IsNew(out[op]),
                        NEW v \in Reads(ins, op), v \in deps[pass] \cup {Roots[pass]}
                 PROVE  out[op] \in deps[pass]
      BY DEF Closed
    <3>1. op \in Readers(ins, v)
      BY DEF Readers
    <3> QED BY <1>2, <3>1, ClosedGives DEF CompleteUnlessCut
  <2>2. all \subseteq deps[pass]
    BY <1>1, <2>1 DEF Dependents
  <2> QED BY <1>1, <2>2 DEF Exact
<1>3. CASE vn # NoVn
  <2>1. count >= MaxDepth /\ pc = "start"
    BY <1>3 DEF SearchOver
  <2>2. Cardinality(deps[pass]) >= MaxDepth
    <3>1. Expansions = count + Len(stack) + 1
      BY <1>3, <2>1 DEF Expansions
    <3> QED BY <2>1, <3>1, SearchTypes DEF SearchInv
  <2>3. IsFiniteSet(all)
    BY <1>1, EpilogAssumption, FS_Subset
  <2>4. Cardinality(all) >= MaxDepth
    <3>1. Cardinality(deps[pass]) <= Cardinality(all) /\ Cardinality(all) \in Nat
      BY <1>1, <2>3, FS_Subset, FS_CardinalityType
    <3> QED BY <2>2, <3>1, SearchTypes
  <2> QED BY <2>4 DEF Exact, TooMany
<1> QED BY <1>2, <1>3

LEMMA SecondRootSearch == IInv /\ SearchInv /\ TraceSecondRoot => SearchInv'
<1> SUFFICES ASSUME IInv, SearchInv, TraceSecondRoot PROVE SearchInv'
  OBVIOUS
<1>1. /\ UNCHANGED <<fn, deps, chosen, pc>> /\ pass = 1 /\ pass' = 2 /\ pc = "start"
      /\ stack' = <<>> /\ count' = 0 /\ deps[2] = {} /\ SearchOver
  BY DEF TraceSecondRoot, SearchOver, IInv, Order
<1>2. Exact(1)'
  BY <1>1, OverIsExact, SameSearch
<1>3. Expansions' <= 1 + Cardinality(deps[pass])'
  <2>1. Len(stack') = 0 /\ Cardinality(deps'[pass']) = 0
    BY <1>1, EmptySeq, FS_EmptySet
  <2> QED BY <1>1, <2>1 DEF Expansions
<1> QED BY <1>1, <1>2, <1>3, SameSearch DEF SearchInv

LEMMA ChoiceSearch == IInv /\ SearchInv /\ (FinishTracing \/ SelectResult \/ NoResult) => SearchInv'
<1> SUFFICES ASSUME IInv, SearchInv, FinishTracing \/ SelectResult \/ NoResult
             PROVE  SearchInv'
  OBVIOUS
<1>1. UNCHANGED <<fn, pass, deps, search>>
  BY DEF FinishTracing, SelectResult, NoResult
<1>2. Expansions' <= Expansions
  BY <1>1, SearchTypes DEF search, Expansions, FinishTracing, SelectResult, NoResult
<1>3. Expansions' <= 1 + Cardinality(deps[pass])'
  <2>1. Expansions' \in Int /\ Expansions \in Int
    BY <1>1, SearchTypes DEF search, Expansions
  <2> QED BY <1>1, <1>2, <2>1, SearchTypes DEF SearchInv
<1>4. pass = 2 /\ Exact(2)
  BY OverIsExact DEF FinishTracing, SelectResult, NoResult, SearchInv
<1>5. pc' = "done" /\ chosen' = NoVn => Candidates = {}
  <2>1. CASE FinishTracing
    BY <2>1 DEF FinishTracing
  <2>2. CASE SelectResult
    <3>1. NoVn \notin Candidates
      BY VnAssumption DEF IInv, TypeOK, Passes, Candidates
    <3> QED BY <2>2, <3>1 DEF SelectResult
  <2>3. CASE NoResult
    BY <2>3 DEF NoResult
  <2> QED BY <2>1, <2>2, <2>3
<1> QED BY <1>1, <1>3, <1>4, <1>5, SameSearch DEF SearchInv, search, fn

LEMMA NextSearch == IInv /\ SearchInv /\ [Next]_vars => SearchInv'
<1>1. CASE UNCHANGED vars
  <2>1. SearchInv /\ UNCHANGED <<fn, pass, deps, search, chosen, pc>> => SearchInv'
    BY SameSearch DEF SearchInv, search, fn, Expansions
  <2> QED BY <1>1, <2>1 DEF vars
<1> QED BY <1>1, ExpandSearch, VisitSearch, PopSearch, SecondRootSearch, ChoiceSearch DEF Next

LEMMA SearchGives == IInv /\ SearchInv => ResultFound
<1> SUFFICES ASSUME IInv, SearchInv, pc = "done"
    PROVE  IF chosen = NoVn
           THEN Results = {} \/ \E p \in Passes : TooMany(Roots[p])
           ELSE /\ chosen \in Results
                /\ chosen \notin StopSet
                /\ chosen \notin CsrVn => \A op \in OpsInLoop : out[op] # chosen
  BY DEF ResultFound
<1>1. Exact(1) /\ Exact(2) /\ 1 \in Passes /\ 2 \in Passes
  BY DEF SearchInv, Passes
<1>2. CASE chosen = NoVn
  <2>1. Candidates = {}
    BY <1>2 DEF SearchInv
  <2>2. CASE deps[1] = Dependents(Roots[1]) /\ deps[2] = Dependents(Roots[2])
    BY <1>2, <2>1, <2>2 DEF Results, Candidates
  <2> QED BY <1>1, <1>2, <2>2 DEF Exact
<1>3. CASE chosen # NoVn
  <2>1. chosen \in deps[1] \cap deps[2] /\ Selected(chosen)
    BY <1>3 DEF IInv, Order, Candidates
  <2>2. chosen \in Results /\ chosen \notin StopSet
    BY <1>1, <2>1 DEF IInv, Reached, Results
  <2>3. chosen \notin CsrVn => \A op \in OpsInLoop : out[op] # chosen
    BY <2>1 DEF Selected, IsDefinedInLoop
  <2> QED BY <1>3, <2>2, <2>3
<1> QED BY <1>2, <1>3

(* What replaces the result of a loop depends on both roots, is not        *)
(* defined in the loop and lies close behind it; where there is such a     *)
(* Varnode, the transform finds one, as long as neither root has           *)
(* MAX_DEPENDENCY_DEPTH dependents or more.                                *)
THEOREM ResultIsFound == Spec => []ResultFound
<1>1. Spec => []SearchInv
  BY Invariance, InitSearch, NextSearch, PTL DEF Spec
<1> QED BY Invariance, <1>1, SearchGives, PTL

-----------------------------------------------------------------------------
(* Chains. *)

(* A longer limit and more Varnodes to go through *)
LEMMA LeadsWithMore ==
  ASSUME NEW R, NEW root, NEW S, NEW T, S \subseteq T, NEW n \in Nat, NEW m \in Nat, n <= m,
         NEW v, LeadsTo(R, root, S, n, v)
  PROVE  LeadsTo(R, root, T, m, v)
<1>0. PICK k \in 1..n : \E c \in [1..k -> S] :
        /\ \A i \in 1..k : <<IF i = 1 THEN root ELSE c[i-1], c[i]>> \in R
        /\ c[k] = v
  BY DEF LeadsTo
<1>1. PICK c \in [1..k -> S] :
        /\ \A i \in 1..k : <<IF i = 1 THEN root ELSE c[i-1], c[i]>> \in R
        /\ c[k] = v
  BY <1>0
<1>2. k \in 1..m /\ c \in [1..k -> T]
  OBVIOUS
<1> QED BY <1>1, <1>2 DEF LeadsTo

(* One step further *)
LEMMA LeadsFurther ==
  ASSUME NEW R, NEW root, NEW S, NEW T, S \subseteq T, NEW n \in Nat,
         NEW v, v = root \/ LeadsTo(R, root, S, n, v),
         NEW w \in T, <<v, w>> \in R
  PROVE  LeadsTo(R, root, T, n + 1, w)
<1>1. CASE v = root
  <2> DEFINE d == [i \in 1..1 |-> w]
  <2>1. 1 \in 1..(n + 1) /\ d \in [1..1 -> T] /\ d[1] = w
    OBVIOUS
  <2>2. \A i \in 1..1 : <<IF i = 1 THEN root ELSE d[i-1], d[i]>> \in R
    BY <1>1
  <2> QED BY <2>1, <2>2 DEF LeadsTo
<1>2. CASE LeadsTo(R, root, S, n, v)
  <2>0. PICK k \in 1..n : \E c \in [1..k -> S] :
          /\ \A i \in 1..k : <<IF i = 1 THEN root ELSE c[i-1], c[i]>> \in R
          /\ c[k] = v
    BY <1>2 DEF LeadsTo
  <2>1. PICK c \in [1..k -> S] :
          /\ \A i \in 1..k : <<IF i = 1 THEN root ELSE c[i-1], c[i]>> \in R
          /\ c[k] = v
    BY <2>0
  <2> DEFINE d == [i \in 1..(k + 1) |-> IF i = k + 1 THEN w ELSE c[i]]
  <2>2. k + 1 \in 1..(n + 1) /\ k \in Nat /\ k >= 1
    OBVIOUS
  <2>3. \A i \in 1..(k + 1) : i = k + 1 \/ i \in 1..k
    BY <2>2
  <2>4. d \in [1..(k + 1) -> T]
    BY <2>3
  <2>5. d[k + 1] = w /\ \A i \in 1..k : d[i] = c[i]
    BY <2>2
  <2> HIDE DEF d
  <2>6. ASSUME NEW i \in 1..(k + 1)
        PROVE  <<IF i = 1 THEN root ELSE d[i-1], d[i]>> \in R
    <3>1. CASE i \in 1..k
      <4>1. i # 1 => i - 1 \in 1..k
        BY <2>2, <3>1
      <4>2. d[i] = c[i] /\ (i # 1 => d[i-1] = c[i-1])
        BY <2>5, <3>1, <4>1
      <4>3. <<IF i = 1 THEN root ELSE c[i-1], c[i]>> \in R
        BY <2>1, <3>1
      <4> QED BY <4>2, <4>3
    <3>2. CASE i = k + 1
      <4>1. i # 1 /\ i - 1 = k /\ k \in 1..k
        BY <2>2, <3>2
      <4>2. d[i-1] = v /\ d[i] = w
        BY <2>1, <2>5, <3>2, <4>1
      <4> QED BY <4>1, <4>2
    <3> QED BY <2>3, <3>1, <3>2
  <2> QED BY <2>2, <2>4, <2>5, <2>6 DEF LeadsTo
<1> QED BY <1>1, <1>2

-----------------------------------------------------------------------------
(* The limit on the length of chains. *)

(* Each expansion adds at most one step to a chain: the Varnode being      *)
(* expanded was found by an earlier one.                                   *)
Bounded ==
  /\ count <= MaxDepth
  /\ \A v \in deps[pass] : LeadsTo(Flow, Root, deps[pass], count, v)
  /\ pc = "expand" =>
       /\ count >= 1
       /\ vn = Root \/ LeadsTo(Flow, Root, deps[pass], count - 1, vn)
  /\ pass = 2 => \A v \in deps[1] : LeadsTo(Flow, Roots[1], deps[1], MaxDepth, v)

LEMMA SameFlow ==
  ASSUME UNCHANGED fn
  PROVE  Flow' = Flow /\ Roots' = Roots /\ \A v : IsNew(v)' <=> IsNew(v)
BY DEF fn, Flow, Roots, IsNew, StopSet

LEMMA InitBounded == Init => Bounded
<1> SUFFICES ASSUME Init PROVE Bounded
  OBVIOUS
<1>1. deps[pass] = {} /\ count = 0 /\ pass = 1 /\ pc = "start"
  BY DEF Init, Passes
<1> QED BY <1>1, EpilogAssumption DEF Bounded

LEMMA ExpandBounded == IInv /\ Bounded /\ BeginExpansion => Bounded'
<1> SUFFICES ASSUME IInv, Bounded, BeginExpansion PROVE Bounded'
  OBVIOUS
<1>1. /\ UNCHANGED <<fn, pass, deps, vn>> /\ count < MaxDepth /\ count' = count + 1
      /\ count \in Nat /\ count + 1 \in Nat /\ MaxDepth \in Nat /\ vn # NoVn /\ pc' = "expand"
  BY EpilogAssumption DEF BeginExpansion, IInv, TypeOK
<1>2. Flow' = Flow /\ Roots' = Roots /\ Root' = Root
  BY <1>1, SameFlow DEF Root
<1>3. \A v \in deps[pass] : LeadsTo(Flow, Root, deps[pass], count + 1, v)
  <2> TAKE v \in deps[pass]
  <2>1. LeadsTo(Flow, Root, deps[pass], count, v) /\ count <= count + 1
    BY <1>1 DEF Bounded
  <2> QED BY <1>1, <2>1, LeadsWithMore
<1>4. vn = Root \/ LeadsTo(Flow, Root, deps[pass], count, vn)
  BY <1>1 DEF IInv, Reached, Bounded
<1>5. count' - 1 = count /\ count' >= 1 /\ count' <= MaxDepth
  BY <1>1
<1> QED BY <1>1, <1>2, <1>3, <1>4, <1>5 DEF Bounded

LEMMA VisitBounded == IInv /\ Bounded /\ VisitReader => Bounded'
<1> SUFFICES ASSUME IInv, Bounded, VisitReader PROVE Bounded'
  OBVIOUS
<1>1. /\ UNCHANGED <<fn, pass, vn, count, pc>> /\ pc = "expand" /\ vn # NoVn
      /\ out \in Outputs /\ deps \in [Passes -> SUBSET Vn] /\ pass \in Passes /\ count \in Nat
      /\ vn \in Vn
  BY DEF VisitReader, IInv, TypeOK, Traced
<1>2. PICK op \in Unvisited :
        IF IsNew(out[op])
        THEN deps' = [deps EXCEPT ![pass] = @ \cup {out[op]}]
        ELSE UNCHANGED deps
  BY DEF VisitReader
<1>3. op \in Op /\ op \in Readers(ins, vn)
  BY <1>2 DEF Unvisited, Readers
<1>4. Flow' = Flow /\ Roots' = Roots /\ Root' = Root
  BY <1>1, SameFlow DEF Root
<1>5. CASE ~IsNew(out[op])
  BY <1>1, <1>2, <1>4, <1>5 DEF Bounded
<1>6. CASE IsNew(out[op])
  <2> DEFINE T == deps[pass] \cup {out[op]}
  <2>1. deps'[pass] = T /\ (pass = 2 => deps'[1] = deps[1])
    BY <1>1, <1>2, <1>6 DEF Passes
  <2>2. <<vn, out[op]>> \in Flow
    <3>1. out[op] \in Vn
      BY <1>1, <1>3, <1>6 DEF Outputs, IsNew
    <3> QED BY <1>1, <1>3, <1>6, <3>1 DEF Flow
  <2>3. deps[pass] \subseteq T /\ out[op] \in T
    OBVIOUS
  <2>4. count - 1 \in Nat /\ (count - 1) + 1 = count
    BY <1>1 DEF Bounded
  <2> HIDE DEF T
  <2>5. vn = Root \/ LeadsTo(Flow, Root, deps[pass], count - 1, vn)
    BY <1>1 DEF Bounded
  <2>6. LeadsTo(Flow, Root, T, (count - 1) + 1, out[op])
    BY <2>2, <2>3, <2>4, <2>5, LeadsFurther
  <2>7. \A v \in deps[pass] : LeadsTo(Flow, Root, T, count, v)
    <3> TAKE v \in deps[pass]
    <3>1. LeadsTo(Flow, Root, deps[pass], count, v) /\ count <= count
      BY <1>1 DEF Bounded
    <3> QED BY <1>1, <2>3, <3>1, LeadsWithMore
  <2>8. \A v \in T : LeadsTo(Flow, Root, T, count, v)
    BY <2>4, <2>6, <2>7 DEF T
  <2>9. vn = Root \/ LeadsTo(Flow, Root, T, count - 1, vn)
    <3>1. count - 1 <= count - 1
      BY <2>4
    <3> QED BY <2>3, <2>4, <2>5, <3>1, LeadsWithMore
  <2> QED BY <1>1, <1>4, <2>1, <2>8, <2>9 DEF Bounded
<1> QED BY <1>5, <1>6

LEMMA SecondRootBounded == IInv /\ Bounded /\ TraceSecondRoot => Bounded'
<1> SUFFICES ASSUME IInv, Bounded, TraceSecondRoot PROVE Bounded'
  OBVIOUS
<1>1. /\ UNCHANGED <<fn, deps, pc>> /\ pass = 1 /\ pass' = 2 /\ count' = 0 /\ pc = "start"
      /\ deps[2] = {} /\ count \in Nat /\ MaxDepth \in Nat
  BY EpilogAssumption DEF TraceSecondRoot, SearchOver, IInv, TypeOK, Order
<1>2. Flow' = Flow /\ Roots' = Roots
  BY <1>1, SameFlow
<1>3. \A v \in deps[1] : LeadsTo(Flow, Roots[1], deps[1], MaxDepth, v)
  <2> TAKE v \in deps[1]
  <2>1. LeadsTo(Flow, Roots[1], deps[1], count, v) /\ count <= MaxDepth
    BY <1>1 DEF Bounded, Root
  <2> QED BY <1>1, <2>1, LeadsWithMore
<1> QED BY <1>1, <1>2, <1>3 DEF Bounded

LEMMA NextBounded == IInv /\ Bounded /\ [Next]_vars => Bounded'
<1> SUFFICES ASSUME IInv, Bounded, [Next]_vars PROVE Bounded'
  OBVIOUS
<1>1. CASE PopCandidate \/ FinishTracing \/ SelectResult \/ NoResult \/ UNCHANGED vars
  <2>1. UNCHANGED <<fn, pass, deps, count>> /\ (pc' = "expand" => pc = "expand" /\ vn' = vn)
    BY <1>1 DEF PopCandidate, FinishTracing, SelectResult, NoResult, vars, search
  <2>2. Flow' = Flow /\ Roots' = Roots /\ Root' = Root
    BY <2>1, SameFlow DEF Root
  <2> QED BY <2>1, <2>2 DEF Bounded
<1> QED BY <1>1, ExpandBounded, VisitBounded, SecondRootBounded DEF Next

(* Every Varnode collectDependencies reports is at the end of a chain of   *)
(* at most maxDepth ops from the root, through Varnodes it reports.        *)
THEOREM ChainsAreBounded == Spec => []ChainsBounded
<1>1. Spec => []Bounded
  BY Invariance, InitBounded, NextBounded, PTL DEF Spec
<1>2. IInv /\ Bounded => ChainsBounded
  <2> SUFFICES ASSUME IInv, Bounded, NEW p \in Passes, NEW v \in deps[p]
               PROVE  LeadsTo(Flow, Roots[p], deps[p], MaxDepth, v)
    BY DEF ChainsBounded
  <2>1. CASE p = pass
    <3>1. LeadsTo(Flow, Roots[p], deps[p], count, v) /\ count <= MaxDepth /\ count \in Nat
      BY <2>1 DEF IInv, TypeOK, Bounded, Root
    <3> QED BY <3>1, EpilogAssumption, LeadsWithMore
  <2>2. CASE p # pass
    <3>1. p = 1 /\ pass = 2
      BY <2>2 DEF IInv, TypeOK, Order, Passes
    <3> QED BY <3>1 DEF Bounded
  <2> QED BY <2>1, <2>2
<1> QED BY Invariance, <1>1, <1>2, PTL

=============================================================================
