------------------------ MODULE BlockStructureProofs ------------------------
(***************************************************************************)
(* Whatever the structure of a function and the order in which its loops   *)
(* are replaced: taking out a do..while leaves no reference to it behind,  *)
(* and the rest of the structure as it was.                                *)
(***************************************************************************)
EXTENDS BlockStructure, SequenceFacts, FiniteSetTheorems

-----------------------------------------------------------------------------
(* The inductive invariant. *)

Replacing == pc \in {"replace", "restore"}

(* The list the wrapper is in *)
Lsb == parent[wrapper]

(* A block is a component of its parent, except while the wrapper and its  *)
(* body change places.                                                     *)
Tree ==
  /\ Root \in live /\ kind[Root] = "graph"
  /\ todo \subseteq live
  /\ \A b \in todo : kind[b] = "copy"
  /\ \A b \in live : kind[b] = "copy" => list[b] = <<>>
  /\ \A b \in live : kind[b] = "dowhile" => Len(list[b]) <= 1
  /\ \A b \in live \ {Root} : parent[b] # NoBlock
  /\ \A b \in live :
       \/ parent[b] = NoBlock
       \/ b \in ToSet(list[parent[b]])
       \/ Replacing /\ b \in {wrapper, body}
  /\ \A b \in live : target[b] # NoBlock => kind[b] \in Followed \cup Multiway
  /\ \A b \in live : kind[b] \in Multiway => target[b] = fn.target[b]

(* The wrapper holds the body and nothing else. *)
Wrapped ==
  pc # "idle" =>
    /\ body \in live /\ wrapper \in live /\ Lsb \in live
    /\ kind[body] = "copy" /\ kind[wrapper] = "dowhile" /\ kind[Lsb] = "list"
    /\ list[wrapper] = IF pc = "restore" THEN <<>> ELSE <<body>>
    /\ Replacing => parent[body] = Lsb
    /\ pc = "replace" => body \in ToSet(list[Lsb]) \/ wrapper \in ToSet(list[Lsb])
    /\ pc = "restore" =>
         /\ body \in ToSet(list[Lsb])
         /\ \A b \in live : /\ kind[b] \in Followed => target[b] # wrapper
                            /\ wrapper \notin ToSet(list[b])

Closed(S) == \A g \in S : ToSet(list[g]) \subseteq S

(* All blocks can be reached from the root, but for the wrapper that has   *)
(* been replaced.                                                          *)
Rooted ==
  \A S \in SUBSET live :
    Root \in S /\ Closed(S) /\ (Replacing => wrapper \in S) => live \subseteq S

(* What still refers to the wrapper, and is not overlooked, is reached by  *)
(* the rest of the recursion.                                              *)
Pending ==
  /\ graphs \subseteq live
  /\ pc # "replace" => graphs = {}
  /\ pc = "replace" =>
       \A S \in SUBSET live :
         graphs \subseteq S /\ Closed(S) =>
           \A b \in live : /\ kind[b] \in Followed /\ target[b] = wrapper => parent[b] \in S
                           /\ wrapper \in ToSet(list[b]) => b \in S

(* A do..while in a list has one in-edge and one out-edge at most, those   *)
(* to be restored included.                                                *)
Listed(w) == kind[w] = "dowhile" /\ parent[w] # NoBlock /\ kind[parent[w]] = "list"

FewEdges ==
  /\ \A w \in live : Listed(w) =>
       /\ \A a, b \in In(w) : a = b
       /\ \A a, b \in Out(w) : a = b
       /\ w \notin In(w)
       /\ w \in outof => In(w) = {}
       /\ w \in into => Out(w) = {}
  /\ wrapper \notin into \cup outof
  /\ pc = "in" => slot = 1 \/ (slot = 2 /\ In(wrapper) = {})
  /\ pc = "out" => In(wrapper) = {} /\ (slot = 1 \/ (slot = 2 /\ Out(wrapper) = {}))
  /\ Replacing => In(wrapper) = {} /\ Out(wrapper) = {}

IInv ==
  /\ TypeOK
  /\ OnlyOverlookedDangle
  /\ Tree
  /\ Wrapped
  /\ Rooted
  /\ Pending
  /\ FewEdges

-----------------------------------------------------------------------------
(* What a structure is *)
LEMMA GivenFacts ==
  ASSUME job \in Jobs
  PROVE  fn \in Structures /\ IsStructure(fn) /\ kind \in [Block -> Kinds]
BY StructureAssumption DEF fn, kind, Structures

(* In a list, each component has one predecessor and one successor.        *)
LEMMA Neighbours ==
  ASSUME NEW s \in Structures, NEW g \in Block,
         IsInjective(s.list[g]), Len(s.list[g]) >= 2
  PROVE  \A a, b, w :
           /\ Follows(s, g, <<a, w>>) /\ Follows(s, g, <<b, w>>) => a = b
           /\ Follows(s, g, <<w, a>>) /\ Follows(s, g, <<w, b>>) => a = b
           /\ ~Follows(s, g, <<w, w>>)
<1> DEFINE L == s.list[g]
           n == Len(L)
           At(a, w) == \/ \E i \in 2..n : a = L[i - 1] /\ w = L[i]
                       \/ a = L[n] /\ w = L[1]
<1>1. L \in Seq(Block) /\ n \in Nat /\ n >= 2
  BY LenProperties DEF Structures
<1>2. \A i, j \in 1..n : L[i] = L[j] => i = j
  BY <1>1, LenProperties DEF IsInjective
<1>3. \A a, w : Follows(s, g, <<a, w>>) => At(a, w)
  BY <1>1 DEF Follows, Last
<1> HIDE DEF L, n
<1>4. \A i \in 2..n : i \in 1..n /\ i - 1 \in 1..n /\ i - 1 # i /\ i # 1 /\ i - 1 # n
  BY <1>1
<1>5. 1 \in 1..n /\ n \in 1..n /\ n # 1
  BY <1>1
<1>6. \A i, j \in 2..n : i - 1 = j - 1 => i = j
  BY <1>1
<1>7. ASSUME NEW a, NEW b, NEW w, At(a, w), At(b, w) PROVE a = b
  BY <1>2, <1>4, <1>5, <1>7
<1>8. ASSUME NEW a, NEW b, NEW w, At(w, a), At(w, b) PROVE a = b
  BY <1>2, <1>4, <1>5, <1>6, <1>8
<1>9. ASSUME NEW w PROVE ~At(w, w)
  BY <1>2, <1>4, <1>5
<1> HIDE DEF At
<1> QED BY <1>3, <1>7, <1>8, <1>9

(* At first every edge is one of the program's. *)
LEMMA InitInv == Init => IInv
<1> SUFFICES ASSUME Init PROVE IInv
  OBVIOUS
<1>1. /\ job \in Jobs /\ live = Present(fn) /\ todo = fn.loops /\ pc = "idle"
      /\ parent = fn.parent /\ list = fn.list /\ target = fn.target /\ edges = fn.edges
      /\ body = NoBlock /\ wrapper = NoBlock /\ into = {} /\ outof = {} /\ graphs = {} /\ slot = 1
  BY DEF Init
<1>2. fn \in Structures /\ IsStructure(fn) /\ IsTree(fn) /\ kind = fn.kind
  BY <1>1, GivenFacts DEF IsStructure, kind
<1>3. live \in SUBSET Block /\ Root \in live
  BY <1>1, <1>2, StructureAssumption DEF Present
<1>4. TypeOK
  BY <1>1, <1>2, <1>3 DEF TypeOK, Structures
<1>5. \A g \in Block : ToSet(list[g]) \subseteq Block
  BY <1>4, ElementsOf DEF TypeOK
<1>6. \A b \in Block : parent[b] # NoBlock => b \in live
  BY <1>1 DEF Present
<1>7. \A e \in edges : e[1] \in Block /\ e[2] \in Block /\ e = <<e[1], e[2]>>
  BY <1>4 DEF TypeOK
<1>8. \A e \in edges : e[1] \in live /\ e[2] \in live
  BY <1>1, <1>2, <1>6, <1>7 DEF IsStructure
<1>9. OnlyOverlookedDangle
  <2>1. ASSUME NEW b \in live PROVE {parent[b], target[b]} \subseteq live \cup {NoBlock}
    BY <1>1, <1>2, <1>3 DEF IsStructure, IsTree
  <2>2. ASSUME NEW b \in live, NEW x \in ToSet(list[b]) PROVE x \in live
    <3>1. x \in Block /\ parent[x] = b
      BY <1>1, <1>2, <1>3, <1>5 DEF IsTree
    <3>2. b # NoBlock
      BY <1>3, StructureAssumption
    <3> QED BY <1>6, <3>1, <3>2
  <2> QED BY <1>1, <1>8, <2>1, <2>2 DEF OnlyOverlookedDangle
<1>10. Tree
  <2>1. todo \subseteq live /\ \A b \in todo : kind[b] = "copy"
    BY <1>1, <1>2, <1>8 DEF IsStructure
  <2>2. \A b \in live \ {Root} : parent[b] # NoBlock
    BY <1>1 DEF Present
  <2> QED BY <1>1, <1>2, <1>3, <2>1, <2>2 DEF Tree, IsStructure, IsTree
<1>11. Wrapped
  BY <1>1 DEF Wrapped
<1>12. Rooted
  BY <1>1, <1>2 DEF Rooted, Closed, IsTree
<1>13. Pending
  BY <1>1 DEF Pending
<1>14. FewEdges
  <2>1. ASSUME NEW w \in live, Listed(w)
        PROVE  (\A a, b \in In(w) : a = b) /\ (\A a, b \in Out(w) : a = b) /\ w \notin In(w)
    <3> DEFINE g == parent[w]
    <3>1. g \in live /\ g \in Block /\ kind[g] = "list"
      BY <1>3, <1>9, <2>1 DEF Listed, OnlyOverlookedDangle
    <3>2. IsInjective(fn.list[g]) /\ Len(fn.list[g]) >= 2
      BY <1>1, <1>2, <3>1 DEF IsStructure
    <3>3. \A a \in In(w) : Follows(fn, g, <<a, w>>)
      BY <1>1, <1>2, <3>1 DEF In, IsStructure
    <3>4. \A a \in Out(w) : Follows(fn, g, <<w, a>>)
      BY <1>1, <1>2, <3>1 DEF Out, IsStructure
    <3> QED BY <1>2, <3>1, <3>2, <3>3, <3>4, Neighbours
  <2> QED BY <1>1, <2>1 DEF FewEdges, Replacing
<1> QED BY <1>4, <1>9, <1>10, <1>11, <1>12, <1>13, <1>14 DEF IInv

(* A block that exists is none of the null pointers. *)
LEMMA Types ==
  ASSUME IInv
  PROVE  /\ job \in Jobs /\ kind \in [Block -> Kinds]
         /\ live \subseteq Block /\ NoBlock \notin live /\ Root \in Block
BY GivenFacts, StructureAssumption DEF IInv, TypeOK

(* A function keeps the kinds of its blocks. *)
LEMMA Frame ==
  ASSUME UNCHANGED job
  PROVE  kind' = kind /\ fn' = fn
BY DEF kind, fn

(* The wrapper, its body and the list it is in are three blocks. *)
LEMMA WrapperFacts ==
  ASSUME IInv, pc # "idle"
  PROVE  /\ body \in live /\ wrapper \in live /\ Lsb \in live
         /\ body # wrapper /\ Lsb # wrapper /\ Lsb # body
         /\ Listed(wrapper)
<1>1. NoBlock \notin live
  BY Types
<1> QED BY <1>1 DEF IInv, Wrapped, Listed, Lsb

(* A sequence of one element at most that holds b *)
LEMMA OnlyElement ==
  ASSUME NEW S, NEW s \in Seq(S), Len(s) <= 1, NEW b \in ToSet(s)
  PROVE  s = <<b>>
<1> DEFINE n == Len(s)
<1>1. n \in Nat /\ n <= 1 /\ \E i \in 1..n : s[i] = b
  BY ElementsOf
<1> HIDE DEF n
<1>2. n = 1 /\ s[1] = b
  BY <1>1
<1> QED BY <1>2 DEF n

(* A do..while that is not in a list stays. *)
LEMMA LeaveStep == IInv /\ LeaveAlone => IInv'
<1> SUFFICES ASSUME IInv, LeaveAlone PROVE IInv'
  OBVIOUS
<1>1. /\ UNCHANGED <<job, parent, list, target, edges, live, body, wrapper, into, outof, slot, graphs, pc>>
      /\ todo' \subseteq todo
  BY DEF LeaveAlone, tree, local, saved
<1>2. kind' = kind /\ fn' = fn
  BY <1>1, Frame
<1>3. TypeOK' /\ OnlyOverlookedDangle'
  BY <1>1, <1>2 DEF IInv, TypeOK, OnlyOverlookedDangle, Overlooked
<1>4. Tree'
  BY <1>1, <1>2 DEF IInv, Tree, Replacing
<1>5. Wrapped'
  BY <1>1, <1>2 DEF IInv, Wrapped, Replacing, Lsb
<1>6. Rooted' /\ Pending'
  BY <1>1, <1>2 DEF IInv, Rooted, Pending, Closed, Replacing
<1>7. FewEdges'
  BY <1>1, <1>2 DEF IInv, FewEdges, Listed, In, Out, Replacing
<1> QED BY <1>3, <1>4, <1>5, <1>6, <1>7 DEF IInv

(* The body of a do..while in a list is all it holds. *)
LEMMA StartStep == IInv /\ Start => IInv'
<1> SUFFICES ASSUME IInv, Start PROVE IInv'
  OBVIOUS
<1>1. /\ UNCHANGED <<job, parent, list, target, edges, live, graphs>>
      /\ pc = "idle" /\ pc' = "in" /\ into' = {} /\ outof' = {} /\ slot' = 1
  BY DEF Start, tree
<1>2. PICK b \in todo : Removable(b) /\ body' = b /\ wrapper' = parent[b] /\ todo' = todo \ {b}
  BY DEF Start
<1> DEFINE w == parent[b]
<1>3. kind' = kind /\ fn' = fn /\ live \subseteq Block /\ NoBlock \notin live
  BY <1>1, Frame, Types
<1>4. b \in live /\ kind[b] = "copy" /\ b # Root
  BY DEF IInv, Tree
<1>5. w \in live /\ kind[w] = "dowhile" /\ parent[w] \in live /\ kind[parent[w]] = "list"
  BY <1>2, <1>4 DEF IInv, Tree, OnlyOverlookedDangle, Removable
<1>6. list[w] = <<b>>
  <2>1. b \in ToSet(list[w]) /\ Len(list[w]) <= 1
    BY <1>1, <1>3, <1>4, <1>5 DEF IInv, Tree, Replacing
  <2> QED BY <1>3, <1>5, <2>1, OnlyElement DEF IInv, TypeOK
<1>7. TypeOK'
  BY <1>1, <1>2, <1>3, <1>4, <1>5 DEF IInv, TypeOK
<1>8. OnlyOverlookedDangle'
  BY <1>1, <1>2, <1>3, <1>4, <1>5 DEF IInv, OnlyOverlookedDangle, Overlooked
<1>9. Tree'
  BY <1>1, <1>2, <1>3 DEF IInv, Tree, Replacing
<1>10. Wrapped'
  BY <1>1, <1>2, <1>3, <1>4, <1>5, <1>6 DEF Wrapped, Replacing, Lsb
<1>11. Rooted' /\ Pending'
  BY <1>1, <1>3 DEF IInv, Rooted, Pending, Closed, Replacing
<1>12. FewEdges'
  BY <1>1, <1>3 DEF IInv, FewEdges, Listed, In, Out, Replacing
<1> QED BY <1>7, <1>8, <1>9, <1>10, <1>11, <1>12 DEF IInv

(* Taking edges away disturbs neither the tree nor the recursion.          *)
LEMMA EdgeStep ==
  ASSUME IInv, pc \in {"in", "out"}, pc' \in {"in", "out"}, edges' \subseteq edges,
         UNCHANGED <<job, parent, list, target, live, todo, body, wrapper, graphs>>,
         into' \cup outof' \subseteq live
  PROVE  /\ kind' = kind /\ OnlyOverlookedDangle' /\ Tree' /\ Wrapped' /\ Rooted' /\ Pending'
         /\ \A w : Listed(w)' = Listed(w) /\ In(w)' \subseteq In(w) /\ Out(w)' \subseteq Out(w)
<1>1. kind' = kind /\ fn' = fn
  BY Frame
<1>2. OnlyOverlookedDangle'
  BY <1>1 DEF IInv, OnlyOverlookedDangle, Overlooked
<1>3. Tree'
  BY <1>1 DEF IInv, Tree, Replacing
<1>4. Wrapped'
  BY <1>1 DEF IInv, Wrapped, Replacing, Lsb
<1>5. Rooted' /\ Pending'
  BY <1>1 DEF IInv, Rooted, Pending, Closed, Replacing
<1>6. \A w : Listed(w)' = Listed(w) /\ In(w)' \subseteq In(w) /\ Out(w)' \subseteq Out(w)
  BY <1>1 DEF Listed, In, Out
<1> QED BY <1>1, <1>2, <1>3, <1>4, <1>5, <1>6

(* The index is beyond the one edge there may be. *)
LEMMA NoneLeft ==
  ASSUME NEW S, \A a, b \in S : a = b, 1 > Cardinality(S)
  PROVE  S = {}
<1> SUFFICES ASSUME NEW a \in S PROVE FALSE
  OBVIOUS
<1>1. S = {a}
  OBVIOUS
<1>2. Cardinality({a}) = 1
  BY FS_Singleton
<1> QED BY <1>1, <1>2

(* The in-edge, if there is one, is removed and remembered. *)
LEMMA InEdgeStep == IInv /\ (RemoveInEdge \/ InEdgesDone) => IInv'
<1>1. ASSUME IInv, RemoveInEdge PROVE IInv'
  <2>1. /\ pc = "in" /\ pc' = "in" /\ slot' = slot + 1 /\ outof' = outof
        /\ UNCHANGED <<job, parent, list, target, live, todo, body, wrapper, graphs>>
    BY <1>1 DEF RemoveInEdge, local
  <2>2. PICK b \in In(wrapper) : into' = into \cup {b} /\ edges' = edges \ {<<b, wrapper>>}
    BY <1>1 DEF RemoveInEdge
  <2>3. b \in live /\ b \in Block /\ <<b, wrapper>> \in edges
    BY <1>1, <2>2, Types DEF In, IInv, OnlyOverlookedDangle
  <2>4. wrapper \in live /\ Listed(wrapper)
    BY <1>1, <2>1, WrapperFacts
  <2>5. slot = 1 /\ b # wrapper
    BY <1>1, <2>1, <2>2, <2>4 DEF IInv, FewEdges
  <2>6. TypeOK'
    BY <1>1, <2>1, <2>2, <2>3, <2>5 DEF IInv, TypeOK
  <2>7. into' \cup outof' \subseteq live
    BY <1>1, <2>1, <2>2, <2>3 DEF IInv, OnlyOverlookedDangle
  <2>8. /\ OnlyOverlookedDangle' /\ Tree' /\ Wrapped' /\ Rooted' /\ Pending'
        /\ \A w : Listed(w)' = Listed(w) /\ In(w)' \subseteq In(w) /\ Out(w)' \subseteq Out(w)
    BY <1>1, <2>1, <2>2, <2>7, EdgeStep
  <2>9. In(wrapper)' = {}
    <3> SUFFICES ASSUME NEW a \in In(wrapper)' PROVE FALSE
      OBVIOUS
    <3>1. a \in In(wrapper) /\ a # b
      BY <2>1, <2>2 DEF In
    <3> QED BY <1>1, <2>2, <2>4, <3>1 DEF IInv, FewEdges
  <2>10. Listed(b) => Out(b)' = {}
    <3> SUFFICES ASSUME Listed(b), NEW a \in Out(b), a # wrapper PROVE FALSE
      BY <2>1, <2>2 DEF Out
    <3>1. wrapper \in Out(b)
      BY <2>3, <2>4, <1>1, Types DEF Out
    <3> QED BY <1>1, <2>3, <3>1 DEF IInv, FewEdges
  <2>11. FewEdges'
    BY <1>1, <2>1, <2>2, <2>5, <2>8, <2>9, <2>10 DEF IInv, FewEdges, Replacing
  <2> QED BY <2>6, <2>8, <2>11 DEF IInv
<1>2. ASSUME IInv, InEdgesDone PROVE IInv'
  <2>1. /\ pc = "in" /\ pc' = "out" /\ slot' = 1
        /\ UNCHANGED <<job, parent, list, target, live, todo, body, wrapper, graphs, edges, into, outof>>
    BY <1>2 DEF InEdgesDone, tree, local, saved
  <2>2. TypeOK'
    BY <1>2, <2>1 DEF IInv, TypeOK
  <2>3. into' \cup outof' \subseteq live
    BY <1>2, <2>1 DEF IInv, OnlyOverlookedDangle
  <2>4. kind' = kind /\ OnlyOverlookedDangle' /\ Tree' /\ Wrapped' /\ Rooted' /\ Pending'
    BY <1>2, <2>1, <2>3, EdgeStep
  <2>5. In(wrapper) = {}
    <3>1. \A a, b \in In(wrapper) : a = b
      BY <1>2, <2>1, WrapperFacts DEF IInv, FewEdges
    <3>2. slot = 1 \/ In(wrapper) = {}
      BY <1>2, <2>1 DEF IInv, FewEdges
    <3>3. CASE slot = 1
      <4>1. 1 > Cardinality(In(wrapper))
        BY <1>2, <3>3 DEF InEdgesDone
      <4> QED BY <3>1, <4>1, NoneLeft
    <3> QED BY <3>2, <3>3
  <2>6. FewEdges'
    BY <1>2, <2>1, <2>4, <2>5 DEF IInv, FewEdges, Listed, In, Out, Replacing
  <2> QED BY <2>2, <2>4, <2>6 DEF IInv
<1> QED BY <1>1, <1>2

(* So is the out-edge. *)
LEMMA OutEdgeStep == IInv /\ RemoveOutEdge => IInv'
<1> SUFFICES ASSUME IInv, RemoveOutEdge PROVE IInv'
  OBVIOUS
<1>1. /\ pc = "out" /\ pc' = "out" /\ slot' = slot + 1 /\ into' = into
      /\ UNCHANGED <<job, parent, list, target, live, todo, body, wrapper, graphs>>
  BY DEF RemoveOutEdge, local
<1>2. PICK b \in Out(wrapper) : outof' = outof \cup {b} /\ edges' = edges \ {<<wrapper, b>>}
  BY DEF RemoveOutEdge
<1>3. b \in live /\ b \in Block /\ <<wrapper, b>> \in edges
  BY <1>2, Types DEF Out, IInv, OnlyOverlookedDangle
<1>4. wrapper \in live /\ Listed(wrapper)
  BY <1>1, WrapperFacts
<1>5. slot = 1 /\ b # wrapper
  <2>1. slot = 1
    BY <1>1, <1>2 DEF IInv, FewEdges
  <2>2. b = wrapper => wrapper \in In(wrapper)
    BY <1>3 DEF In
  <2> QED BY <1>4, <2>1, <2>2 DEF IInv, FewEdges
<1>6. TypeOK'
  BY <1>1, <1>2, <1>3, <1>5 DEF IInv, TypeOK
<1>7. into' \cup outof' \subseteq live
  BY <1>1, <1>2, <1>3 DEF IInv, OnlyOverlookedDangle
<1>8. /\ OnlyOverlookedDangle' /\ Tree' /\ Wrapped' /\ Rooted' /\ Pending'
      /\ \A w : Listed(w)' = Listed(w) /\ In(w)' \subseteq In(w) /\ Out(w)' \subseteq Out(w)
  BY <1>1, <1>2, <1>7, EdgeStep
<1>9. Out(wrapper)' = {}
  <2> SUFFICES ASSUME NEW a \in Out(wrapper)' PROVE FALSE
    OBVIOUS
  <2>1. a \in Out(wrapper) /\ a # b
    BY <1>1, <1>2 DEF Out
  <2> QED BY <1>2, <1>4, <2>1 DEF IInv, FewEdges
<1>10. Listed(b) => In(b)' = {}
  <2> SUFFICES ASSUME Listed(b), NEW a \in In(b), a # wrapper PROVE FALSE
    BY <1>1, <1>2 DEF In
  <2>1. wrapper \in In(b)
    BY <1>3, <1>4, Types DEF In
  <2> QED BY <1>3, <2>1 DEF IInv, FewEdges
<1>11. FewEdges'
  BY <1>1, <1>2, <1>5, <1>8, <1>9, <1>10 DEF IInv, FewEdges, Replacing
<1> QED BY <1>6, <1>8, <1>11 DEF IInv

(* All blocks are still below the root when replaceBlock begins there.     *)
LEMMA SelfEdgeStep == IInv /\ RemoveSelfEdge => IInv'
<1> SUFFICES ASSUME IInv, RemoveSelfEdge PROVE IInv'
  OBVIOUS
<1>1. /\ pc = "out" /\ pc' = "replace" /\ graphs' = {Root}
      /\ edges' = edges \ {<<body, body>>}
      /\ parent' = [parent EXCEPT ![body] = parent[wrapper]]
      /\ UNCHANGED <<job, list, target, live, todo, body, wrapper, into, outof, slot>>
  BY DEF RemoveSelfEdge, local, saved
<1>2. /\ body \in live /\ wrapper \in live /\ Lsb \in live
      /\ body # wrapper /\ Lsb # wrapper /\ Listed(wrapper)
  BY <1>1, WrapperFacts
<1>3. kind' = kind /\ fn' = fn /\ live \subseteq Block /\ NoBlock \notin live
  BY <1>1, Frame, Types
<1>4. parent \in [Block -> Block \cup {NoBlock}] /\ body \in Block
  BY <1>2, <1>3 DEF IInv, TypeOK
<1>5. parent'[body] = Lsb /\ Lsb' = Lsb /\ \A b \in Block : b # body => parent'[b] = parent[b]
  BY <1>1, <1>2, <1>3, <1>4 DEF Lsb
<1>6. TypeOK'
  <2>1. parent[wrapper] \in Block \cup {NoBlock} /\ {Root} \in SUBSET Block
    BY <1>2, <1>3, <1>4, Types
  <2>2. parent' \in [Block -> Block \cup {NoBlock}]
    BY <1>1, <1>4, <2>1
  <2> QED BY <1>1, <2>1, <2>2 DEF IInv, TypeOK
<1>7. OnlyOverlookedDangle'
  BY <1>1, <1>2, <1>3, <1>5 DEF IInv, OnlyOverlookedDangle, Overlooked
<1>8. Tree'
  BY <1>1, <1>2, <1>3, <1>5 DEF IInv, Tree, Replacing
<1>9. Wrapped'
  <2>1. wrapper \in ToSet(list[Lsb])
    BY <1>1, <1>2, <1>3 DEF IInv, Tree, Lsb, Replacing
  <2> QED BY <1>1, <1>3, <1>5, <2>1 DEF IInv, Wrapped, Replacing
<1>10. Rooted'
  BY <1>1 DEF IInv, Rooted, Closed, Replacing
<1>11. Pending'
  <2>1. ASSUME NEW S \in SUBSET live, {Root} \subseteq S, Closed(S) PROVE live \subseteq S
    BY <1>1, <2>1 DEF IInv, Rooted, Replacing
  <2>2. ASSUME NEW b \in live, kind[b] \in Followed, target[b] = wrapper PROVE parent'[b] \in live
    <3>1. b # Root
      BY <2>2 DEF IInv, Tree, Followed
    <3>2. parent[b] \in live
      BY <3>1 DEF IInv, Tree, OnlyOverlookedDangle
    <3> QED BY <1>2, <1>3, <1>5, <3>2
  <2>3. {Root} \subseteq live
    BY DEF IInv, Tree
  <2> QED BY <1>1, <1>3, <2>1, <2>2, <2>3 DEF Pending, Closed
<1>12. FewEdges'
  <2>1. \A w \in live : Listed(w)' => Listed(w)
    BY <1>1, <1>2, <1>3, <1>5 DEF Listed, IInv, Wrapped
  <2>2. \A w : In(w)' \subseteq In(w) /\ Out(w)' \subseteq Out(w)
    BY <1>1 DEF In, Out
  <2>3. Out(wrapper) = {}
    <3>1. \A a, b \in Out(wrapper) : a = b
      BY <1>2 DEF IInv, FewEdges
    <3>2. slot = 1 \/ Out(wrapper) = {}
      BY <1>1 DEF IInv, FewEdges
    <3>3. CASE slot = 1
      <4>1. 1 > Cardinality(Out(wrapper))
        BY <3>3 DEF RemoveSelfEdge
      <4> QED BY <3>1, <4>1, NoneLeft
    <3> QED BY <3>2, <3>3
  <2> QED BY <1>1, <2>1, <2>2, <2>3 DEF IInv, FewEdges, Replacing
<1> QED BY <1>6, <1>7, <1>8, <1>9, <1>10, <1>11, <1>12 DEF IInv

(* Replacing the wrapper in a sequence *)
LEMMA InsteadFacts ==
  ASSUME NEW s \in Seq(Block), body \in Block
  PROVE  LET t == [i \in DOMAIN s |-> Instead(s[i])]
         IN /\ t \in Seq(Block) /\ Len(t) = Len(s)
            /\ \A b \in ToSet(t) : b = body \/ b \in ToSet(s)
            /\ \A b \in ToSet(s) : b # wrapper => b \in ToSet(t)
            /\ wrapper \in ToSet(s) => body \in ToSet(t)
            /\ wrapper # body => wrapper \notin ToSet(t)
<1> DEFINE n == Len(s)
           t == [i \in 1..n |-> Instead(s[i])]
<1>1. n \in Nat /\ DOMAIN s = 1..n /\ \A i \in 1..n : s[i] \in Block
  BY ElementsOf
<1> HIDE DEF n
<1>2. t \in [1..n -> Block]
  BY <1>1 DEF Instead
<1>3. t \in Seq(Block) /\ Len(t) = n /\ DOMAIN t = 1..n
  BY <1>1, <1>2, SeqDef, LenProperties
<1>4. \A i \in 1..n : t[i] = Instead(s[i])
  OBVIOUS
<1>5. t = [i \in DOMAIN s |-> Instead(s[i])]
  BY <1>1
<1> HIDE DEF t
<1>6. /\ \A b \in ToSet(t) : b = body \/ b \in ToSet(s)
      /\ wrapper # body => wrapper \notin ToSet(t)
  BY <1>1, <1>3, <1>4 DEF ToSet, Instead
<1>7. /\ \A b \in ToSet(s) : b # wrapper => b \in ToSet(t)
      /\ wrapper \in ToSet(s) => body \in ToSet(t)
  BY <1>1, <1>3, <1>4 DEF ToSet, Instead
<1> QED BY <1>3, <1>5, <1>6, <1>7 DEF n

(* replaceBlock in one BlockGraph: what that one holds need not be looked  *)
(* at again.                                                               *)
LEMMA ReplaceStep == IInv /\ ReplaceIn => IInv'
<1> SUFFICES ASSUME IInv, ReplaceIn PROVE IInv'
  OBVIOUS
<1>1. /\ pc = "replace" /\ pc' = "replace"
      /\ UNCHANGED <<job, parent, edges, live, todo, body, wrapper, into, outof, slot>>
  BY DEF ReplaceIn, local, saved
<1>2. PICK g \in graphs :
        /\ list' = [list EXCEPT ![g] = [i \in DOMAIN @ |-> Instead(@[i])]]
        /\ target' = Retargeted(g)
        /\ graphs' = (graphs \ {g}) \cup {b \in ToSet(list[g]) : kind[b] # "copy"}
  BY DEF ReplaceIn
<1>3. /\ body \in live /\ wrapper \in live /\ Lsb \in live
      /\ body # wrapper /\ Lsb # wrapper
      /\ kind[body] = "copy" /\ kind[wrapper] = "dowhile" /\ list[wrapper] = <<body>>
      /\ parent[body] = Lsb
  BY <1>1, WrapperFacts DEF IInv, Wrapped, Replacing
<1>4. kind' = kind /\ fn' = fn /\ live \subseteq Block /\ NoBlock \notin live /\ Root \in Block
  BY <1>1, Frame, Types
<1>5. g \in live /\ g \in Block /\ list \in [Block -> Seq(Block)] /\ list[g] \in Seq(Block)
  BY <1>2, <1>4 DEF IInv, TypeOK, Pending
<1> DEFINE t == [i \in DOMAIN list[g] |-> Instead(list[g][i])]
<1>6. /\ t \in Seq(Block) /\ Len(t) = Len(list[g])
      /\ \A b \in ToSet(t) : b = body \/ b \in ToSet(list[g])
      /\ \A b \in ToSet(list[g]) : b # wrapper => b \in ToSet(t)
      /\ wrapper \in ToSet(list[g]) => body \in ToSet(t)
      /\ wrapper \notin ToSet(t)
  BY <1>3, <1>4, <1>5, InsteadFacts
<1>7. list' = [list EXCEPT ![g] = t]
  BY <1>2
<1> HIDE DEF t
<1>8. list' \in [Block -> Seq(Block)] /\ list'[g] = t /\ \A x \in Block : x # g => list'[x] = list[x]
  BY <1>5, <1>6, <1>7
<1>9. \A x \in Block : /\ Len(list'[x]) = Len(list[x])
                       /\ \A b \in ToSet(list'[x]) : b = body \/ b \in ToSet(list[x])
                       /\ \A b \in ToSet(list[x]) : b = wrapper \/ b \in ToSet(list'[x])
  BY <1>6, <1>8
<1>10. \A b \in Block :
         \/ target'[b] = target[b]
         \/ target'[b] = body /\ target[b] = wrapper /\ b \in ToSet(list[g]) /\ kind[b] \in Followed
  BY <1>2 DEF Retargeted, Instead
<1>11. \A b \in ToSet(list[g]) : kind[b] \in Followed /\ b \in Block => target'[b] # wrapper
  BY <1>2, <1>3 DEF Retargeted, Instead
<1>12. TypeOK'
  <2>1. target' \in [Block -> Block \cup {NoBlock}]
    BY <1>2, <1>3, <1>4 DEF Retargeted, Instead, IInv, TypeOK
  <2>2. graphs' \in SUBSET Block
    BY <1>2, <1>5, ElementsOf DEF IInv, TypeOK
  <2> QED BY <1>1, <1>8, <2>1, <2>2 DEF IInv, TypeOK
<1>13. OnlyOverlookedDangle'
  <2>1. ASSUME NEW b \in live
        PROVE  parent[b] \in live \cup {NoBlock} /\ (target'[b] \in live \cup {NoBlock} \/ Overlooked(b)')
    <3>1. /\ parent[b] \in live \cup {NoBlock}
          /\ target[b] \in live \cup {NoBlock} \/ Overlooked(b)
      BY DEF IInv, OnlyOverlookedDangle
    <3>2. target'[b] = target[b] => Overlooked(b)' = Overlooked(b)
      BY <1>4 DEF Overlooked
    <3> QED BY <1>3, <1>4, <1>10, <3>1, <3>2
  <2>2. ASSUME NEW b \in live PROVE ToSet(list'[b]) \subseteq live
    BY <1>3, <1>4, <1>9 DEF IInv, OnlyOverlookedDangle
  <2> QED BY <1>1, <2>1, <2>2 DEF IInv, OnlyOverlookedDangle
<1>14. Tree'
  <2>1. ASSUME NEW b \in live, kind[b] = "copy" PROVE list'[b] = <<>>
    <3>1. list[b] = <<>>
      BY <2>1 DEF IInv, Tree
    <3>2. Len(list'[b]) = 0 /\ list'[b] \in Seq(Block)
      BY <1>4, <1>8, <1>9, <3>1
    <3> QED BY <3>2, EmptySeq
  <2>2. ASSUME NEW b \in live, kind[b] = "dowhile" PROVE Len(list'[b]) <= 1
    BY <1>4, <1>9, <2>2 DEF IInv, Tree
  <2>3. ASSUME NEW b \in live
        PROVE  parent[b] = NoBlock \/ b \in ToSet(list'[parent[b]]) \/ b \in {wrapper, body}
    <3>1. parent[b] \in live \cup {NoBlock}
      BY DEF IInv, OnlyOverlookedDangle
    <3> QED BY <1>4, <1>9, <3>1 DEF IInv, Tree
  <2>4. ASSUME NEW b \in live
        PROVE  /\ target'[b] # NoBlock => kind[b] \in Followed \cup Multiway
               /\ kind[b] \in Multiway => target'[b] = fn.target[b]
    BY <1>3, <1>4, <1>10 DEF IInv, Tree, Followed, Multiway
  <2> QED BY <1>1, <1>4, <2>1, <2>2, <2>3, <2>4 DEF IInv, Tree, Replacing
<1>15. Wrapped'
  <2>1. list'[wrapper] = <<body>>
    <3>1. wrapper \in Block /\ body \in ToSet(list[wrapper]) /\ Len(list[wrapper]) <= 1
      BY <1>3, <1>4 DEF ToSet
    <3>2. body \in ToSet(list'[wrapper]) /\ Len(list'[wrapper]) <= 1
      BY <1>3, <1>9, <3>1
    <3> QED BY <1>8, <3>1, <3>2, OnlyElement
  <2>2. body \in ToSet(list'[Lsb]) \/ wrapper \in ToSet(list'[Lsb])
    <3>1. Lsb \in Block /\ (body \in ToSet(list[Lsb]) \/ wrapper \in ToSet(list[Lsb]))
      BY <1>1, <1>3, <1>4 DEF IInv, Wrapped
    <3>2. CASE Lsb = g
      BY <1>3, <1>6, <1>8, <3>1, <3>2
    <3>3. CASE Lsb # g
      BY <1>8, <3>1, <3>3
    <3> QED BY <3>2, <3>3
  <2>3. Lsb' = Lsb
    BY <1>1 DEF Lsb
  <2> QED BY <1>1, <1>4, <2>1, <2>2, <2>3 DEF IInv, Wrapped, Replacing
<1>16. Rooted'
  <2> SUFFICES ASSUME NEW S \in SUBSET live, Root \in S, \A x \in S : ToSet(list'[x]) \subseteq S, wrapper \in S
               PROVE  live \subseteq S
    BY <1>1 DEF Rooted, Closed, Replacing
  <2>1. Closed(S)
    BY <1>4, <1>9 DEF Closed
  <2> QED BY <2>1 DEF IInv, Rooted
<1>17. Pending'
  <2>1. graphs' \subseteq live
    BY <1>2, <1>5 DEF IInv, Pending, OnlyOverlookedDangle
  <2>2. ASSUME NEW S \in SUBSET live, graphs' \subseteq S, \A x \in S : ToSet(list'[x]) \subseteq S,
               NEW b \in live
        PROVE  /\ kind[b] \in Followed /\ target'[b] = wrapper => parent[b] \in S
               /\ wrapper \in ToSet(list'[b]) => b \in S
    <3> DEFINE T == S \cup {g} \cup {x \in live : kind[x] = "copy"}
    <3>1. T \in SUBSET live /\ graphs \subseteq T
      BY <1>2, <1>5, <2>2
    <3>2. \A x \in live : kind[x] = "copy" => ToSet(list[x]) = {}
      <4>1. ToSet(<<>>) = {}
        BY DEF ToSet
      <4> QED BY <4>1 DEF IInv, Tree
    <3> HIDE DEF T
    <3>3. Closed(T)
      <4>1. ToSet(list[g]) \subseteq T
        BY <1>2, <1>5, <2>2 DEF IInv, OnlyOverlookedDangle, T
      <4>2. ASSUME NEW x \in S, x # g PROVE ToSet(list[x]) \subseteq T
        BY <1>4, <1>8, <2>2, <4>2 DEF T
      <4> QED BY <3>2, <4>1, <4>2 DEF Closed, T
    <3>4. /\ kind[b] \in Followed /\ target[b] = wrapper => parent[b] \in T
          /\ wrapper \in ToSet(list[b]) => b \in T
      BY <1>1, <3>1, <3>3 DEF IInv, Pending
    <3>5. \A x \in live : x \in T /\ x # g /\ ToSet(list[x]) # {} => x \in S
      BY <3>2 DEF T
    <3>6. ASSUME kind[b] \in Followed, target'[b] = wrapper PROVE parent[b] \in S
      <4>1. target[b] = wrapper
        BY <1>3, <1>4, <1>10, <3>6
      <4>2. kind[b] \in Followed /\ kind[b] \notin {"graph", "copy", "dowhile"}
        BY <3>6 DEF Followed
      <4>3. parent[b] \in live
        BY <1>4, <4>2 DEF IInv, Tree, OnlyOverlookedDangle
      <4>4. b \in ToSet(list[parent[b]])
        BY <1>3, <1>4, <4>2, <4>3 DEF IInv, Tree
      <4>5. parent[b] # g
        BY <1>4, <1>11, <3>6, <4>2, <4>4
      <4> QED BY <3>4, <3>5, <4>1, <4>2, <4>3, <4>4, <4>5
    <3>7. ASSUME wrapper \in ToSet(list'[b]) PROVE b \in S
      <4>1. b # g
        BY <1>6, <1>8, <3>7
      <4>2. wrapper \in ToSet(list[b])
        BY <1>4, <1>8, <3>7, <4>1
      <4> QED BY <3>4, <3>5, <4>1, <4>2
    <3> QED BY <3>6, <3>7
  <2> QED BY <1>1, <1>4, <2>1, <2>2 DEF Pending, Closed
<1>18. FewEdges'
  BY <1>1, <1>4 DEF IInv, FewEdges, Listed, In, Out, Replacing
<1> QED BY <1>12, <1>13, <1>14, <1>15, <1>16, <1>17, <1>18 DEF IInv

(* A sequence loses its only element. *)
LEMMA RemoveOnly == \A b : RemoveFirst(<<b>>, b) = <<>>
<1> SUFFICES ASSUME NEW b PROVE RemoveFirst(<<b>>, b) = <<>>
  OBVIOUS
<1> DEFINE s == <<b>>
           I == {i \in 1..Len(s) : s[i] = b}
<1>1. s \in Seq({b}) /\ Len(s) = 1 /\ s[1] = b
  OBVIOUS
<1>2. I = {1}
  BY <1>1
<1>3. Min({1}) = 1
  BY MinOf
<1>4. RemoveFirst(s, b) = RemoveAt(s, 1)
  BY <1>1, <1>2, <1>3 DEF RemoveFirst, SelectInSeq
<1> HIDE DEF s, I
<1>5. RemoveAt(s, 1) \in Seq({b}) /\ Len(RemoveAt(s, 1)) = 0
  <2>1. 1 \in 1..Len(s) /\ Len(s) - 1 = 0
    BY <1>1
  <2>2. RemoveAt(s, 1) \in Seq({b}) /\ Len(RemoveAt(s, 1)) = Len(s) - 1
    BY <1>1, <2>1, RemoveAtFacts
  <2> QED BY <2>1, <2>2
<1> QED BY <1>4, <1>5, EmptySeq DEF s

(* Nothing refers to the wrapper any more but the wrapper itself.          *)
LEMMA UnlinkStep == IInv /\ Unlink => IInv'
<1> SUFFICES ASSUME IInv, Unlink PROVE IInv'
  OBVIOUS
<1>1. /\ pc = "replace" /\ pc' = "restore" /\ graphs = {} /\ graphs' = {}
      /\ list' = [list EXCEPT ![wrapper] = RemoveFirst(@, body)]
      /\ UNCHANGED <<job, parent, target, edges, live, todo, body, wrapper, into, outof, slot>>
  BY DEF Unlink, local, saved
<1>2. /\ body \in live /\ wrapper \in live /\ Lsb \in live
      /\ body # wrapper /\ Lsb # wrapper /\ Lsb # body
      /\ kind[body] = "copy" /\ kind[wrapper] = "dowhile" /\ list[wrapper] = <<body>>
      /\ parent[body] = Lsb
  BY <1>1, WrapperFacts DEF IInv, Wrapped, Replacing
<1>3. kind' = kind /\ fn' = fn /\ live \subseteq Block /\ NoBlock \notin live
  BY <1>1, Frame, Types
<1>4. list' \in [Block -> Seq(Block)] /\ list'[wrapper] = <<>>
      /\ \A x \in Block : x # wrapper => list'[x] = list[x]
  <2>1. list' = [list EXCEPT ![wrapper] = <<>>]
    BY <1>1, <1>2, <1>3, RemoveOnly DEF IInv, TypeOK
  <2> QED BY <1>2, <1>3, <2>1 DEF IInv, TypeOK
<1>5. ToSet(<<>>) = {} /\ ToSet(<<body>>) = {body}
  BY DEF ToSet
<1>6. \A b \in live : (kind[b] \in Followed => target[b] # wrapper) /\ wrapper \notin ToSet(list[b])
  <2>1. Closed({}) /\ {} \in SUBSET live
    BY DEF Closed
  <2> QED BY <1>1, <2>1 DEF IInv, Pending
<1>7. TypeOK'
  BY <1>1, <1>4 DEF IInv, TypeOK
<1>8. OnlyOverlookedDangle'
  BY <1>1, <1>3, <1>4, <1>5 DEF IInv, OnlyOverlookedDangle, Overlooked
<1>9. Tree'
  <2>1. ASSUME NEW b \in live
        PROVE  parent[b] = NoBlock \/ b \in ToSet(list'[parent[b]]) \/ b \in {wrapper, body}
    <3>1. parent[b] \in live \cup {NoBlock}
      BY DEF IInv, OnlyOverlookedDangle
    <3>2. parent[b] # NoBlock /\ b \notin {wrapper, body} => b \in ToSet(list[parent[b]])
      BY DEF IInv, Tree
    <3> QED BY <1>2, <1>3, <1>4, <1>5, <3>1, <3>2
  <2>2. ASSUME NEW b \in live
        PROVE  /\ kind[b] = "copy" => list'[b] = <<>>
               /\ kind[b] = "dowhile" => Len(list'[b]) <= 1
    <3>1. /\ kind[b] = "copy" => list[b] = <<>>
          /\ kind[b] = "dowhile" => Len(list[b]) <= 1
      BY DEF IInv, Tree
    <3>2. Len(<<>>) = 0
      OBVIOUS
    <3> QED BY <1>3, <1>4, <3>1, <3>2
  <2> QED BY <1>1, <1>3, <2>1, <2>2 DEF IInv, Tree, Replacing
<1>10. Wrapped'
  <2>1. body \in ToSet(list'[Lsb])
    BY <1>1, <1>2, <1>3, <1>4, <1>6 DEF IInv, Wrapped
  <2>2. \A b \in live : wrapper \notin ToSet(list'[b])
    BY <1>3, <1>4, <1>5, <1>6
  <2>3. Lsb' = Lsb
    BY <1>1 DEF Lsb
  <2> QED BY <1>1, <1>2, <1>3, <1>4, <1>6, <2>1, <2>2, <2>3 DEF IInv, Wrapped, Replacing
<1>11. Rooted'
  <2> SUFFICES ASSUME NEW S \in SUBSET live, Root \in S, \A x \in S : ToSet(list'[x]) \subseteq S, wrapper \in S
               PROVE  live \subseteq S
    BY <1>1 DEF Rooted, Closed, Replacing
  <2> DEFINE T == S \cup {body}
  <2>1. Closed(T)
    <3>1. ToSet(list[body]) = {}
      BY <1>2, <1>5 DEF IInv, Tree
    <3> QED BY <1>2, <1>3, <1>4, <1>5, <3>1 DEF Closed
  <2>2. live \subseteq T
    BY <1>2, <2>1 DEF IInv, Rooted
  <2>3. Lsb \in S
    BY <1>2, <2>2
  <2>4. body \in S
    BY <1>1, <1>2, <1>3, <1>4, <1>6, <2>3 DEF IInv, Wrapped
  <2> QED BY <2>2, <2>4
<1>12. Pending'
  BY <1>1 DEF Pending
<1>13. FewEdges'
  BY <1>1, <1>3 DEF IInv, FewEdges, Listed, In, Out, Replacing
<1> QED BY <1>7, <1>8, <1>9, <1>10, <1>11, <1>12, <1>13 DEF IInv

(* The wrapper goes alone, and with it the last who referred to it.        *)
LEMMA RestoreStep == IInv /\ RestoreAndDelete => IInv'
<1> SUFFICES ASSUME IInv, RestoreAndDelete PROVE IInv'
  OBVIOUS
<1>1. /\ pc = "restore" /\ pc' = "idle" /\ body' = NoBlock /\ wrapper' = NoBlock
      /\ into' = {} /\ outof' = {} /\ slot' = 1
      /\ edges' = edges \cup (into \X {body}) \cup ({body} \X outof)
      /\ live' = live \ ({wrapper} \cup ToSet(list[wrapper]))
      /\ UNCHANGED <<job, parent, list, target, todo, graphs>>
  BY DEF RestoreAndDelete
<1>2. /\ body \in live /\ wrapper \in live /\ Lsb \in live
      /\ body # wrapper /\ Lsb # wrapper
      /\ kind[body] = "copy" /\ kind[wrapper] = "dowhile" /\ list[wrapper] = <<>>
      /\ parent[body] = Lsb /\ body \in ToSet(list[Lsb])
      /\ \A b \in live : (kind[b] \in Followed => target[b] # wrapper) /\ wrapper \notin ToSet(list[b])
  BY <1>1, WrapperFacts DEF IInv, Wrapped, Replacing
<1>3. kind' = kind /\ fn' = fn /\ live \subseteq Block /\ NoBlock \notin live
  BY <1>1, Frame, Types
<1>4. ToSet(<<>>) = {}
  BY DEF ToSet
<1>5. live' = live \ {wrapper}
  BY <1>1, <1>2, <1>4
<1>6. In(wrapper) = {} /\ Out(wrapper) = {} /\ wrapper \notin into \cup outof
  BY <1>1 DEF IInv, FewEdges, Replacing
<1>7. into \subseteq live /\ outof \subseteq live
  BY DEF IInv, OnlyOverlookedDangle
<1>8. TypeOK'
  BY <1>1, <1>2, <1>3, <1>5, <1>7 DEF IInv, TypeOK
<1>9. \A b \in live : b # wrapper /\ b # body /\ parent[b] # NoBlock =>
        b \in ToSet(list[parent[b]]) /\ parent[b] # wrapper
  BY <1>2, <1>4 DEF IInv, Tree
<1>10. OnlyOverlookedDangle'
  <2>1. ASSUME NEW b \in live, b # wrapper
        PROVE  /\ parent[b] \in live' \cup {NoBlock} /\ ToSet(list[b]) \subseteq live'
               /\ target[b] \in live' \cup {NoBlock} \/ Overlooked(b)
    <3>1. /\ parent[b] \in live \cup {NoBlock} /\ ToSet(list[b]) \subseteq live
          /\ target[b] \in live \cup {NoBlock} \/ Overlooked(b)
      BY DEF IInv, OnlyOverlookedDangle
    <3>2. target[b] = wrapper => Overlooked(b)
      BY <1>2, <1>3 DEF IInv, Tree, Overlooked
    <3> QED BY <1>2, <1>5, <1>9, <2>1, <3>1, <3>2
  <2>2. ASSUME NEW e \in edges PROVE {e[1], e[2]} \subseteq live'
    <3>1. e = <<e[1], e[2]>> /\ e[1] \in live /\ e[2] \in live
      BY DEF IInv, TypeOK, OnlyOverlookedDangle
    <3>2. e[1] # wrapper
      BY <1>3, <1>6, <3>1 DEF Out
    <3>3. e[2] # wrapper
      BY <1>3, <1>6, <3>1 DEF In
    <3> QED BY <1>5, <3>1, <3>2, <3>3
  <2>3. ASSUME NEW e \in (into \X {body}) \cup ({body} \X outof) PROVE {e[1], e[2]} \subseteq live'
    BY <1>2, <1>5, <1>6, <1>7
  <2>4. \A b : Overlooked(b)' = Overlooked(b)
    BY <1>1, <1>3 DEF Overlooked
  <2> QED BY <1>1, <1>5, <2>1, <2>2, <2>3, <2>4 DEF OnlyOverlookedDangle
<1>11. Tree'
  <2>1. Root \in live' /\ todo \subseteq live'
    BY <1>2, <1>5 DEF IInv, Tree
  <2>2. \A b \in live' : parent[b] = NoBlock \/ b \in ToSet(list[parent[b]])
    BY <1>2, <1>5, <1>9
  <2> QED BY <1>1, <1>3, <1>5, <2>1, <2>2 DEF IInv, Tree, Replacing
<1>12. Wrapped'
  BY <1>1 DEF Wrapped
<1>13. Rooted'
  <2> SUFFICES ASSUME NEW S \in SUBSET live', Root \in S, Closed(S)
               PROVE  live' \subseteq S
    BY <1>1 DEF Rooted, Closed
  <2> DEFINE T == S \cup {wrapper}
  <2>1. T \in SUBSET live /\ Closed(T)
    BY <1>2, <1>4, <1>5 DEF Closed
  <2>2. live \subseteq T
    BY <2>1 DEF IInv, Rooted
  <2> QED BY <1>5, <2>2
<1>14. Pending'
  BY <1>1 DEF IInv, Pending
<1>15. FewEdges'
  <2>1. ASSUME NEW w \in live', Listed(w)'
        PROVE  /\ w \in live /\ Listed(w)
               /\ In(w)' = IF w \in outof THEN In(w) \cup {body} ELSE In(w)
               /\ Out(w)' = IF w \in into THEN Out(w) \cup {body} ELSE Out(w)
               /\ w # body
    <3>1. w \in live /\ Listed(w) /\ w # body
      BY <1>1, <1>2, <1>3, <1>5, <2>1 DEF Listed
    <3>2. body \in Block /\ w \in Block
      BY <1>2, <1>3, <3>1
    <3> QED BY <1>1, <3>1, <3>2 DEF In, Out
  <2>2. ASSUME NEW w \in live', Listed(w)'
        PROVE  /\ \A a, b \in In(w)' : a = b
               /\ \A a, b \in Out(w)' : a = b
               /\ w \notin In(w)'
    BY <2>1, <2>2 DEF IInv, FewEdges
  <2> QED BY <1>1, <2>2 DEF FewEdges, Replacing
<1> QED BY <1>8, <1>10, <1>11, <1>12, <1>13, <1>14, <1>15 DEF IInv

-----------------------------------------------------------------------------
(* No step breaks the invariant. *)
LEMMA NextInv == IInv /\ [Next]_vars => IInv'
<1>1. ASSUME IInv, UNCHANGED vars PROVE IInv'
  <2>1. /\ UNCHANGED <<job, parent, list, target, edges, live, todo, body, wrapper, into, outof>>
        /\ UNCHANGED <<slot, graphs, pc>>
    BY <1>1 DEF vars, tree, local, saved
  <2>2. kind' = kind /\ fn' = fn
    BY <2>1, Frame
  <2>3. TypeOK' /\ OnlyOverlookedDangle' /\ Tree' /\ Wrapped'
    BY <1>1, <2>1, <2>2 DEF IInv, TypeOK, OnlyOverlookedDangle, Overlooked, Tree, Wrapped, Replacing, Lsb
  <2>4. Rooted' /\ Pending' /\ FewEdges'
    BY <1>1, <2>1, <2>2 DEF IInv, Rooted, Pending, Closed, FewEdges, Listed, In, Out, Replacing
  <2> QED BY <2>3, <2>4 DEF IInv
<1> QED BY <1>1, StartStep, LeaveStep, InEdgeStep, OutEdgeStep, SelfEdgeStep, ReplaceStep,
           UnlinkStep, RestoreStep DEF Next

(* The inductive invariant holds in every state. *)
THEOREM Invariance == Spec => []IInv
BY InitInv, NextInv, PTL DEF Spec

(* The state is well typed: components, targets, ends of edges and what    *)
(* the code remembers of them are blocks.                                  *)
THEOREM Typing == Spec => []TypeOK
BY Invariance, PTL DEF IInv

(* removeDoWhileWrapperBlock never leaves a parent, a component or an edge *)
(* that refers to the block it deleted, nor a goto of a BlockIf or a       *)
(* BlockGoto.  What may be left is a goto of a BlockMultiGoto or of a      *)
(* BlockSwitch, if it led to the do..while from the beginning.             *)
THEOREM OnlyOverlookedGotosDangle == Spec => []OnlyOverlookedDangle
BY Invariance, PTL DEF IInv

-----------------------------------------------------------------------------
(* What the structure has become, in any phase. *)

(* The loops whose do..while a list holds *)
Held ==
  {b \in fn.loops :
     kind[fn.parent[b]] = "dowhile" /\ fn.parent[fn.parent[b]] # NoBlock
       /\ kind[fn.parent[fn.parent[b]]] = "list"}

(* The replacements that have been completed *)
Done == Freed \ {body}

(* The block that takes b's place when the loops F have been replaced *)
Contracted(up, F, b) ==
  IF \E f \in F : up[f] = b THEN CHOOSE f \in F : up[f] = b ELSE b

(* The replacement under way is of a loop that counts as dealt with.       *)
Underway ==
  /\ todo \subseteq fn.loops
  /\ pc = "idle" => body = NoBlock /\ wrapper = NoBlock /\ into = {} /\ outof = {}
  /\ pc # "idle" => body \in Freed /\ wrapper = fn.parent[body]

(* Of it, the body has its new parent from the removal of the edges on;    *)
(* components and targets are the new ones or still the wrapper, and the   *)
(* targets that replaceBlock overlooks are the old ones.                   *)
Placed ==
  /\ live = Present(fn) \ {fn.parent[f] : f \in Done}
  /\ \A b \in live :
       /\ parent[b] = IF b \in Done \/ (Replacing /\ b = body)
                      THEN fn.parent[fn.parent[b]] ELSE fn.parent[b]
       /\ IF kind[b] \in Multiway THEN target[b] = fn.target[b]
          ELSE Instead(target[b]) = Contracted(fn.parent, Freed, fn.target[b])
       /\ pc # "restore" \/ b # wrapper =>
            /\ Len(list[b]) = Len(fn.list[b])
            /\ \A i \in 1..Len(fn.list[b]) : Instead(list[b][i]) = Contracted(fn.parent, Freed, fn.list[b][i])

(* Its edges are in place or saved, but for the loop.                      *)
Joined ==
  edges \cup (into \X {wrapper}) \cup ({wrapper} \X outof) =
    {<<Contracted(fn.parent, Done, e[1]), Contracted(fn.parent, Done, e[2])>> : e \in fn.edges}
      \ ({<<b, b>> : b \in Done} \cup IF Replacing THEN {<<body, body>>} ELSE {})

Kept == Underway /\ Placed /\ Joined

-----------------------------------------------------------------------------
(* A loop that counts is the only component of a do..while in a list.      *)
LEMMA HeldFacts ==
  ASSUME job \in Jobs
  PROVE  /\ Held \subseteq Block
         /\ \A f \in Held :
              /\ kind[f] = "copy" /\ f # Root
              /\ fn.parent[f] \in Block /\ kind[fn.parent[f]] = "dowhile"
              /\ fn.parent[fn.parent[f]] \in Block /\ kind[fn.parent[fn.parent[f]]] = "list"
              /\ fn.list[fn.parent[f]] = <<f>>
         /\ \A f, g \in Held : fn.parent[f] # g /\ (fn.parent[f] = fn.parent[g] => f = g)
<1>1. fn \in Structures /\ IsStructure(fn) /\ IsTree(fn) /\ kind = fn.kind
  BY GivenFacts DEF IsStructure, kind
<1>2. ASSUME NEW f \in Held
      PROVE  /\ f \in Block /\ kind[f] = "copy" /\ f # Root
             /\ fn.parent[f] \in Block /\ kind[fn.parent[f]] = "dowhile"
             /\ fn.parent[fn.parent[f]] \in Block /\ kind[fn.parent[fn.parent[f]]] = "list"
             /\ fn.list[fn.parent[f]] = <<f>>
  <2>1. /\ f \in fn.loops /\ kind[fn.parent[f]] = "dowhile"
        /\ fn.parent[fn.parent[f]] # NoBlock /\ kind[fn.parent[fn.parent[f]]] = "list"
    BY DEF Held
  <2>2. f \in Block /\ kind[f] = "copy" /\ <<f, f>> \in fn.edges
    BY <1>1, <2>1 DEF IsStructure, Structures
  <2>3. fn.parent[f] # NoBlock
    BY <1>1, <2>2 DEF IsStructure
  <2>4. fn.parent[f] \in Block /\ fn.parent[fn.parent[f]] \in Block
    BY <1>1, <2>1, <2>2, <2>3 DEF Structures
  <2>5. fn.parent[f] \in Present(fn) /\ f \in ToSet(fn.list[fn.parent[f]])
    BY <1>1, <2>1, <2>2, <2>3, <2>4 DEF IsTree, Present
  <2>6. Len(fn.list[fn.parent[f]]) <= 1 /\ fn.list[fn.parent[f]] \in Seq(Block)
    BY <1>1, <2>1, <2>4, <2>5 DEF IsStructure, Structures
  <2>7. fn.list[fn.parent[f]] = <<f>>
    BY <2>5, <2>6, OnlyElement
  <2>8. f # Root
    BY <1>1, <2>2 DEF IsTree
  <2> QED BY <2>1, <2>2, <2>4, <2>7, <2>8
<1>3. ASSUME NEW f \in Held, NEW g \in Held PROVE fn.parent[f] # g /\ (fn.parent[f] = fn.parent[g] => f = g)
  BY <1>2, <1>3
<1> QED BY <1>2, <1>3

(* What counts is dealt with. *)
LEMMA FreedIsHeld == Freed = Held \ todo
BY DEF Freed, Held

(* A do..while is contracted to its loop, any other block to itself.       *)
LEMMA ContractedFacts ==
  ASSUME job \in Jobs, NEW F \in SUBSET Held
  PROVE  /\ \A f \in F : Contracted(fn.parent, F, fn.parent[f]) = f /\ Contracted(fn.parent, F, f) = f
         /\ \A b : (\A f \in F : fn.parent[f] # b) => Contracted(fn.parent, F, b) = b
<1>1. ASSUME NEW f \in F PROVE Contracted(fn.parent, F, fn.parent[f]) = f
  <2>1. \A g \in F : fn.parent[g] = fn.parent[f] => g = f
    BY HeldFacts
  <2> QED BY <2>1 DEF Contracted
<1>2. ASSUME NEW b, \A f \in F : fn.parent[f] # b PROVE Contracted(fn.parent, F, b) = b
  BY <1>2 DEF Contracted
<1>3. \A f, g \in F : fn.parent[f] # g
  BY HeldFacts
<1> QED BY <1>1, <1>2, <1>3

(* One more contracted block changes what stands for it only.              *)
LEMMA OneMore ==
  ASSUME job \in Jobs, NEW F \in SUBSET Held, NEW f \in Held, f \notin F
  PROVE  /\ \A b : Contracted(fn.parent, F \cup {f}, b) =
                   IF b = fn.parent[f] THEN f ELSE Contracted(fn.parent, F, b)
         /\ Contracted(fn.parent, F, fn.parent[f]) = fn.parent[f]
         /\ \A b : Contracted(fn.parent, F, b) = fn.parent[f] => b = fn.parent[f]
         /\ \A b : Contracted(fn.parent, F, b) = f => b = f
<1>1. F \cup {f} \in SUBSET Held
  OBVIOUS
<1>2. \A g \in F : fn.parent[g] # fn.parent[f] /\ g # fn.parent[f]
  BY HeldFacts
<1>3. ASSUME NEW b PROVE Contracted(fn.parent, F \cup {f}, b) = IF b = fn.parent[f] THEN f ELSE Contracted(fn.parent, F, b)
  <2>1. CASE b = fn.parent[f]
    BY <1>1, <2>1, ContractedFacts
  <2>2. CASE \E g \in F : fn.parent[g] = b
    BY <1>1, <1>2, <2>2, ContractedFacts
  <2>3. CASE b # fn.parent[f] /\ \A g \in F : fn.parent[g] # b
    BY <1>1, <2>3, ContractedFacts
  <2> QED BY <2>1, <2>2, <2>3
<1>4. ASSUME NEW b PROVE Contracted(fn.parent, F, b) = b \/ Contracted(fn.parent, F, b) \in F
  BY ContractedFacts
<1> QED BY <1>2, <1>3, <1>4, ContractedFacts

(* With nothing dealt with, nothing is contracted. *)
LEMMA InitKept == Init => Kept
<1> SUFFICES ASSUME Init PROVE Kept
  OBVIOUS
<1>1. /\ job \in Jobs /\ live = Present(fn) /\ todo = fn.loops /\ pc = "idle"
      /\ parent = fn.parent /\ list = fn.list /\ target = fn.target /\ edges = fn.edges
      /\ body = NoBlock /\ wrapper = NoBlock /\ into = {} /\ outof = {}
  BY DEF Init
<1>2. Freed = {} /\ Done = {} /\ \A b : Contracted(fn.parent, Freed, b) = b /\ Instead(b) = b
  BY <1>1 DEF Freed, Done, Contracted, Instead
<1>3. Placed
  BY <1>1, <1>2 DEF Placed, Replacing
<1>4. Joined
  <2>1. \A e \in fn.edges : e = <<e[1], e[2]>>
    BY <1>1, GivenFacts DEF Structures
  <2>2. {<<Contracted(fn.parent, Done, e[1]), Contracted(fn.parent, Done, e[2])>> : e \in fn.edges} = fn.edges
    BY <1>2, <2>1
  <2> QED BY <1>1, <1>2, <2>2 DEF Joined, Replacing
<1> QED BY <1>1, <1>3, <1>4 DEF Kept, Underway

(* A do..while that is not in a list, and its body, stay as they are.      *)
LEMMA LeaveKept == IInv /\ Kept /\ LeaveAlone => Kept'
<1> SUFFICES ASSUME IInv, Kept, LeaveAlone PROVE Kept'
  OBVIOUS
<1>1. /\ UNCHANGED <<job, parent, list, target, edges, live, body, wrapper, into, outof, pc>>
      /\ pc = "idle"
  BY DEF LeaveAlone, tree, local, saved
<1>2. PICK b \in todo : ~Removable(b) /\ todo' = todo \ {b}
  BY DEF LeaveAlone
<1>3. job \in Jobs /\ live \subseteq Block /\ NoBlock \notin live
  BY Types
<1>4. b \notin Held
  <2> SUFFICES ASSUME b \in Held PROVE FALSE
    OBVIOUS
  <2> DEFINE w == fn.parent[b]
  <2>1. /\ kind[w] = "dowhile" /\ fn.parent[w] # NoBlock /\ kind[fn.parent[w]] = "list"
        /\ w \notin Held
    BY <1>3, HeldFacts DEF Held
  <2>2. b \in live /\ b # Root /\ b \notin Done /\ ~Replacing
    BY <1>1, <1>3, HeldFacts, FreedIsHeld DEF IInv, Tree, Done, Replacing
  <2>3. parent[b] = w /\ w \in live
    BY <1>3, <2>2 DEF Kept, Placed, IInv, Tree, OnlyOverlookedDangle
  <2>4. parent[w] = fn.parent[w]
    BY <2>1, <2>2, <2>3, FreedIsHeld DEF Kept, Placed, Done
  <2>5. w \in ToSet(list[parent[w]])
    BY <2>1, <2>2, <2>3, <2>4 DEF IInv, Tree
  <2> QED BY <1>2, <2>1, <2>3, <2>4, <2>5 DEF Removable
<1>5. fn' = fn /\ kind' = kind /\ Freed' = Freed /\ Done' = Done
  <2>1. fn' = fn /\ kind' = kind /\ Held' = Held
    BY <1>1 DEF fn, kind, Held
  <2>2. Freed' = Held' \ todo'
    BY DEF Freed, Held
  <2> QED BY <1>1, <1>2, <1>4, <2>1, <2>2, FreedIsHeld DEF Done
<1>6. Underway'
  BY <1>1, <1>2, <1>5 DEF Kept, Underway
<1>7. Placed'
  BY <1>1, <1>5 DEF Kept, Placed, Replacing, Instead
<1>8. Joined'
  BY <1>1, <1>5 DEF Kept, Joined, Replacing
<1> QED BY <1>6, <1>7, <1>8 DEF Kept

(* The replacement that starts is of a loop whose do..while nothing has    *)
(* changed yet.                                                            *)
LEMMA StartKept == IInv /\ Kept /\ Start => Kept'
<1> SUFFICES ASSUME IInv, Kept, Start PROVE Kept'
  OBVIOUS
<1>1. /\ UNCHANGED <<job, parent, list, target, edges, live>>
      /\ pc = "idle" /\ pc' = "in" /\ into' = {} /\ outof' = {}
  BY DEF Start, tree
<1>2. PICK b \in todo : Removable(b) /\ body' = b /\ wrapper' = parent[b] /\ todo' = todo \ {b}
  BY DEF Start
<1> DEFINE w == parent[b]
<1>3. job \in Jobs /\ live \subseteq Block /\ NoBlock \notin live
  BY Types
<1>4. b \in live /\ b # Root /\ b \in fn.loops /\ b \notin Freed /\ ~Replacing
  BY <1>1, <1>2 DEF IInv, Tree, Kept, Underway, Freed, Replacing
<1>5. body = NoBlock /\ wrapper = NoBlock /\ into = {} /\ outof = {} /\ Done = Freed
  BY <1>1, <1>3, FreedIsHeld, HeldFacts, StructureAssumption DEF Kept, Underway, Done
<1>6. w = fn.parent[b] /\ w \in live
  BY <1>3, <1>4, <1>5 DEF Kept, Placed, IInv, Tree, OnlyOverlookedDangle
<1>7. parent[w] = fn.parent[w]
  <2>1. kind[w] = "dowhile"
    BY <1>2 DEF Removable
  <2>2. w \notin Freed
    BY <1>3, <2>1, FreedIsHeld, HeldFacts
  <2> QED BY <1>4, <1>5, <1>6, <2>2 DEF Kept, Placed
<1>8. b \in Held
  BY <1>2, <1>4, <1>6, <1>7 DEF Removable, Held
<1>9. fn' = fn /\ kind' = kind /\ Freed' = Freed \cup {b} /\ Done' = Freed /\ Replacing' = Replacing
  <2>1. fn' = fn /\ kind' = kind /\ Held' = Held /\ Replacing' = Replacing
    BY <1>1 DEF fn, kind, Held, Replacing
  <2>2. Freed' = Held' \ todo'
    BY DEF Freed, Held
  <2>3. Freed' = Freed \cup {b}
    BY <1>2, <1>8, <2>1, <2>2, FreedIsHeld
  <2> QED BY <1>2, <1>4, <2>1, <2>3 DEF Done
<1>10. Underway'
  BY <1>1, <1>2, <1>6, <1>9 DEF Kept, Underway
<1>11. Freed \in SUBSET Held
  BY FreedIsHeld
<1>12. \A x : Contracted(fn.parent, Freed \cup {b}, x) =
                IF x = fn.parent[b] THEN b ELSE Contracted(fn.parent, Freed, x)
  BY <1>3, <1>4, <1>8, <1>11, OneMore
<1>13. Contracted(fn.parent, Freed, fn.parent[b]) = fn.parent[b]
  BY <1>3, <1>4, <1>8, <1>11, OneMore
<1>14. \A x : Contracted(fn.parent, Freed, x) = fn.parent[b] => x = fn.parent[b]
  BY <1>3, <1>4, <1>8, <1>11, OneMore
<1>15. \A x, y : x = Contracted(fn.parent, Freed, y) =>
                   Contracted(fn.parent, Freed \cup {b}, y) = IF x = w THEN b ELSE x
  BY <1>6, <1>12, <1>13, <1>14
<1>16. Placed'
  <2>1. ASSUME NEW x \in live
        PROVE  /\ parent[x] = IF x \in Freed THEN fn.parent[fn.parent[x]] ELSE fn.parent[x]
               /\ target[x] = IF kind[x] \in Multiway THEN fn.target[x]
                              ELSE Contracted(fn.parent, Freed, fn.target[x])
               /\ Len(list[x]) = Len(fn.list[x])
               /\ \A i \in 1..Len(fn.list[x]) : list[x][i] = Contracted(fn.parent, Freed, fn.list[x][i])
    <3>1. \A y : Instead(y) = y
      BY <1>5 DEF Instead
    <3> QED BY <1>1, <1>4, <1>5, <3>1 DEF Kept, Placed
  <2>2. ASSUME NEW x \in live
        PROVE  /\ kind[x] \notin Multiway =>
                    Contracted(fn.parent, Freed \cup {b}, fn.target[x]) = IF target[x] = w THEN b ELSE target[x]
               /\ \A i \in 1..Len(fn.list[x]) :
                    Contracted(fn.parent, Freed \cup {b}, fn.list[x][i]) = IF list[x][i] = w THEN b ELSE list[x][i]
    BY <1>15, <2>1
  <2>3. live = Present(fn) \ {fn.parent[f] : f \in Freed}
    BY <1>5 DEF Kept, Placed
  <2>4. ~Replacing'
    BY <1>4, <1>9
  <2>5. ASSUME NEW x \in live'
        PROVE  /\ parent'[x] = IF x \in Done' \/ (Replacing' /\ x = body')
                               THEN fn'.parent[fn'.parent[x]] ELSE fn'.parent[x]
               /\ IF kind'[x] \in Multiway THEN target'[x] = fn'.target[x]
                  ELSE (IF target'[x] = wrapper' THEN body' ELSE target'[x]) =
                         Contracted(fn'.parent, Freed', fn'.target[x])
    <3>1. kind' = kind
      BY <1>1 DEF kind, fn
    <3> QED BY <1>1, <1>2, <1>9, <2>1, <2>2, <2>4, <3>1
  <2>6. ASSUME NEW x \in live'
        PROVE  /\ Len(list'[x]) = Len(fn'.list[x])
               /\ \A i \in 1..Len(fn'.list[x]) :
                    (IF list'[x][i] = wrapper' THEN body' ELSE list'[x][i]) =
                      Contracted(fn'.parent, Freed', fn'.list[x][i])
    BY <1>1, <1>2, <1>9, <2>1, <2>2
  <2>7. live' = Present(fn') \ {fn'.parent[f] : f \in Done'}
    BY <1>1, <1>9, <2>3
  <2> QED BY <2>5, <2>6, <2>7 DEF Placed, Instead
<1>17. Joined'
  BY <1>1, <1>4, <1>5, <1>9 DEF Kept, Joined, Replacing
<1> QED BY <1>10, <1>16, <1>17 DEF Kept

(* While edges are removed, nothing else changes.                          *)
LEMMA EdgesKept ==
  ASSUME Kept, pc \in {"in", "out"}, pc' \in {"in", "out"},
         UNCHANGED <<job, parent, list, target, live, todo, body, wrapper>>,
         edges' \cup (into' \X {wrapper}) \cup ({wrapper} \X outof') =
           edges \cup (into \X {wrapper}) \cup ({wrapper} \X outof)
  PROVE  Kept'
<1>1. fn' = fn /\ kind' = kind /\ Freed' = Freed /\ Done' = Done /\ ~Replacing /\ ~Replacing'
  BY DEF fn, kind, Freed, Done, Replacing
<1>2. Underway'
  BY <1>1 DEF Kept, Underway
<1>3. Placed'
  BY <1>1 DEF Kept, Placed, Replacing, Instead
<1>4. Joined'
  BY <1>1 DEF Kept, Joined, Replacing
<1> QED BY <1>2, <1>3, <1>4 DEF Kept

(* An edge that is removed is saved. *)
LEMMA SavedKept == Kept /\ (RemoveInEdge \/ InEdgesDone \/ RemoveOutEdge) => Kept'
<1>1. ASSUME Kept, RemoveInEdge PROVE Kept'
  <2>1. /\ pc = "in" /\ pc' = "in" /\ outof' = outof
        /\ UNCHANGED <<job, parent, list, target, live, todo, body, wrapper>>
    BY <1>1 DEF RemoveInEdge, local
  <2>2. PICK b \in In(wrapper) : into' = into \cup {b} /\ edges' = edges \ {<<b, wrapper>>}
    BY <1>1 DEF RemoveInEdge
  <2>3. edges' \cup (into' \X {wrapper}) = edges \cup (into \X {wrapper})
    BY <2>2 DEF In
  <2> QED BY <1>1, <2>1, <2>3, EdgesKept
<1>2. ASSUME Kept, InEdgesDone PROVE Kept'
  BY <1>2, EdgesKept DEF InEdgesDone, tree, local, saved
<1>3. ASSUME Kept, RemoveOutEdge PROVE Kept'
  <2>1. /\ pc = "out" /\ pc' = "out" /\ into' = into
        /\ UNCHANGED <<job, parent, list, target, live, todo, body, wrapper>>
    BY <1>3 DEF RemoveOutEdge, local
  <2>2. PICK b \in Out(wrapper) : outof' = outof \cup {b} /\ edges' = edges \ {<<wrapper, b>>}
    BY <1>3 DEF RemoveOutEdge
  <2>3. edges' \cup ({wrapper} \X outof') = edges \cup ({wrapper} \X outof)
    BY <2>2 DEF Out
  <2> QED BY <1>3, <2>1, <2>3, EdgesKept
<1> QED BY <1>1, <1>2, <1>3

(* While a replacement is under way, its wrapper is a do..while in a list, *)
(* and none of those completed.                                            *)
LEMMA UnderwayFacts ==
  ASSUME IInv, Kept, pc # "idle"
  PROVE  /\ job \in Jobs /\ body \in Held /\ Done \in SUBSET Held /\ body \notin Done
         /\ Freed = Done \cup {body} /\ wrapper = fn.parent[body]
         /\ body \in live /\ wrapper \in live /\ body # wrapper /\ wrapper \notin Freed
         /\ \A b : Contracted(fn.parent, Freed, b) = Instead(Contracted(fn.parent, Done, b))
<1>1. job \in Jobs /\ body \in live /\ wrapper \in live /\ body # wrapper
  BY Types, WrapperFacts
<1>2. body \in Freed /\ wrapper = fn.parent[body]
  BY DEF Kept, Underway
<1>3. body \in Held /\ Done \in SUBSET Held /\ body \notin Done /\ Freed = Done \cup {body}
  BY <1>2, FreedIsHeld DEF Done
<1>4. wrapper \notin Freed
  BY <1>1, <1>2, FreedIsHeld, HeldFacts
<1>5. \A b : Contracted(fn.parent, Done \cup {body}, b) =
               IF b = fn.parent[body] THEN body ELSE Contracted(fn.parent, Done, b)
  BY <1>1, <1>3, OneMore
<1>6. /\ \A b : Contracted(fn.parent, Done, b) = fn.parent[body] => b = fn.parent[body]
      /\ Contracted(fn.parent, Done, fn.parent[body]) = fn.parent[body]
  BY <1>1, <1>3, OneMore
<1>7. \A b : Contracted(fn.parent, Freed, b) = Instead(Contracted(fn.parent, Done, b))
  BY <1>2, <1>3, <1>5, <1>6 DEF Instead
<1> QED BY <1>1, <1>2, <1>3, <1>4, <1>7

(* The body takes the wrapper's place under its parent, and loses its loop. *)
LEMMA SelfKept == IInv /\ Kept /\ RemoveSelfEdge => Kept'
<1> SUFFICES ASSUME IInv, Kept, RemoveSelfEdge PROVE Kept'
  OBVIOUS
<1>1. /\ pc = "out" /\ pc' = "replace"
      /\ edges' = edges \ {<<body, body>>}
      /\ parent' = [parent EXCEPT ![body] = parent[wrapper]]
      /\ UNCHANGED <<job, list, target, live, todo, body, wrapper, into, outof>>
  BY DEF RemoveSelfEdge, local, saved
<1>2. ~Replacing /\ Replacing' /\ fn' = fn /\ kind' = kind /\ Freed' = Freed /\ Done' = Done
  BY <1>1 DEF Replacing, fn, kind, Freed, Done
<1>3. /\ body \in live /\ wrapper \in live /\ body # wrapper /\ wrapper \notin Freed
      /\ wrapper = fn.parent[body] /\ Freed = Done \cup {body}
  BY <1>1, UnderwayFacts
<1>4. Underway'
  BY <1>1, <1>2 DEF Kept, Underway
<1>5. Placed'
  <2>1. \A b \in live : parent'[b] = IF b = body THEN parent[wrapper] ELSE parent[b]
    BY <1>1, <1>3, Types DEF IInv, TypeOK
  <2>2. parent[wrapper] = fn.parent[fn.parent[body]]
    BY <1>2, <1>3 DEF Kept, Placed
  <2>3. \A b \in live : parent[b] = IF b \in Done THEN fn.parent[fn.parent[b]] ELSE fn.parent[b]
    BY <1>2 DEF Kept, Placed
  <2> QED BY <1>1, <1>2, <2>1, <2>2, <2>3 DEF Kept, Placed, Instead
<1>6. Joined'
  BY <1>1, <1>2, <1>3 DEF Kept, Joined
<1> QED BY <1>4, <1>5, <1>6 DEF Kept

(* What replaceBlock has replaced it does not replace again.               *)
LEMMA ReplaceKept == IInv /\ Kept /\ ReplaceIn => Kept'
<1> SUFFICES ASSUME IInv, Kept, ReplaceIn PROVE Kept'
  OBVIOUS
<1>1. /\ pc = "replace" /\ pc' = "replace"
      /\ UNCHANGED <<job, parent, edges, live, todo, body, wrapper, into, outof>>
  BY DEF ReplaceIn, local, saved
<1>2. PICK g \in graphs : /\ list' = [list EXCEPT ![g] = [i \in DOMAIN @ |-> Instead(@[i])]]
                          /\ target' = Retargeted(g)
  BY DEF ReplaceIn
<1>3. Replacing' = Replacing /\ fn' = fn /\ kind' = kind /\ Freed' = Freed /\ Done' = Done
  BY <1>1 DEF Replacing, fn, kind, Freed, Done
<1>4. body \in Block /\ body # wrapper /\ live \subseteq Block /\ list \in [Block -> Seq(Block)]
  BY <1>1, UnderwayFacts, Types DEF IInv, TypeOK
<1>5. \A b : Instead(Instead(b)) = Instead(b)
  BY <1>4 DEF Instead
<1>6. \A b \in live : /\ Instead(target'[b]) = Instead(target[b])
                      /\ kind[b] \in Multiway => target'[b] = target[b]
  BY <1>2, <1>4, <1>5 DEF Retargeted, Followed, Multiway
<1>7. ASSUME NEW b \in live
      PROVE  Len(list'[b]) = Len(list[b]) /\ \A i \in 1..Len(list[b]) : Instead(list'[b][i]) = Instead(list[b][i])
  <2>1. CASE b = g
    <3> DEFINE s == list[g]
               t == [i \in DOMAIN s |-> Instead(s[i])]
    <3>1. s \in Seq(Block) /\ list'[b] = t
      BY <1>2, <1>4, <2>1
    <3>2. Len(t) = Len(s) /\ DOMAIN s = 1..Len(s)
      BY <1>4, <3>1, InsteadFacts, LenProperties
    <3> HIDE DEF s
    <3>3. \A i \in 1..Len(s) : Instead(t[i]) = Instead(s[i])
      BY <1>5, <3>2
    <3> QED BY <2>1, <3>1, <3>2, <3>3 DEF s
  <2>2. CASE b # g
    BY <1>2, <1>4, <2>2
  <2> QED BY <2>1, <2>2
<1>8. Underway'
  BY <1>1, <1>3 DEF Kept, Underway
<1>9. Placed'
  <2>1. ASSUME NEW b \in live
        PROVE  /\ IF kind[b] \in Multiway THEN target'[b] = fn.target[b]
                  ELSE Instead(target'[b]) = Contracted(fn.parent, Freed, fn.target[b])
               /\ Len(list'[b]) = Len(fn.list[b])
               /\ \A i \in 1..Len(fn.list[b]) : Instead(list'[b][i]) = Contracted(fn.parent, Freed, fn.list[b][i])
    <3>1. /\ IF kind[b] \in Multiway THEN target[b] = fn.target[b]
             ELSE Instead(target[b]) = Contracted(fn.parent, Freed, fn.target[b])
          /\ Len(list[b]) = Len(fn.list[b])
          /\ \A i \in 1..Len(fn.list[b]) : Instead(list[b][i]) = Contracted(fn.parent, Freed, fn.list[b][i])
      BY <1>1 DEF Kept, Placed
    <3> QED BY <1>6, <1>7, <3>1
  <2> QED BY <1>1, <1>3, <2>1 DEF Kept, Placed, Instead
<1>10. Joined'
  BY <1>1, <1>3 DEF Kept, Joined
<1> QED BY <1>8, <1>9, <1>10 DEF Kept

(* The wrapper alone loses its component. *)
LEMMA UnlinkKept == IInv /\ Kept /\ Unlink => Kept'
<1> SUFFICES ASSUME IInv, Kept, Unlink PROVE Kept'
  OBVIOUS
<1>1. /\ pc = "replace" /\ pc' = "restore"
      /\ list' = [list EXCEPT ![wrapper] = RemoveFirst(@, body)]
      /\ UNCHANGED <<job, parent, target, edges, live, todo, body, wrapper, into, outof>>
  BY DEF Unlink, local, saved
<1>2. Replacing /\ Replacing' /\ fn' = fn /\ kind' = kind /\ Freed' = Freed /\ Done' = Done
  BY <1>1 DEF Replacing, fn, kind, Freed, Done
<1>3. \A b \in live : b # wrapper => list'[b] = list[b]
  BY <1>1, Types DEF IInv, TypeOK
<1>4. Underway'
  BY <1>1, <1>2 DEF Kept, Underway
<1>5. Placed'
  BY <1>1, <1>2, <1>3 DEF Kept, Placed, Instead
<1>6. Joined'
  BY <1>1, <1>2 DEF Kept, Joined
<1> QED BY <1>4, <1>5, <1>6 DEF Kept

(* The edges that are restored are those the wrapper had, with the body in *)
(* its place.                                                              *)
LEMMA RestoredEdges ==
  ASSUME IInv, Kept, pc = "restore"
  PROVE  edges \cup (into \X {body}) \cup ({body} \X outof) =
           {<<Contracted(fn.parent, Freed, e[1]), Contracted(fn.parent, Freed, e[2])>> : e \in fn.edges}
             \ {<<b, b>> : b \in Freed}
<1> DEFINE was == edges \cup (into \X {wrapper}) \cup ({wrapper} \X outof)
           new == edges \cup (into \X {body}) \cup ({body} \X outof)
           Was(e) == <<Contracted(fn.parent, Done, e[1]), Contracted(fn.parent, Done, e[2])>>
           New(e) == <<Contracted(fn.parent, Freed, e[1]), Contracted(fn.parent, Freed, e[2])>>
<1>1. /\ job \in Jobs /\ body \in Held /\ Done \in SUBSET Held /\ body \notin Done
      /\ Freed = Done \cup {body} /\ wrapper = fn.parent[body]
      /\ body # wrapper /\ wrapper \notin Freed
      /\ \A b : Contracted(fn.parent, Freed, b) = Instead(Contracted(fn.parent, Done, b))
  BY UnderwayFacts
<1>2. In(wrapper) = {} /\ Out(wrapper) = {} /\ wrapper \notin into \cup outof
  BY DEF IInv, FewEdges, Replacing
<1>3. \A p \in edges : p = <<p[1], p[2]>> /\ p[1] \in Block /\ p[2] \in Block /\ p[1] # wrapper /\ p[2] # wrapper
  BY <1>2 DEF IInv, TypeOK, In, Out
<1>4. was = {Was(e) : e \in fn.edges} \ {<<b, b>> : b \in Freed}
  BY <1>1 DEF Kept, Joined, Replacing
<1>5. new = {<<Instead(p[1]), Instead(p[2])>> : p \in was}
  <2> DEFINE Im(X) == {<<Instead(p[1]), Instead(p[2])>> : p \in X}
  <2>1. Im(edges) = edges
    <3>1. \A p \in edges : <<Instead(p[1]), Instead(p[2])>> = p
      BY <1>3 DEF Instead
    <3> QED BY <3>1
  <2>2. Im(into \X {wrapper}) = into \X {body}
    <3>1. Instead(wrapper) = body /\ \A a \in into : Instead(a) = a
      BY <1>2 DEF Instead
    <3>2. ASSUME NEW q \in Im(into \X {wrapper}) PROVE q \in into \X {body}
      BY <3>1
    <3>3. ASSUME NEW a \in into PROVE <<a, body>> \in Im(into \X {wrapper})
      <4>1. <<a, wrapper>> \in into \X {wrapper} /\ <<a, wrapper>>[1] = a /\ <<a, wrapper>>[2] = wrapper
        OBVIOUS
      <4> QED BY <3>1, <4>1
    <3> QED BY <3>2, <3>3
  <2>3. Im({wrapper} \X outof) = {body} \X outof
    <3>1. Instead(wrapper) = body /\ \A a \in outof : Instead(a) = a
      BY <1>2 DEF Instead
    <3>2. ASSUME NEW q \in Im({wrapper} \X outof) PROVE q \in {body} \X outof
      BY <3>1
    <3>3. ASSUME NEW a \in outof PROVE <<body, a>> \in Im({wrapper} \X outof)
      <4>1. <<wrapper, a>> \in {wrapper} \X outof /\ <<wrapper, a>>[1] = wrapper /\ <<wrapper, a>>[2] = a
        OBVIOUS
      <4> QED BY <3>1, <4>1
    <3> QED BY <3>2, <3>3
  <2>4. Im(was) = Im(edges) \cup Im(into \X {wrapper}) \cup Im({wrapper} \X outof)
    OBVIOUS
  <2> QED BY <2>1, <2>2, <2>3, <2>4
<1>6. \A e : New(e) = <<Instead(Was(e)[1]), Instead(Was(e)[2])>>
  BY <1>1
<1>7. \A d \in Freed : Instead(d) = d
  BY <1>1 DEF Instead
<1>8. <<wrapper, wrapper>> \notin was
  BY <1>1, <1>2, <1>3
<1>9. \A e \in fn.edges : Was(e) # <<body, wrapper>> /\ Was(e) # <<wrapper, body>>
  <2> SUFFICES ASSUME NEW e \in fn.edges, Was(e) = <<body, wrapper>> \/ Was(e) = <<wrapper, body>>
               PROVE  FALSE
    OBVIOUS
  <2>1. e = <<body, wrapper>> \/ e = <<wrapper, body>>
    <3>1. e = <<e[1], e[2]>>
      BY <1>1, GivenFacts DEF Structures
    <3>2. \A b : /\ Contracted(fn.parent, Done, b) = fn.parent[body] => b = fn.parent[body]
                 /\ Contracted(fn.parent, Done, b) = body => b = body
      BY <1>1, OneMore
    <3> QED BY <1>1, <3>1, <3>2
  <2>2. fn.parent[body] = fn.parent[wrapper]
    BY <1>1, <2>1, GivenFacts DEF IsStructure
  <2> QED BY <1>1, <2>2, HeldFacts
<1>10. ASSUME NEW e \in fn.edges, NEW d \in Freed, New(e) = <<d, d>> PROVE Was(e) = <<d, d>>
  <2>1. Instead(Was(e)[1]) = d /\ Instead(Was(e)[2]) = d
    BY <1>6, <1>10
  <2>2. CASE d # body
    BY <2>1, <2>2 DEF Instead
  <2>3. CASE d = body
    <3>1. /\ Was(e)[1] = body \/ Was(e)[1] = wrapper
          /\ Was(e)[2] = body \/ Was(e)[2] = wrapper
      BY <2>1, <2>3 DEF Instead
    <3>2. Was(e) # <<wrapper, wrapper>>
      BY <1>1, <1>4, <1>8
    <3> QED BY <1>9, <2>3, <3>1, <3>2
  <2> QED BY <2>2, <2>3
<1> HIDE DEF was, new, Was, New
<1>11. new \subseteq {New(e) : e \in fn.edges} \ {<<b, b>> : b \in Freed}
  <2> SUFFICES ASSUME NEW p \in was
               PROVE  /\ <<Instead(p[1]), Instead(p[2])>> \in {New(e) : e \in fn.edges}
                      /\ \A d \in Freed : <<Instead(p[1]), Instead(p[2])>> # <<d, d>>
    BY <1>5
  <2>1. PICK e \in fn.edges : p = Was(e)
    BY <1>4
  <2>2. \A d \in Freed : p # <<d, d>>
    BY <1>4
  <2> QED BY <1>6, <1>10, <2>1, <2>2
<1>12. {New(e) : e \in fn.edges} \ {<<b, b>> : b \in Freed} \subseteq new
  <2> SUFFICES ASSUME NEW e \in fn.edges, \A d \in Freed : New(e) # <<d, d>> PROVE New(e) \in new
    OBVIOUS
  <2>1. \A d \in Freed : Was(e) # <<d, d>>
    <3> SUFFICES ASSUME NEW d \in Freed, Was(e) = <<d, d>> PROVE FALSE
      OBVIOUS
    <3>1. Was(e)[1] = d /\ Was(e)[2] = d
      OBVIOUS
    <3> QED BY <1>6, <1>7, <3>1
  <2>2. Was(e) \in was
    BY <1>4, <2>1
  <2> QED BY <1>5, <1>6, <2>2
<1> QED BY <1>11, <1>12 DEF new, New

(* The replacement is complete when the wrapper is deleted. *)
LEMMA RestoreKept == IInv /\ Kept /\ RestoreAndDelete => Kept'
<1> SUFFICES ASSUME IInv, Kept, RestoreAndDelete PROVE Kept'
  OBVIOUS
<1>1. /\ pc = "restore" /\ pc' = "idle" /\ body' = NoBlock /\ wrapper' = NoBlock
      /\ into' = {} /\ outof' = {}
      /\ edges' = edges \cup (into \X {body}) \cup ({body} \X outof)
      /\ live' = live \ ({wrapper} \cup ToSet(list[wrapper]))
      /\ UNCHANGED <<job, parent, list, target, todo>>
  BY DEF RestoreAndDelete
<1>2. /\ job \in Jobs /\ Freed = Done \cup {body} /\ wrapper = fn.parent[body]
      /\ body \in live /\ wrapper \in live /\ NoBlock \notin Freed
  BY <1>1, UnderwayFacts, Types, HeldFacts, FreedIsHeld, StructureAssumption
<1>3. fn' = fn /\ kind' = kind /\ Freed' = Freed /\ Done' = Freed /\ Replacing /\ ~Replacing'
  <2>1. fn' = fn /\ kind' = kind /\ Freed' = Freed
    BY <1>1 DEF fn, kind, Freed
  <2> QED BY <1>1, <1>2, <2>1 DEF Done, Replacing
<1>4. /\ list[wrapper] = <<>>
      /\ \A b \in live : (kind[b] \in Followed => target[b] # wrapper) /\ wrapper \notin ToSet(list[b])
  BY <1>1 DEF IInv, Wrapped
<1>5. live' = live \ {wrapper}
  <2>1. ToSet(<<>>) = {}
    BY DEF ToSet
  <2> QED BY <1>1, <1>4, <2>1
<1>6. Underway'
  BY <1>1, <1>3 DEF Kept, Underway
<1>7. Placed'
  <2>1. live' = Present(fn) \ {fn.parent[f] : f \in Freed}
    BY <1>2, <1>5 DEF Kept, Placed
  <2>2. ASSUME NEW b \in live'
        PROVE  /\ parent[b] = IF b \in Freed THEN fn.parent[fn.parent[b]] ELSE fn.parent[b]
               /\ target[b] = IF kind[b] \in Multiway THEN fn.target[b]
                              ELSE Contracted(fn.parent, Freed, fn.target[b])
    <3>1. kind[b] \in Multiway \/ target[b] # wrapper
      BY <1>2, <1>4, <1>5, StructureAssumption, Types DEF IInv, Tree
    <3> QED BY <1>2, <1>3, <1>5, <3>1 DEF Kept, Placed, Instead
  <2>3. ASSUME NEW b \in live'
        PROVE  /\ Len(list[b]) = Len(fn.list[b])
               /\ \A i \in 1..Len(fn.list[b]) : list[b][i] = Contracted(fn.parent, Freed, fn.list[b][i])
    <3>1. b \in live /\ b # wrapper /\ list[b] \in Seq(Block)
      BY <1>5, Types DEF IInv, TypeOK
    <3>2. \A i \in 1..Len(list[b]) : list[b][i] # wrapper
      BY <1>4, <3>1, ElementsOf
    <3> QED BY <3>1, <3>2 DEF Kept, Placed, Instead
  <2>4. \A x : Instead(x)' = x
    BY <1>1 DEF Instead
  <2>5. ASSUME NEW b \in live'
        PROVE  IF kind[b] \in Multiway THEN target'[b] = fn.target[b]
               ELSE (IF target'[b] = wrapper' THEN body' ELSE target'[b]) =
                      Contracted(fn.parent, Freed, fn.target[b])
    BY <1>1, <2>2
  <2>6. ASSUME NEW b \in live'
        PROVE  \A i \in 1..Len(fn.list[b]) :
                 (IF list'[b][i] = wrapper' THEN body' ELSE list'[b][i]) =
                   Contracted(fn.parent, Freed, fn.list[b][i])
    BY <1>1, <2>3
  <2> QED BY <1>1, <1>3, <2>1, <2>2, <2>3, <2>5, <2>6 DEF Placed, Instead
<1>8. Joined'
  BY <1>1, <1>3, RestoredEdges DEF Joined
<1> QED BY <1>6, <1>7, <1>8 DEF Kept

-----------------------------------------------------------------------------
(* No step breaks it. *)
LEMMA NextKept == IInv /\ Kept /\ [Next]_vars => Kept'
<1>1. ASSUME Kept, UNCHANGED vars PROVE Kept'
  <2>1. UNCHANGED <<job, parent, list, target, edges, live, todo, body, wrapper, into, outof, pc>>
    BY <1>1 DEF vars, tree, local, saved
  <2>2. fn' = fn /\ kind' = kind /\ Freed' = Freed /\ Done' = Done /\ Replacing' = Replacing
    BY <2>1 DEF fn, kind, Freed, Done, Replacing
  <2> QED BY <1>1, <2>1, <2>2 DEF Kept, Underway, Placed, Joined, Instead
<1> QED BY <1>1, StartKept, LeaveKept, SavedKept, SelfKept, ReplaceKept, UnlinkKept, RestoreKept DEF Next

(* What has become of the structure between two replacements *)
LEMMA KeptIsStructureKept == IInv /\ Kept => StructureKept
<1> SUFFICES ASSUME IInv, Kept, pc = "idle" PROVE StructureKept
  BY DEF StructureKept
<1>1. /\ job \in Jobs /\ Freed \in SUBSET Held /\ Done = Freed /\ ~Replacing
      /\ body = wrapper /\ into = {} /\ outof = {}
  BY Types, HeldFacts, FreedIsHeld, StructureAssumption DEF Kept, Underway, Done, Replacing
<1>2. \A b : Now(b) = Contracted(fn.parent, Freed, b)
  BY DEF Now, Contracted
<1>3. \A b : Contracted(fn.parent, Freed, b) = b <=> b \notin {fn.parent[f] : f \in Freed}
  <2>1. \A f \in Freed : fn.parent[f] # f
    BY <1>1, HeldFacts
  <2> QED BY <1>1, <2>1, ContractedFacts
<1>4. live = {b \in Present(fn) : Now(b) = b}
  BY <1>1, <1>2, <1>3 DEF Kept, Placed
<1>5. ASSUME NEW b \in live
      PROVE  /\ parent[b] = IF b \in Freed THEN fn.parent[fn.parent[b]] ELSE fn.parent[b]
             /\ target[b] = IF kind[b] \in Multiway THEN fn.target[b] ELSE Now(fn.target[b])
             /\ Len(list[b]) = Len(fn.list[b])
             /\ \A i \in 1..Len(fn.list[b]) : list[b][i] = Now(fn.list[b][i])
  BY <1>1, <1>2 DEF Kept, Placed, Instead
<1>6. ASSUME NEW b \in live PROVE list[b] = [i \in DOMAIN fn.list[b] |-> Now(fn.list[b][i])]
  <2>1. list[b] \in Seq(Block) /\ fn.list[b] \in Seq(Block)
    BY <1>1, Types, GivenFacts DEF IInv, TypeOK, Structures
  <2>2. DOMAIN list[b] = 1..Len(list[b]) /\ DOMAIN fn.list[b] = 1..Len(fn.list[b])
    BY <2>1, LenProperties
  <2>3. list[b] = [i \in DOMAIN list[b] |-> list[b][i]]
    BY <2>1
  <2> QED BY <1>5, <2>2, <2>3
<1>7. edges = {<<Now(e[1]), Now(e[2])>> : e \in fn.edges} \ {<<b, b>> : b \in Freed}
  BY <1>1, <1>2 DEF Kept, Joined
<1> QED BY <1>4, <1>5, <1>6, <1>7 DEF StructureKept

(* Between two replacements, and whatever their order, the structure is    *)
(* the original one with each do..while that was in a list, and whose loop *)
(* removeDoWhileWrapperBlock has been told of, contracted to its body;     *)
(* every other block keeps the order of its components, its goto and its   *)
(* edges.                                                                  *)
THEOREM StructureIsKept == Spec => []StructureKept
<1>1. IInv /\ Kept /\ [Next]_vars => IInv' /\ Kept'
  BY NextInv, NextKept
<1>2. Init => IInv /\ Kept
  BY InitInv, InitKept
<1> QED BY <1>1, <1>2, KeptIsStructureKept, PTL DEF Spec

=============================================================================
