--------------------------- MODULE BlockStructure ---------------------------
(***************************************************************************)
(* FunctionEditor::removeDoWhilewrapperBlock and replaceBlock              *)
(* (framework.cc): when the loop a block made with itself is gone, the     *)
(* do..while around it in Ghidra's tree of structured blocks is taken out, *)
(* and the block put in its place.  The loops of a function are replaced   *)
(* one after the other, in the order the rules come to them.               *)
(*                                                                         *)
(* The trim of the block's phis, which lies between two of these steps,    *)
(* concerns ops only and is part of FunctionEditor.                        *)
(***************************************************************************)
EXTENDS Naturals, Sequences, FiniteSets, SequencesExt

CONSTANTS
  Block,   \* FlowBlocks of the structure
  NoBlock, \* a null pointer
  Root,    \* what getStructure returns
  Jobs,    \* the functions that are considered
  Given    \* the structure of each, and the blocks whose loops go

(* A "copy" stands for a basic block; the others hold components.          *)
Kinds ==
  {"graph", "list", "if", "goto", "multigoto", "switch", "dowhile", "whiledo", "copy"}

(* What has gotos: replaceBlock follows those of a BlockIf and of a        *)
(* BlockGoto; of a BlockMultiGoto or a BlockSwitch it follows none.  One   *)
(* target stands for the several that these have.                          *)
Followed == {"if", "goto"}
Multiway == {"multigoto", "switch"}

Structures ==
  [kind : [Block -> Kinds], parent : [Block -> Block \cup {NoBlock}],
   list : [Block -> Seq(Block)], target : [Block -> Block \cup {NoBlock}],
   edges : SUBSET (Block \X Block), loops : SUBSET Block]

(* The blocks of a structure are the root and what has a parent.           *)
Present(s) == {Root} \cup {b \in Block : s.parent[b] # NoBlock}

(* Parents and components agree, the root has no parent, and what is       *)
(* present can be reached from it.                                         *)
IsTree(s) ==
  /\ s.kind[Root] = "graph" /\ s.parent[Root] = NoBlock
  /\ \A b \in Block : s.parent[b] \in Present(s) \cup {NoBlock}
  /\ \A b \in Block : s.parent[b] # NoBlock => b \in ToSet(s.list[s.parent[b]])
  /\ \A b, g \in Block : b \in ToSet(s.list[g]) => s.parent[b] = g
  /\ \A S \in SUBSET Present(s) :
       Root \in S /\ (\A g \in S : ToSet(s.list[g]) \subseteq S) => S = Present(s)

(* What ruleBlockCat and selfIdentify leave to the components of a list    *)
(* are the edges from each to the next and from the last to the first.     *)
Follows(s, g, e) ==
  \/ \E i \in 2..Len(s.list[g]) : e = <<s.list[g][i - 1], s.list[g][i]>>
  \/ e = <<Last(s.list[g]), Head(s.list[g])>>

(* A list has two components or more, a do..while one, a copy none.  Edges *)
(* are between components of the same block.  A goto may lead to any block *)
(* there is.  A loop's block is a copy with an edge to itself.             *)
IsStructure(s) ==
  /\ IsTree(s)
  /\ \A g \in Present(s) :
       /\ s.kind[g] = "list" => IsInjective(s.list[g]) /\ Len(s.list[g]) >= 2
       /\ s.kind[g] = "dowhile" => Len(s.list[g]) <= 1
       /\ s.kind[g] = "copy" => s.list[g] = <<>>
  /\ \A e \in s.edges :
       LET g == s.parent[e[1]]
       IN /\ g # NoBlock /\ s.parent[e[2]] = g
          /\ s.kind[g] = "list" => Follows(s, g, e)
  /\ \A b \in Present(s) : s.target[b] # NoBlock =>
       s.target[b] \in Present(s) /\ s.kind[b] \in Followed \cup Multiway
  /\ \A b \in s.loops : s.kind[b] = "copy" /\ <<b, b>> \in s.edges

ASSUME StructureAssumption ==
  /\ Root \in Block /\ NoBlock \notin Block
  /\ Given \in [Jobs -> Structures]
  /\ \A j \in Jobs : IsStructure(Given[j])

VARIABLES
  job,    \* the function at hand
  parent, list, target, edges,
  live,   \* blocks that have not been deleted
  todo,   \* loops still to be replaced
  body,   \* copyBlk, the block whose wrapper is being removed
  wrapper, \* doWhile
  into,   \* edgesIn
  outof,  \* edgesOut
  slot,   \* index into the wrapper's edges, from 1
  graphs, \* BlockGraphs replaceBlock has still to go through
  pc

fn == Given[job]
kind == fn.kind
tree == <<parent, list, target, edges, live>>
local == <<body, wrapper>>
saved == <<into, outof>>
vars == <<job, tree, todo, local, saved, slot, graphs, pc>>

TypeOK ==
  /\ job \in Jobs
  /\ parent \in [Block -> Block \cup {NoBlock}]
  /\ list \in [Block -> Seq(Block)]
  /\ target \in [Block -> Block \cup {NoBlock}]
  /\ edges \in SUBSET (Block \X Block)
  /\ live \in SUBSET Block
  /\ todo \in SUBSET Block
  /\ {body, wrapper} \subseteq Block \cup {NoBlock}
  /\ into \in SUBSET Block /\ outof \in SUBSET Block
  /\ slot \in Nat \ {0}
  /\ graphs \in SUBSET Block
  /\ pc \in {"idle", "in", "out", "replace", "restore"}

Init ==
  /\ job \in Jobs
  /\ parent = fn.parent /\ list = fn.list /\ target = fn.target /\ edges = fn.edges
  /\ live = Present(fn)
  /\ todo = fn.loops
  /\ body = NoBlock /\ wrapper = NoBlock
  /\ into = {} /\ outof = {}
  /\ slot = 1
  /\ graphs = {}
  /\ pc = "idle"

-----------------------------------------------------------------------------
(* Only a do..while that a list holds is removed.                          *)
Removable(b) ==
  LET w == parent[b]
  IN /\ kind[w] = "dowhile"
     /\ parent[w] # NoBlock /\ kind[parent[w]] = "list"
     /\ w \in ToSet(list[parent[w]])

Start ==
  /\ pc = "idle"
  /\ \E b \in todo :
       /\ Removable(b)
       /\ body' = b /\ wrapper' = parent[b]
       /\ todo' = todo \ {b}
  /\ into' = {} /\ outof' = {} /\ slot' = 1
  /\ pc' = "in"
  /\ UNCHANGED <<job, tree, graphs>>

LeaveAlone ==
  /\ pc = "idle"
  /\ \E b \in todo :
       /\ ~Removable(b)
       /\ todo' = todo \ {b}
  /\ UNCHANGED <<job, tree, local, saved, slot, graphs, pc>>

In(b) == {a \in Block : <<a, b>> \in edges}
Out(b) == {a \in Block : <<b, a>> \in edges}

(* The in-edges are removed while an index runs over them.  Their order is *)
(* left open.                                                              *)
RemoveInEdge ==
  /\ pc = "in"
  /\ slot <= Cardinality(In(wrapper))
  /\ \E b \in In(wrapper) :
       /\ into' = into \cup {b}
       /\ edges' = edges \ {<<b, wrapper>>}
  /\ slot' = slot + 1
  /\ UNCHANGED <<job, parent, list, target, live, todo, local, outof, graphs, pc>>

(* Mutant: the next index begins one too low. *)
InEdgesDoneFromZero ==
  /\ pc = "in"
  /\ slot > Cardinality(In(wrapper))
  /\ slot' = 0
  /\ pc' = "out"
  /\ UNCHANGED <<job, tree, todo, local, saved, graphs>>

InEdgesDone ==
  /\ pc = "in"
  /\ slot > Cardinality(In(wrapper))
  /\ slot' = 1
  /\ pc' = "out"
  /\ UNCHANGED <<job, tree, todo, local, saved, graphs>>

(* Mutant: the out-edges are not remembered. *)
RemoveOutEdgeUnsaved ==
  /\ pc = "out"
  /\ slot <= Cardinality(Out(wrapper))
  /\ \E b \in Out(wrapper) : edges' = edges \ {<<wrapper, b>>}
  /\ slot' = slot + 1
  /\ UNCHANGED <<job, parent, list, target, live, todo, local, saved, graphs, pc>>

RemoveOutEdge ==
  /\ pc = "out"
  /\ slot <= Cardinality(Out(wrapper))
  /\ \E b \in Out(wrapper) :
       /\ outof' = outof \cup {b}
       /\ edges' = edges \ {<<wrapper, b>>}
  /\ slot' = slot + 1
  /\ UNCHANGED <<job, parent, list, target, live, todo, local, into, graphs, pc>>

(* The loop edge goes last.  The body gets its new parent before           *)
(* replaceBlock begins at the root.                                        *)
RemoveSelfEdge ==
  /\ pc = "out"
  /\ slot > Cardinality(Out(wrapper))
  /\ edges' = edges \ {<<body, body>>}
  /\ parent' = [parent EXCEPT ![body] = parent[wrapper]]
  /\ graphs' = {Root}
  /\ pc' = "replace"
  /\ UNCHANGED <<job, list, target, live, todo, local, saved, slot>>

Instead(b) == IF b = wrapper THEN body ELSE b

(* Mutant: the goto target of a BlockIf is overlooked. *)
RetargetedGotos(g) ==
  [b \in Block |-> IF b \in ToSet(list[g]) /\ kind[b] = "goto" THEN Instead(target[b]) ELSE target[b]]

(* replaceBlock looks at the targets of a BlockGraph's components. *)
Retargeted(g) ==
  [b \in Block |-> IF b \in ToSet(list[g]) /\ kind[b] \in Followed THEN Instead(target[b]) ELSE target[b]]

(* One BlockGraph, and those it goes on with: the recursion has an order,  *)
(* but it does not matter.                                                 *)
ReplaceIn ==
  /\ pc = "replace"
  /\ \E g \in graphs :
       /\ list' = [list EXCEPT ![g] = [i \in DOMAIN @ |-> Instead(@[i])]]
       /\ target' = Retargeted(g)
       /\ graphs' = (graphs \ {g}) \cup {b \in ToSet(list[g]) : kind[b] # "copy"}
  /\ UNCHANGED <<job, parent, edges, live, todo, local, saved, slot, pc>>

Unlink ==
  /\ pc = "replace"
  /\ graphs = {}
  /\ list' = [list EXCEPT ![wrapper] = RemoveFirst(@, body)]
  /\ pc' = "restore"
  /\ UNCHANGED <<job, parent, target, edges, live, todo, local, saved, slot, graphs>>

(* addEdge for what was saved, and ~BlockDoWhile, which deletes the        *)
(* components it still has.                                                *)
RestoreAndDelete ==
  /\ pc = "restore"
  /\ edges' = edges \cup (into \X {body}) \cup ({body} \X outof)
  /\ live' = live \ ({wrapper} \cup ToSet(list[wrapper]))
  /\ body' = NoBlock /\ wrapper' = NoBlock
  /\ into' = {} /\ outof' = {} /\ slot' = 1
  /\ pc' = "idle"
  /\ UNCHANGED <<job, parent, list, target, todo, graphs>>

Next ==
  \/ Start \/ LeaveAlone
  \/ RemoveInEdge \/ InEdgesDone \/ RemoveOutEdge \/ RemoveSelfEdge
  \/ ReplaceIn \/ Unlink \/ RestoreAndDelete

Spec == Init /\ [][Next]_vars

-----------------------------------------------------------------------------
(* Properties. *)

(* The goto of a BlockMultiGoto or a BlockSwitch still is what it was,     *)
(* and what it was is a do..while.                                         *)
Overlooked(b) ==
  /\ kind[b] \in Multiway
  /\ target[b] = fn.target[b] /\ kind[target[b]] = "dowhile"

(* No block that exists refers to one that has been deleted: not as its    *)
(* parent, a component, the target of its goto, or at the end of an edge,  *)
(* one still to be restored included.  The one exception is a goto that    *)
(* replaceBlock overlooks.                                                 *)
OnlyOverlookedDangle ==
  /\ \A b \in live :
       /\ parent[b] \in live \cup {NoBlock}
       /\ ToSet(list[b]) \subseteq live
       /\ target[b] \in live \cup {NoBlock} \/ Overlooked(b)
  /\ \A e \in edges : {e[1], e[2]} \subseteq live
  /\ into \cup outof \subseteq live
  /\ {body, wrapper} \subseteq live \cup {NoBlock}

(* The loops dealt with whose do..while was in a list *)
Freed ==
  {b \in fn.loops \ todo :
     kind[fn.parent[b]] = "dowhile" /\ fn.parent[fn.parent[b]] # NoBlock
       /\ kind[fn.parent[fn.parent[b]]] = "list"}

Now(b) == IF \E f \in Freed : fn.parent[f] = b THEN CHOOSE f \in Freed : fn.parent[f] = b ELSE b

(* Between two replacements, the structure is the original one with each   *)
(* do..while that a list held, and whose loop is gone, contracted to its   *)
(* body: all or nothing, whatever the order of the replacements.  Order    *)
(* and components of the other blocks and edges are as they were, and so   *)
(* are jumps, but for the gotos that replaceBlock overlooks: a goto to     *)
(* such a do..while is left with the deleted block.                        *)
StructureKept ==
  pc = "idle" =>
    /\ live = {b \in Present(fn) : Now(b) = b}
    /\ \A b \in live :
         /\ parent[b] = IF b \in Freed THEN fn.parent[fn.parent[b]] ELSE fn.parent[b]
         /\ list[b] = [i \in DOMAIN fn.list[b] |-> Now(fn.list[b][i])]
         /\ target[b] = IF kind[b] \in Multiway THEN fn.target[b] ELSE Now(fn.target[b])
    /\ edges = {<<Now(e[1]), Now(e[2])>> : e \in fn.edges} \ {<<b, b>> : b \in Freed}
=============================================================================
