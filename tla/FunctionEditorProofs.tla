------------------------- MODULE FunctionEditorProofs -------------------------
(***************************************************************************)
(* What simplifyBlocks guarantees for every function and every edit list:  *)
(* its state is well typed, an op is unlinked once, purging makes no new   *)
(* stale reader, the review set is exactly the set of live ops with a      *)
(* stale input until it is worked off, and no reader but a phi is then     *)
(* left with a stale input unreported; a phi that fitted its block has no  *)
(* more slots than the block has edges, and one of two inputs keeps what   *)
(* comes along an edge on that edge; what is not handed over for deletion  *)
(* and is read is left as it was, but for what reads something deleted.    *)
(***************************************************************************)
EXTENDS FunctionEditor, SequenceFacts

-----------------------------------------------------------------------------
(* Edits of a function. *)

(* What an op reads are Varnodes of the function. *)
LEMMA ReadsType ==
  ASSUME NEW inputs \in InputSeqs, NEW op \in Op
  PROVE  /\ inputs[op] \in Seq(Vn)
         /\ Reads(inputs, op) \subseteq Vn
         /\ DOMAIN inputs[op] = 1..Len(inputs[op])
         /\ \A i \in 1..Len(inputs[op]) : inputs[op][i] \in Vn /\ inputs[op][i] \in Reads(inputs, op)
<1>1. inputs[op] \in Seq(Vn)
  BY DEF InputSeqs
<1>2. /\ DOMAIN inputs[op] = 1..Len(inputs[op])
      /\ \A i \in 1..Len(inputs[op]) : inputs[op][i] \in Vn
  BY <1>1, LenProperties, ElementOfSeq
<1> QED BY <1>1, <1>2 DEF Reads, ToSet

(* opUnlink keeps SSA form, and leaves exactly the op's output without a   *)
(* definition.                                                             *)
LEMMA UnlinkFacts ==
  ASSUME NEW inputs \in InputSeqs, NEW outputs \in Outputs, IsSSA(outputs), NEW op \in Op
  PROVE  /\ UnlinkedIns(inputs, op) \in InputSeqs
         /\ UnlinkedOut(outputs, op) \in Outputs
         /\ UnlinkedIns(inputs, op)[op] = <<>>
         /\ UnlinkedOut(outputs, op)[op] = NoVn
         /\ \A x \in Op \ {op} : /\ UnlinkedIns(inputs, op)[x] = inputs[x]
                                 /\ UnlinkedOut(outputs, op)[x] = outputs[x]
         /\ IsSSA(UnlinkedOut(outputs, op))
         /\ \A vn \in Vn : IsStale(UnlinkedOut(outputs, op), vn)
                             <=> IsStale(outputs, vn) \/ vn = outputs[op]
<1> DEFINE o2 == UnlinkedOut(outputs, op)
<1>1. UnlinkedIns(inputs, op) \in InputSeqs
  <2>1. <<>> \in Seq(Vn)
    OBVIOUS
  <2> QED BY <2>1 DEF UnlinkedIns, InputSeqs
<1>2. /\ o2 \in Outputs
      /\ o2[op] = NoVn
      /\ \A x \in Op \ {op} : o2[x] = outputs[x]
  BY DEF UnlinkedOut, Outputs
<1>3. /\ UnlinkedIns(inputs, op)[op] = <<>>
      /\ \A x \in Op \ {op} : UnlinkedIns(inputs, op)[x] = inputs[x]
  BY DEF UnlinkedIns, InputSeqs
<1> HIDE DEF o2
<1>4. IsSSA(o2)
  BY <1>2 DEF IsSSA
<1>5. ASSUME NEW vn \in Vn
      PROVE  IsStale(o2, vn) <=> IsStale(outputs, vn) \/ vn = outputs[op]
  <2>1. vn # NoVn
    BY VnAssumption
  <2>2. Written(o2, vn) <=> \E x \in Op \ {op} : outputs[x] = vn
    BY <1>2, <2>1 DEF Written
  <2>3. CASE vn = outputs[op]
    <3>1. ~Written(o2, vn) /\ vn \notin InputVn \cup PoolVn
      BY <2>1, <2>2, <2>3 DEF IsSSA
    <3> QED BY <3>1, <2>3 DEF IsStale, IsFree
  <2>4. CASE vn # outputs[op]
    <3>1. Written(o2, vn) <=> Written(outputs, vn)
      BY <2>2, <2>4 DEF Written
    <3> QED BY <3>1, <2>4 DEF IsStale, IsFree
  <2> QED BY <2>3, <2>4
<1> QED BY <1>1, <1>2, <1>3, <1>4, <1>5 DEF o2

(* Removing a slot of op changes what op reads, and nothing else. *)
LEMMA SlotRemovedFacts ==
  ASSUME NEW inputs \in InputSeqs, NEW op \in Op, NEW i \in 1..Len(inputs[op])
  PROVE  /\ SlotRemoved(inputs, op, i) \in InputSeqs
         /\ SlotRemoved(inputs, op, i)[op] = RemoveAt(inputs[op], i)
         /\ \A x \in Op \ {op} : SlotRemoved(inputs, op, i)[x] = inputs[x]
         /\ Reads(SlotRemoved(inputs, op, i), op) \subseteq Reads(inputs, op)
         /\ \A vn \in Reads(inputs, op) :
              vn # inputs[op][i] => vn \in Reads(SlotRemoved(inputs, op, i), op)
<1> DEFINE s == inputs[op]
           new == SlotRemoved(inputs, op, i)
<1>1. s \in Seq(Vn) /\ DOMAIN s = 1..Len(s)
  BY ReadsType
<1>2. /\ RemoveAt(s, i) \in Seq(Vn)
      /\ ToSet(RemoveAt(s, i)) \subseteq ToSet(s)
      /\ \A j \in 1..Len(s) : j # i => s[j] \in ToSet(RemoveAt(s, i))
  BY <1>1, RemoveAtFacts
<1>3. /\ new[op] = RemoveAt(s, i)
      /\ \A x \in Op \ {op} : new[x] = inputs[x]
      /\ new = [inputs EXCEPT ![op] = RemoveAt(s, i)]
  BY DEF SlotRemoved, InputSeqs
<1>4. new \in InputSeqs
  BY <1>2, <1>3 DEF InputSeqs
<1> HIDE DEF s, new
<1>5. ASSUME NEW vn \in ToSet(s), vn # s[i]
      PROVE  vn \in ToSet(RemoveAt(s, i))
  <2>1. PICK j \in DOMAIN s : s[j] = vn
    BY DEF ToSet
  <2> QED BY <2>1, <1>1, <1>2, <1>5
<1>6. Reads(inputs, op) = ToSet(s) /\ Reads(new, op) = ToSet(RemoveAt(s, i))
  BY <1>3 DEF Reads, s
<1>7. /\ Reads(new, op) \subseteq Reads(inputs, op)
      /\ \A vn \in Reads(inputs, op) : vn # s[i] => vn \in Reads(new, op)
  BY <1>2, <1>5, <1>6
<1> QED BY <1>3, <1>4, <1>7 DEF new, s

(* Inserting a slot keeps the function well typed. *)
LEMMA SlotInsertedFacts ==
  ASSUME NEW inputs \in InputSeqs, NEW op \in Op, NEW i \in 1..(Len(inputs[op])+1), NEW vn \in Vn
  PROVE  /\ SlotInserted(inputs, op, i, vn) \in InputSeqs
         /\ \A x \in Op \ {op} : SlotInserted(inputs, op, i, vn)[x] = inputs[x]
<1>1. inputs[op] \in Seq(Vn)
  BY ReadsType
<1>2. InsertAt(inputs[op], i, vn) \in Seq(Vn)
  BY <1>1, InsertAtFacts
<1> QED BY <1>2 DEF SlotInserted, InputSeqs

-----------------------------------------------------------------------------
(* The initial state. *)

LEMMA JobType ==
  ASSUME job \in Jobs
  PROVE  /\ fn.ins \in InputSeqs
         /\ fn.out \in Outputs
         /\ fn.live \in SUBSET Op
         /\ fn.edges \in [Block -> Seq(Block)]
         /\ fn.del \in SUBSET Op
         /\ fn.epilog \in Seq(Block)
         /\ fn.related \in Seq(Block)
         /\ WellFormed(fn)
<1>1. fn \in EditJobs /\ WellFormed(fn)
  BY EditorAssumption DEF fn
<1> QED BY <1>1 DEF EditJobs

LEMMA InitInv == Init => IInv
<1> SUFFICES ASSUME Init PROVE IInv
  OBVIOUS
<1>1. job \in Jobs
  BY DEF Init
<1>2. /\ fn.ins \in InputSeqs /\ fn.out \in Outputs /\ fn.live \in SUBSET Op
      /\ fn.edges \in [Block -> Seq(Block)] /\ fn.del \in SUBSET Op
      /\ fn.epilog \in Seq(Block) /\ fn.related \in Seq(Block) /\ WellFormed(fn)
  BY <1>1, JobType
<1> HIDE DEF fn
<1>3. TypeOK
  <2>1. <<LoopBlock>> \in Seq(Block)
    BY EditorAssumption
  <2>2. blocks \in Seq(Block)
    BY <1>2, <2>1, ConcatProperties DEF Init
  <2> QED BY <1>1, <1>2, <2>2 DEF Init, TypeOK, PCs
<1>4. GraphInv
  BY <1>2 DEF Init, GraphInv, WellFormed
<1>5. ReviewExact
  <2>1. \A op \in live : ~HasStaleRead(op)
    BY <1>2 DEF Init, WellFormed, HasStaleRead
  <2> QED BY <2>1 DEF Init, ReviewExact
<1>6. NoDoubleUnlink
  BY <1>2 DEF Init, NoDoubleUnlink, WellFormed
<1>7. UnreadQueued
  BY DEF Init, UnreadQueued
<1>8. RepairedCalls
  BY DEF Init, RepairedCalls, Editing
<1>9. StaleReadsListed
  BY DEF Init, StaleReadsListed, Editing
<1> QED BY <1>3, <1>4, <1>5, <1>6, <1>7, <1>8, <1>9 DEF IInv

-----------------------------------------------------------------------------
(* Deleting one op. *)

(* deleteOp keeps the function in shape and the review set exact: the ops  *)
(* that become stale readers are those on the descend list of the output.  *)
LEMMA DeleteOpFacts ==
  ASSUME TypeOK, GraphInv, NEW op \in Op, DeleteOp(op),
         review = {x \in live : HasStaleRead(x)}
  PROVE  /\ ins' \in InputSeqs /\ out' \in Outputs
         /\ live' = live \ {op} /\ review' \in SUBSET Op
         /\ GraphInv'
         /\ review' = {x \in live' : HasStaleRead(x)'}
         /\ \A x \in Op : Readers(ins, out[x]) = {} => Readers(ins', out'[x]) = {}
<1>1. /\ ins \in InputSeqs /\ out \in Outputs /\ live \in SUBSET Op /\ review \in SUBSET Op
      /\ IsSSA(out)
      /\ \A x \in Op \ live : ins[x] = <<>> /\ out[x] = NoVn
  BY DEF TypeOK, GraphInv
<1>2. /\ ins' \in InputSeqs /\ out' \in Outputs /\ IsSSA(out')
      /\ ins'[op] = <<>> /\ out'[op] = NoVn
      /\ \A x \in Op \ {op} : ins'[x] = ins[x] /\ out'[x] = out[x]
      /\ \A vn \in Vn : IsStale(out', vn) <=> IsStale(out, vn) \/ vn = out[op]
  BY <1>1, UnlinkFacts DEF DeleteOp
<1>3. live' = live \ {op} /\ review' = (review \cup Readers(ins, out[op])) \ {op}
  BY DEF DeleteOp, Reviewed
<1>4. GraphInv'
  BY <1>1, <1>2, <1>3 DEF GraphInv
<1>5. \A x \in Op : Reads(ins, x) \subseteq Vn
  BY <1>1, ReadsType
<1>6. \A x \in Op \ {op} : Reads(ins', x) = Reads(ins, x)
  BY <1>2 DEF Reads
<1>7. Reads(ins', op) = {}
  BY <1>2 DEF Reads, ToSet
<1>8. \A x \in Op \ live : Reads(ins, x) = {}
  BY <1>1 DEF Reads, ToSet
<1>9. \A x \in Op \ {op} : HasStaleRead(x)' <=> HasStaleRead(x) \/ x \in Readers(ins, out[op])
  <2> TAKE x \in Op \ {op}
  <2>1. HasStaleRead(x)' <=> \E vn \in Reads(ins, x) : IsStale(out', vn)
    BY <1>6 DEF HasStaleRead
  <2>2. HasStaleRead(x)' <=> \E vn \in Reads(ins, x) : IsStale(out, vn) \/ vn = out[op]
    BY <1>2, <1>5, <2>1
  <2> QED BY <2>2 DEF HasStaleRead, Readers
<1>10. review' = {x \in live' : HasStaleRead(x)'}
  <2>1. Readers(ins, out[op]) \subseteq live
    BY <1>8 DEF Readers
  <2>2. ASSUME NEW x PROVE x \in review' <=> x \in live' /\ HasStaleRead(x)'
    <3>1. CASE x \in Op \ {op}
      BY <3>1, <1>3, <1>9, <2>1
    <3>2. CASE x \notin Op \ {op}
      BY <3>2, <1>1, <1>3, <2>1
    <3> QED BY <3>1, <3>2
  <2> QED BY <2>2
<1>11. ASSUME NEW x \in Op, Readers(ins, out[x]) = {}
       PROVE  Readers(ins', out'[x]) = {}
  <2>1. \A y \in Op : Reads(ins', y) \subseteq Reads(ins, y)
    BY <1>6, <1>7
  <2>2. CASE x = op
    <3>1. NoVn \notin Vn
      BY VnAssumption
    <3> QED BY <2>1, <2>2, <3>1, <1>2, <1>5 DEF Readers
  <2>3. CASE x # op
    BY <2>1, <2>3, <1>2, <1>11 DEF Readers
  <2> QED BY <2>2, <2>3
<1> QED BY <1>1, <1>2, <1>3, <1>4, <1>10, <1>11 DEF Readers

-----------------------------------------------------------------------------
(* One step of the deletions. *)

(* The invariant survives a deletion, by either loop. *)
LEMMA DeletionStep ==
  ASSUME IInv, pc \in {"delete", "purge"}, NEW op \in todo, DeleteOp(op),
         todo' = todo \ {op},
         UNCHANGED <<job, edges, fixed, blocks, walk, pc>>
  PROVE  IInv'
<1>1. /\ TypeOK /\ GraphInv /\ ReviewExact /\ NoDoubleUnlink /\ UnreadQueued
      /\ RepairedCalls /\ pc \in Editing
  BY DEF IInv, Editing
<1>2. op \in Op /\ review = {x \in live : HasStaleRead(x)}
  BY <1>1 DEF TypeOK, ReviewExact
<1>3. /\ ins' \in InputSeqs /\ out' \in Outputs
      /\ live' = live \ {op} /\ review' \in SUBSET Op
      /\ GraphInv'
      /\ review' = {x \in live' : HasStaleRead(x)'}
      /\ \A x \in Op : Readers(ins, out[x]) = {} => Readers(ins', out'[x]) = {}
  BY <1>1, <1>2, DeleteOpFacts
<1>4. TypeOK'
  BY <1>1, <1>3 DEF TypeOK, walk
<1>5. ReviewExact'
  BY <1>3 DEF ReviewExact
<1>6. NoDoubleUnlink'
  BY <1>1, <1>3 DEF NoDoubleUnlink
<1>7. UnreadQueued'
  BY <1>1, <1>3 DEF UnreadQueued, TypeOK
<1>8. RepairedCalls'
  BY <1>1 DEF RepairedCalls, Editing, walk
<1>9. StaleReadsListed'
  BY <1>1 DEF StaleReadsListed, Editing
<1> QED BY <1>3, <1>4, <1>5, <1>6, <1>7, <1>8, <1>9 DEF IInv

(* Steps that leave the ops and the review set alone, before the review. *)
LEMMA EditingStep ==
  ASSUME IInv, pc \in Editing, pc' \in Editing, TypeOK',
         UNCHANGED <<graph, review, fixed, cur>>,
         NoDoubleUnlink', UnreadQueued'
  PROVE  IInv'
<1>1. GraphInv'
  BY DEF IInv, GraphInv, graph
<1>2. ReviewExact'
  BY DEF IInv, ReviewExact, HasStaleRead, graph
<1>3. RepairedCalls'
  BY DEF IInv, RepairedCalls, Editing
<1>4. StaleReadsListed'
  BY DEF StaleReadsListed
<1> QED BY <1>1, <1>2, <1>3, <1>4 DEF IInv

LEMMA RemoveLoopEdgeInv == IInv /\ RemoveLoopEdge => IInv'
<1> SUFFICES ASSUME IInv, RemoveLoopEdge PROVE IInv'
  OBVIOUS
<1>1. TypeOK /\ pc \in Editing /\ pc' \in Editing
  BY DEF IInv, RemoveLoopEdge, Editing
<1>2. TypeOK'
  <2>1. PICK i \in DOMAIN edges[LoopBlock] :
          edges' = [edges EXCEPT ![LoopBlock] = RemoveAt(@, i)]
    BY DEF RemoveLoopEdge
  <2>2. edges[LoopBlock] \in Seq(Block) /\ edges \in [Block -> Seq(Block)]
    BY <1>1, EditorAssumption DEF TypeOK
  <2>3. i \in 1..Len(edges[LoopBlock])
    BY <2>1, <2>2, LenProperties
  <2>4. RemoveAt(edges[LoopBlock], i) \in Seq(Block)
    BY <2>2, <2>3, RemoveAtFacts
  <2>5. edges' \in [Block -> Seq(Block)]
    BY <2>1, <2>2, <2>4
  <2>6. todo' \in SUBSET Op
    BY <1>1 DEF RemoveLoopEdge, TypeOK
  <2> QED BY <1>1, <2>5, <2>6 DEF RemoveLoopEdge, TypeOK, PCs, graph, walk
<1>3. NoDoubleUnlink' /\ UnreadQueued'
  BY DEF RemoveLoopEdge, NoDoubleUnlink, UnreadQueued
<1> QED BY <1>1, <1>2, <1>3, EditingStep DEF RemoveLoopEdge, walk

LEMMA TrimPhiInv == IInv /\ TrimPhi => IInv'
<1> SUFFICES ASSUME IInv, TrimPhi PROVE IInv'
  OBVIOUS
<1>1. TypeOK /\ GraphInv /\ ReviewExact /\ RepairedCalls /\ pc = "trim" /\ pc' = "trim"
  BY DEF IInv, TrimPhi
<1>2. PICK op \in todo :
        /\ todo' = todo \ {op}
        /\ IF out[op] \in Reads(ins, op)
           THEN \E i \in DOMAIN ins[op] :
                  /\ IsFirst(ins[op], out[op], i)
                  /\ ins' = SlotRemoved(ins, op, i)
           ELSE UNCHANGED ins
  BY DEF TrimPhi
<1>3. op \in Op /\ ins \in InputSeqs /\ out \in Outputs /\ live \in SUBSET Op
  BY <1>1 DEF TypeOK
<1>4. /\ ins' \in InputSeqs
      /\ \A x \in Op \ {op} : ins'[x] = ins[x]
      /\ HasStaleRead(op)' <=> HasStaleRead(op)
      /\ op \in Op \ live => ins'[op] = <<>>
  <2>1. CASE out[op] \notin Reads(ins, op)
    BY <2>1, <1>1, <1>2, <1>3 DEF HasStaleRead, TrimPhi, GraphInv
  <2>2. CASE out[op] \in Reads(ins, op)
    <3>1. PICK i \in DOMAIN ins[op] : ins[op][i] = out[op] /\ ins' = SlotRemoved(ins, op, i)
      BY <1>2, <2>2 DEF IsFirst
    <3>2. i \in 1..Len(ins[op])
      BY <1>3, <3>1, ReadsType
    <3>3. /\ ins' \in InputSeqs
          /\ \A x \in Op \ {op} : ins'[x] = ins[x]
          /\ Reads(ins', op) \subseteq Reads(ins, op)
          /\ \A vn \in Reads(ins, op) : vn # out[op] => vn \in Reads(ins', op)
      BY <1>3, <3>1, <3>2, SlotRemovedFacts
    <3>4. ~IsStale(out, out[op])
      BY <1>3 DEF IsStale, IsFree, Written
    <3>5. HasStaleRead(op)' <=> \E vn \in Reads(ins', op) : IsStale(out, vn)
      BY DEF HasStaleRead, TrimPhi
    <3>6. op \in live
      BY <1>1, <1>3, <2>2 DEF GraphInv, Reads, ToSet
    <3> QED BY <3>3, <3>4, <3>5, <3>6 DEF HasStaleRead
  <2> QED BY <2>1, <2>2
<1>5. TypeOK'
  BY <1>1, <1>2, <1>4 DEF TypeOK, TrimPhi, walk
<1>6. GraphInv'
  BY <1>1, <1>3, <1>4 DEF GraphInv, TrimPhi
<1>7. ReviewExact'
  <2>1. \A x \in Op : HasStaleRead(x)' <=> HasStaleRead(x)
    BY <1>4 DEF HasStaleRead, TrimPhi, Reads
  <2> QED BY <2>1, <1>1, <1>3 DEF ReviewExact, TrimPhi
<1>8. NoDoubleUnlink' /\ UnreadQueued'
  BY <1>1 DEF NoDoubleUnlink, UnreadQueued
<1>9. RepairedCalls'
  BY <1>1 DEF RepairedCalls, TrimPhi, Editing, walk
<1>10. StaleReadsListed'
  BY <1>1 DEF StaleReadsListed, Editing
<1> QED BY <1>5, <1>6, <1>7, <1>8, <1>9, <1>10 DEF IInv

LEMMA TrimDoneInv == IInv /\ TrimDone => IInv'
<1> SUFFICES ASSUME IInv, TrimDone PROVE IInv'
  OBVIOUS
<1>1. TypeOK /\ pc \in Editing /\ pc' \in Editing
  BY DEF IInv, TrimDone, Editing
<1>2. TypeOK'
  BY <1>1 DEF TypeOK, TrimDone, PCs, graph, walk
<1>3. NoDoubleUnlink' /\ UnreadQueued'
  BY DEF TrimDone, NoDoubleUnlink, UnreadQueued
<1> QED BY <1>1, <1>2, <1>3, EditingStep DEF TrimDone, walk

LEMMA ScanBlockInv == IInv /\ ScanBlock => IInv'
<1> SUFFICES ASSUME IInv, ScanBlock PROVE IInv'
  OBVIOUS
<1>1. TypeOK /\ pc = "purge" /\ pc' = "purge"
  BY DEF IInv, ScanBlock
<1>2. todo' \subseteq live /\ \A op \in todo' : Readers(ins, out[op]) = {}
  BY DEF ScanBlock, Unread
<1>3. TypeOK'
  <2>1. blocks # <<>> /\ blocks \in Seq(Block) /\ (blocks' = blocks \/ blocks' = Tail(blocks))
    BY <1>1 DEF ScanBlock, TypeOK
  <2>2. blocks' \in Seq(Block)
    BY <2>1, HeadTailProperties
  <2> QED BY <1>1, <1>2, <2>2 DEF TypeOK, ScanBlock, graph, walk
<1>4. NoDoubleUnlink' /\ UnreadQueued'
  BY <1>2 DEF ScanBlock, NoDoubleUnlink, UnreadQueued, graph
<1> QED BY <1>1, <1>3, <1>4, EditingStep DEF ScanBlock, walk, Editing

-----------------------------------------------------------------------------
(* One step of the review or of the audit. *)

LEMMA StartReviewInv == IInv /\ StartReview => IInv'
<1> SUFFICES ASSUME IInv, StartReview PROVE IInv'
  OBVIOUS
<1>1. /\ TypeOK /\ GraphInv /\ ReviewExact /\ RepairedCalls
      /\ pc = "purge" /\ pc' = "review" /\ pc \in Editing /\ pc' \notin Editing
  BY DEF IInv, StartReview, Editing
<1>2. TypeOK'
  BY <1>1 DEF TypeOK, StartReview, PCs, graph, walk
<1>3. GraphInv'
  BY <1>1 DEF GraphInv, StartReview, graph
<1>4. ReviewExact' /\ NoDoubleUnlink' /\ UnreadQueued'
  BY <1>1 DEF ReviewExact, NoDoubleUnlink, UnreadQueued
<1>5. RepairedCalls'
  BY <1>1 DEF RepairedCalls, StartReview, walk
<1>6. StaleReadsListed'
  BY <1>1 DEF StaleReadsListed, ReviewExact, HasStaleRead, StartReview, graph
<1> QED BY <1>2, <1>3, <1>4, <1>5, <1>6 DEF IInv

(* Repairs never add an input to an op that is not a phi. *)
LEMMA RepairStep ==
  ASSUME IInv, pc \notin Editing, pc' \notin Editing, TypeOK',
         UNCHANGED <<out, live, review>>,
         \A x \in Op \ live : ins'[x] = <<>>,
         \A x \in Op : code[x] # "MULTIEQUAL" => Reads(ins', x) \subseteq Reads(ins, x),
         RepairedCalls'
  PROVE  IInv'
<1>1. GraphInv'
  BY DEF IInv, GraphInv
<1>2. ReviewExact' /\ NoDoubleUnlink' /\ UnreadQueued'
  BY DEF ReviewExact, NoDoubleUnlink, UnreadQueued, Editing
<1>3. StaleReadsListed'
  BY DEF IInv, TypeOK, StaleReadsListed, HasStaleRead
<1> QED BY <1>1, <1>2, <1>3 DEF IInv

(* Steps that only move on to another slot or another op. *)
LEMMA WalkStep ==
  ASSUME IInv, pc \notin Editing, pc' \notin Editing, TypeOK',
         UNCHANGED <<graph, review>>, RepairedCalls'
  PROVE  IInv'
<1>1. UNCHANGED <<ins, out, live, review>>
  BY DEF graph
<1> QED BY <1>1, RepairStep DEF IInv, GraphInv

(* Steps that repair slots of the phi under review. *)
LEMMA PhiRepairStep ==
  ASSUME IInv, pc \notin Editing, pc' \in {pc, "aborted"}, TypeOK',
         UNCHANGED <<out, live, review, todo, cur>>,
         cur \in live, code[cur] = "MULTIEQUAL",
         fixed' \in {fixed, fixed \cup {cur}},
         \A x \in Op \ {cur} : ins'[x] = ins[x]
  PROVE  IInv'
<1>1. TypeOK /\ GraphInv /\ RepairedCalls /\ pc' \notin Editing
  BY DEF IInv, Editing
<1>2. \A x \in Op : x # cur => Reads(ins', x) = Reads(ins, x)
  BY DEF Reads
<1>3. RepairedCalls'
  BY <1>1, <1>2 DEF RepairedCalls, TypeOK
<1>4. \A x \in Op \ live : ins'[x] = <<>>
  BY <1>1 DEF GraphInv
<1> QED BY <1>1, <1>2, <1>3, <1>4, RepairStep

(* The op a slot of which is looked at is live. *)
LEMMA AtSlotFacts ==
  ASSUME IInv, cur # NoOp, slot <= Len(ins[cur])
  PROVE  /\ cur \in live /\ cur \in Op
         /\ ins \in InputSeqs
         /\ slot \in 1..Len(ins[cur])
         /\ ins[cur] \in Seq(Vn)
<1>1. cur \in Op /\ ins \in InputSeqs /\ slot \in Nat \ {0}
  BY DEF IInv, TypeOK
<1>2. ins[cur] \in Seq(Vn) /\ Len(ins[cur]) \in Nat
  BY <1>1, LenProperties DEF InputSeqs
<1>3. cur \in live
  <2>1. Len(ins[cur]) # 0
    BY <1>1, <1>2
  <2> QED BY <1>1, <2>1 DEF IInv, GraphInv
<1> QED BY <1>1, <1>2, <1>3

LEMMA ReviewOpInv == IInv /\ ReviewOp => IInv'
<1> SUFFICES ASSUME IInv, ReviewOp PROVE IInv'
  OBVIOUS
<1>1. TypeOK /\ RepairedCalls /\ pc = "review" /\ pc' = "review" /\ cur = NoOp
  BY DEF IInv, ReviewOp
<1>2. TypeOK'
  BY <1>1 DEF TypeOK, ReviewOp, graph
<1>3. RepairedCalls'
  BY <1>1, EditorAssumption DEF RepairedCalls, ReviewOp, TypeOK, graph, Editing
<1> QED BY <1>1, <1>2, <1>3, WalkStep DEF ReviewOp, Editing

LEMMA KeepPhiSlotInv == IInv /\ KeepPhiSlot => IInv'
<1> SUFFICES ASSUME IInv, KeepPhiSlot PROVE IInv'
  OBVIOUS
<1>1. TypeOK /\ RepairedCalls /\ pc = "review" /\ pc' = "review"
  BY DEF IInv, KeepPhiSlot, AtSlot
<1>2. TypeOK'
  BY <1>1 DEF TypeOK, KeepPhiSlot, graph
<1>3. RepairedCalls'
  BY <1>1 DEF RepairedCalls, KeepPhiSlot, AtSlot, graph, Editing
<1> QED BY <1>1, <1>2, <1>3, WalkStep DEF KeepPhiSlot, Editing

LEMMA DuplicatePhiSlotInv == IInv /\ DuplicatePhiSlot => IInv'
<1> SUFFICES ASSUME IInv, DuplicatePhiSlot PROVE IInv'
  OBVIOUS
<1>1. TypeOK /\ pc = "review" /\ pc' = "review" /\ cur # NoOp
      /\ slot <= Len(ins[cur]) /\ code[cur] = "MULTIEQUAL" /\ Len(ins[cur]) = 2
  BY DEF IInv, DuplicatePhiSlot, AtSlot
<1>2. cur \in live /\ cur \in Op /\ ins \in InputSeqs /\ slot \in 1..Len(ins[cur])
      /\ ins[cur] \in Seq(Vn)
  BY <1>1, AtSlotFacts
<1> DEFINE shorter == SlotRemoved(ins, cur, slot)
<1>3. /\ shorter \in InputSeqs
      /\ shorter[cur] = RemoveAt(ins[cur], slot)
      /\ \A x \in Op \ {cur} : shorter[x] = ins[x]
  BY <1>2, SlotRemovedFacts
<1>4. Len(shorter[cur]) = 1
  <2>1. Len(RemoveAt(ins[cur], slot)) = Len(ins[cur]) - 1
    BY <1>2, RemoveAtFacts
  <2> QED BY <1>1, <1>3, <2>1
<1>5. ins[cur][GoodSlot] \in Vn
  <2>1. GoodSlot \in 1..Len(ins[cur])
    BY <1>1 DEF GoodSlot
  <2> QED BY <1>2, <2>1, ReadsType
<1>6. ins' = SlotInserted(shorter, cur, slot, ins[cur][GoodSlot])
  BY DEF DuplicatePhiSlot
<1> HIDE DEF shorter
<1>7. ins' \in InputSeqs /\ \A x \in Op \ {cur} : ins'[x] = ins[x]
  <2>1. slot \in 1..(Len(shorter[cur]) + 1)
    BY <1>1, <1>2, <1>4
  <2> QED BY <1>2, <1>3, <1>5, <1>6, <2>1, SlotInsertedFacts
<1>8. TypeOK'
  BY <1>1, <1>2, <1>7 DEF TypeOK, DuplicatePhiSlot
<1> QED BY <1>1, <1>2, <1>7, <1>8, PhiRepairStep DEF DuplicatePhiSlot, Editing

(* Removing the slot reached keeps the state well typed. *)
LEMMA RemoveSlotType ==
  ASSUME IInv, cur # NoOp, slot <= Len(ins[cur]),
         ins' = SlotRemoved(ins, cur, slot),
         fixed' \in {fixed, fixed \cup {cur}}, pc' \in {pc, "aborted"},
         UNCHANGED <<job, out, live, edges, review, todo, blocks, walk>>
  PROVE  TypeOK' /\ \A x \in Op \ {cur} : ins'[x] = ins[x]
<1>1. cur \in Op /\ ins \in InputSeqs /\ slot \in 1..Len(ins[cur])
  BY AtSlotFacts
<1>2. ins' \in InputSeqs /\ \A x \in Op \ {cur} : ins'[x] = ins[x]
  BY <1>1, SlotRemovedFacts
<1> QED BY <1>1, <1>2 DEF IInv, TypeOK, PCs, walk

LEMMA AbortOnSlotInv == IInv /\ AbortOnSlot => IInv'
<1> SUFFICES ASSUME IInv, AbortOnSlot PROVE IInv'
  OBVIOUS
<1>1. pc = "review" /\ cur # NoOp /\ slot <= Len(ins[cur]) /\ code[cur] = "MULTIEQUAL"
      /\ cur \in live
  BY AtSlotFacts DEF AbortOnSlot, AtSlot
<1>2. TypeOK' /\ \A x \in Op \ {cur} : ins'[x] = ins[x]
  BY <1>1, RemoveSlotType DEF AbortOnSlot
<1> QED BY <1>1, <1>2, PhiRepairStep DEF AbortOnSlot, Editing, walk

LEMMA RemovePhiSlotInv == IInv /\ RemovePhiSlot => IInv'
<1> SUFFICES ASSUME IInv, RemovePhiSlot PROVE IInv'
  OBVIOUS
<1>1. pc = "review" /\ cur # NoOp /\ slot <= Len(ins[cur]) /\ code[cur] = "MULTIEQUAL"
      /\ cur \in live
  BY AtSlotFacts DEF RemovePhiSlot, AtSlot
<1>2. TypeOK' /\ \A x \in Op \ {cur} : ins'[x] = ins[x]
  BY <1>1, RemoveSlotType DEF RemovePhiSlot
<1> QED BY <1>1, <1>2, PhiRepairStep DEF RemovePhiSlot, Editing, walk

LEMMA KeepCallSlotInv == IInv /\ KeepCallSlot => IInv'
<1> SUFFICES ASSUME IInv, KeepCallSlot PROVE IInv'
  OBVIOUS
<1>1. TypeOK /\ RepairedCalls /\ pc = "review" /\ pc' = "review" /\ cur # NoOp
  BY DEF IInv, KeepCallSlot, AtSlot
<1>2. TypeOK'
  BY <1>1 DEF TypeOK, KeepCallSlot, graph
<1>3. RepairedCalls'
  <2>1. \A i \in 1..Len(ins[cur]) : i < slot' => i < slot \/ i = slot
    BY <1>1 DEF KeepCallSlot, TypeOK
  <2> QED BY <1>1, <2>1 DEF RepairedCalls, KeepCallSlot, AtSlot, graph, Editing
<1> QED BY <1>1, <1>2, <1>3, WalkStep DEF KeepCallSlot, Editing

LEMMA RemoveCallSlotInv == IInv /\ RemoveCallSlot => IInv'
<1> SUFFICES ASSUME IInv, RemoveCallSlot PROVE IInv'
  OBVIOUS
<1>1. /\ TypeOK /\ GraphInv /\ RepairedCalls /\ pc = "review" /\ pc' = "review" /\ cur # NoOp
      /\ slot <= Len(ins[cur]) /\ code[cur] = "CALL" /\ cur' = cur /\ slot' = slot
      /\ UNCHANGED <<out, live, review, todo>>
  BY DEF IInv, RemoveCallSlot, AtSlot, walk
<1>2. cur \in live /\ cur \in Op /\ ins \in InputSeqs /\ slot \in 1..Len(ins[cur])
      /\ ins[cur] \in Seq(Vn)
  BY <1>1, AtSlotFacts
<1>3. TypeOK' /\ \A x \in Op \ {cur} : ins'[x] = ins[x]
  BY <1>1, RemoveSlotType DEF RemoveCallSlot
<1>4. \A x \in Op : Reads(ins', x) \subseteq Reads(ins, x)
  <2>1. Reads(ins', cur) \subseteq Reads(ins, cur)
    BY <1>2, SlotRemovedFacts DEF RemoveCallSlot
  <2> QED BY <1>3, <2>1 DEF Reads
<1>5. \A i \in 1..Len(ins'[cur]) : i < slot => i \in 1..Len(ins[cur]) /\ ins'[cur][i] = ins[cur][i]
  <2>1. ins'[cur] = RemoveAt(ins[cur], slot)
    BY <1>2, SlotRemovedFacts DEF RemoveCallSlot
  <2>2. /\ Len(ins'[cur]) = Len(ins[cur]) - 1
        /\ \A i \in 1..(slot-1) : ins'[cur][i] = ins[cur][i]
    BY <1>2, <2>1, RemoveAtFacts
  <2>3. Len(ins[cur]) \in Nat
    BY <1>2, LenProperties
  <2> QED BY <1>2, <2>2, <2>3
<1>6. RepairedCalls'
  <2>1. \A op \in fixed' : code[op] \in {"MULTIEQUAL", "CALL"}
    BY <1>1 DEF RepairedCalls, RemoveCallSlot
  <2>2. \A op \in fixed' : code[op] = "CALL" /\ op # cur' =>
          \A vn \in Reads(ins', op) : ~IsFree(out', vn)
    <3>1. \A op \in fixed' : op # cur => op \in fixed /\ op \in Op
      BY <1>1 DEF RemoveCallSlot, TypeOK
    <3> QED BY <1>1, <1>4, <3>1 DEF RepairedCalls
  <2>3. \A i \in 1..Len(ins'[cur']) : i < slot' => ~IsFree(out', ins'[cur'][i])
    BY <1>1, <1>5 DEF RepairedCalls
  <2> QED BY <1>1, <2>1, <2>2, <2>3 DEF RepairedCalls, Editing
<1>7. \A x \in Op \ live : ins'[x] = <<>>
  BY <1>1, <1>2, <1>3 DEF GraphInv
<1> QED BY <1>1, <1>3, <1>4, <1>6, <1>7, RepairStep DEF Editing

LEMMA FinishReviewInv == IInv /\ FinishReview => IInv'
<1> SUFFICES ASSUME IInv, FinishReview PROVE IInv'
  OBVIOUS
<1>1. /\ TypeOK /\ GraphInv /\ RepairedCalls /\ StaleReadsListed
      /\ pc = "review" /\ pc' = "audit" /\ cur = NoOp /\ cur' = NoOp
      /\ UNCHANGED <<ins, out, live>> /\ review' = review \ fixed /\ todo' = ExcessPhis
  BY DEF IInv, FinishReview, graph, walk
<1>2. TypeOK'
  BY <1>1 DEF TypeOK, FinishReview, ExcessPhis, PCs, walk
<1>3. GraphInv'
  BY <1>1 DEF GraphInv
<1>4. ReviewExact' /\ NoDoubleUnlink' /\ UnreadQueued'
  BY <1>1 DEF ReviewExact, NoDoubleUnlink, UnreadQueued, Editing
<1>5. RepairedCalls'
  BY <1>1 DEF RepairedCalls, ExcessPhis, IsPhi, Editing, FinishReview
<1>6. StaleReadsListed'
  <2>1. ASSUME NEW op \in live, code[op] # "MULTIEQUAL", HasStaleRead(op)
        PROVE  op \in review \ fixed
    <3>1. op \in review
      BY <1>1, <2>1 DEF StaleReadsListed, Editing
    <3>2. op \notin fixed
      <4>1. SUFFICES ASSUME op \in fixed PROVE FALSE
        OBVIOUS
      <4>2. op \in Op /\ op # cur /\ code[op] = "CALL"
        BY <1>1, <2>1, <4>1, EditorAssumption DEF TypeOK, RepairedCalls
      <4>3. \A vn \in Reads(ins, op) : ~IsFree(out, vn)
        BY <1>1, <4>1, <4>2 DEF RepairedCalls
      <4> QED BY <2>1, <4>3 DEF HasStaleRead, IsStale
    <3> QED BY <3>1, <3>2
  <2> QED BY <1>1, <2>1 DEF StaleReadsListed, HasStaleRead
<1> QED BY <1>2, <1>3, <1>4, <1>5, <1>6 DEF IInv

LEMMA AuditOpInv == IInv /\ AuditOp => IInv'
<1> SUFFICES ASSUME IInv, AuditOp PROVE IInv'
  OBVIOUS
<1>1. TypeOK /\ RepairedCalls /\ pc = "audit" /\ pc' = "audit"
  BY DEF IInv, AuditOp
<1>2. TypeOK'
  BY <1>1 DEF TypeOK, AuditOp, graph
<1>3. RepairedCalls'
  BY <1>1 DEF RepairedCalls, AuditOp, Editing
<1> QED BY <1>1, <1>2, <1>3, WalkStep DEF AuditOp, Editing

LEMMA AuditSlotInv == IInv /\ AuditSlot => IInv'
<1> SUFFICES ASSUME IInv, AuditSlot PROVE IInv'
  OBVIOUS
<1>1. /\ TypeOK /\ RepairedCalls /\ pc = "audit" /\ pc' = "audit"
      /\ cur # NoOp /\ slot <= Len(ins[cur]) /\ code[cur] = "MULTIEQUAL"
  BY DEF IInv, AuditSlot, RepairedCalls
<1>2. cur \in live
  BY <1>1, AtSlotFacts
<1>3. CASE ins[cur][slot] = out[cur]
  <2>1. ins' = SlotRemoved(ins, cur, slot) /\ UNCHANGED slot
    BY <1>3 DEF AuditSlot
  <2>2. TypeOK' /\ \A x \in Op \ {cur} : ins'[x] = ins[x]
    BY <1>1, <2>1, RemoveSlotType DEF AuditSlot, walk
  <2> QED BY <1>1, <1>2, <2>1, <2>2, PhiRepairStep DEF AuditSlot, Editing
<1>4. CASE ins[cur][slot] # out[cur]
  <2>1. ins' = ins /\ slot' = slot + 1
    BY <1>4 DEF AuditSlot
  <2>2. TypeOK'
    BY <1>1, <2>1 DEF TypeOK, AuditSlot
  <2> QED BY <1>1, <1>2, <2>1, <2>2, PhiRepairStep DEF AuditSlot, Editing
<1> QED BY <1>3, <1>4

LEMMA LeaveOpInv == IInv /\ LeaveOp => IInv'
<1> SUFFICES ASSUME IInv, LeaveOp PROVE IInv'
  OBVIOUS
<1>1. /\ TypeOK /\ RepairedCalls /\ pc \in {"review", "audit"} /\ pc' = pc
      /\ cur # NoOp /\ cur' = NoOp /\ slot > Len(ins[cur])
      /\ UNCHANGED <<ins, out, live, fixed, todo>>
  BY DEF IInv, LeaveOp, graph
<1>2. TypeOK'
  BY <1>1 DEF TypeOK, LeaveOp
<1>3. pc = "review" /\ code[cur] = "CALL" =>
        \A vn \in Reads(ins, cur) : ~IsFree(out, vn)
  <2>1. ins[cur] \in Seq(Vn) /\ DOMAIN ins[cur] = 1..Len(ins[cur]) /\ Len(ins[cur]) \in Nat
    BY <1>1, ReadsType, LenProperties DEF TypeOK
  <2>2. \A i \in 1..Len(ins[cur]) : i < slot
    BY <1>1, <2>1 DEF TypeOK
  <2> QED BY <1>1, <2>1, <2>2 DEF RepairedCalls, Reads, ToSet
<1>4. RepairedCalls'
  BY <1>1, <1>3 DEF RepairedCalls, Editing
<1> QED BY <1>1, <1>2, <1>4, WalkStep DEF LeaveOp, Editing

LEMMA FinishAuditInv == IInv /\ FinishAudit => IInv'
<1> SUFFICES ASSUME IInv, FinishAudit PROVE IInv'
  OBVIOUS
<1>1. TypeOK /\ RepairedCalls /\ pc = "audit" /\ pc' = "done"
  BY DEF IInv, FinishAudit
<1>2. TypeOK'
  BY <1>1 DEF TypeOK, FinishAudit, PCs, graph, walk
<1>3. RepairedCalls'
  BY <1>1 DEF RepairedCalls, FinishAudit, Editing
<1> QED BY <1>1, <1>2, <1>3, WalkStep DEF FinishAudit, Editing

-----------------------------------------------------------------------------
(* The invariant is inductive. *)

LEMMA NextInv == IInv /\ [Next]_vars => IInv'
<1> SUFFICES ASSUME IInv, [Next]_vars PROVE IInv'
  OBVIOUS
<1>1. CASE DeleteListed
  BY <1>1, DeletionStep DEF DeleteListed
<1>2. CASE DeleteUnread
  BY <1>2, DeletionStep DEF DeleteUnread
<1>3. CASE UNCHANGED vars
  <2>1. TypeOK' /\ GraphInv' /\ NoDoubleUnlink' /\ UnreadQueued'
    BY <1>3 DEF IInv, vars, TypeOK, GraphInv, NoDoubleUnlink, UnreadQueued
  <2>2. ReviewExact' /\ StaleReadsListed'
    BY <1>3 DEF IInv, vars, ReviewExact, StaleReadsListed, HasStaleRead
  <2>3. RepairedCalls'
    BY <1>3 DEF IInv, vars, RepairedCalls
  <2> QED BY <2>1, <2>2, <2>3 DEF IInv
<1> QED
  BY <1>1, <1>2, <1>3, RemoveLoopEdgeInv, TrimPhiInv, TrimDoneInv, ScanBlockInv,
     StartReviewInv, ReviewOpInv, KeepPhiSlotInv, DuplicatePhiSlotInv, AbortOnSlotInv,
     RemovePhiSlotInv, KeepCallSlotInv, RemoveCallSlotInv, FinishReviewInv, AuditOpInv,
     AuditSlotInv, LeaveOpInv, FinishAuditInv
  DEF Next

(* The invariant holds throughout every call of simplifyBlocks. *)
THEOREM Invariance == Spec => []IInv
BY InitInv, NextInv, PTL DEF Spec

-----------------------------------------------------------------------------
(* What follows from it. *)

(* Every variable keeps its type: no slot, op or Varnode outside the       *)
(* function is ever reached by simplifyBlocks.                             *)
THEOREM Typing == Spec => []TypeOK
BY Invariance, PTL DEF IInv

(* Until the repairs start, descendentsToReview of simplifyBlocks is       *)
(* exactly the set of live ops that read a Varnode without a writer.       *)
THEOREM ReviewSetExact == Spec => []ReviewExact
BY Invariance, PTL DEF IInv

(* Neither deleteOp's callers nor removeUnusedOps unlink an op twice. *)
THEOREM UnlinkedOnce == Spec => []NoDoubleUnlink
BY Invariance, PTL DEF IInv

(* When simplifyBlocks returns, a live op with a stale input that is not a *)
(* phi has been reported.                                                  *)
THEOREM StaleReadsReported == Spec => []NoSilentStaleRead
<1>1. IInv => NoSilentStaleRead
  BY DEF IInv, StaleReadsListed, NoSilentStaleRead, Editing
<1> QED BY Invariance, <1>1, PTL

(* removeUnusedOps never adds an op to the review set. *)
THEOREM PurgingIsSafe == Spec => PurgeLeavesNoReader
<1>1. IInv /\ [Next]_vars => [pc = "purge" /\ pc' = "purge" => review' \subseteq review]_vars
  <2> SUFFICES ASSUME IInv, Next, pc = "purge", pc' = "purge"
               PROVE  review' \subseteq review
    OBVIOUS
  <2>1. CASE DeleteUnread
    BY <2>1 DEF DeleteUnread, DeleteOp, Reviewed, IInv, UnreadQueued
  <2>2. CASE ScanBlock
    BY <2>2 DEF ScanBlock
  <2> QED BY <2>1, <2>2 DEF Next, DeleteListed, RemoveLoopEdge, TrimPhi, TrimDone,
        StartReview, ReviewOp, KeepPhiSlot, DuplicatePhiSlot, AbortOnSlot, RemovePhiSlot,
        KeepCallSlot, RemoveCallSlot, AtSlot, FinishReview, AuditOp, AuditSlot, LeaveOp,
        FinishAudit
<1> QED BY Invariance, <1>1, PTL DEF Spec, PurgeLeavesNoReader

-----------------------------------------------------------------------------
(* The slots of phis: the invariant.                                       *)

(* A phi of a function that is as it should be *)
Fitting(op) == op \in live /\ code[op] = "MULTIEQUAL" /\ Fits(op)

(* Of the edges, the loop's goes, and no other. *)
EdgesLeft ==
  /\ \A b \in Block : b # LoopBlock => edges[b] = fn.edges[b]
  /\ pc = "delete" => edges = fn.edges
  /\ pc # "delete" => \E i \in DOMAIN fn.edges[LoopBlock] :
       /\ fn.edges[LoopBlock][i] = LoopBlock
       /\ edges[LoopBlock] = RemoveAt(fn.edges[LoopBlock], i)

(* What is live writes what it wrote; only phis of the loop block are      *)
(* trimmed or audited.                                                     *)
LoopPhisOnly ==
  /\ \A op \in live : out[op] = fn.out[op]
  /\ pc = "trim" => \A op \in todo : home[op] = LoopBlock
  /\ pc = "audit" => \A op \in todo \cup {cur} : Fitting(op) => home[op] = LoopBlock

(* f is the function as it was found, s what the phi op of it reads now.   *)
(* The phi has no additional slot, and one of the loop block has lost a    *)
(* slot or reads itself.                                                   *)
Counted(f, op, s, outs) ==
  /\ Len(s) <= Len(f.ins[op])
  /\ home[op] = LoopBlock /\ LoopBlock \in ToSet(f.edges[LoopBlock]) =>
       Len(s) < Len(f.ins[op]) \/ outs[op] \in ToSet(s)

(* Input j is where it was, unless it has become stale. *)
KeptAt(f, op, s, outs, j) == IsStale(outs, f.ins[op][j]) \/ s[j] = f.ins[op][j]

(* Of a phi of the loop block with one entry edge j the input of that edge *)
(* is in its slot, or it is the only one left.                             *)
EntryKept(f, op, s, outs, j) ==
  \/ /\ Len(s) = 2
     /\ s[3-j] = outs[op]
     /\ KeptAt(f, op, s, outs, j)
  \/ /\ Len(s) <= 1
     /\ IsStale(outs, f.ins[op][j]) \/ (Len(s) = 1 /\ s[1] = f.ins[op][j])

PlacedInputs(f, op, s, outs) ==
  /\ home[op] # LoopBlock => Len(s) = 2 /\ \A j \in 1..2 : KeptAt(f, op, s, outs, j)
  /\ home[op] = LoopBlock =>
       \A j \in 1..2 :
         f.edges[LoopBlock][j] # LoopBlock /\ f.edges[LoopBlock][3-j] = LoopBlock
           => EntryKept(f, op, s, outs, j)

PhiKept(f, op, s, outs) ==
  /\ Counted(f, op, s, outs)
  /\ Len(f.ins[op]) = 2 => PlacedInputs(f, op, s, outs)

PhisKept == pc # "aborted" => \A op \in Op : Fitting(op) => PhiKept(fn, op, ins[op], out)

(* A phi with more slots than in-edges is still to be audited, or it is    *)
(* being audited and reads itself in a slot not yet passed.                *)
ExcessAudited ==
  pc \in {"audit", "done"} =>
    \A op \in Op : Fitting(op) /\ Len(ins[op]) > Len(edges[home[op]]) =>
      /\ pc = "audit"
      /\ op \in todo \/ (op = cur /\ \E i \in slot..Len(ins[op]) : ins[op][i] = out[op])

SlotInv == EdgesLeft /\ LoopPhisOnly /\ PhisKept /\ ExcessAudited

-----------------------------------------------------------------------------
(* What the edits of one phi do to it. *)

(* Deleting the writers of other Varnodes *)
LEMMA PhiKeptAsWritersGo ==
  ASSUME NEW f, NEW op, NEW s, NEW o1, NEW o2, o2[op] = o1[op],
         f.ins[op] \in Seq(Vn),
         \A vn \in Vn : IsStale(o1, vn) => IsStale(o2, vn),
         PhiKept(f, op, s, o1)
  PROVE  PhiKept(f, op, s, o2)
<1>1. Counted(f, op, s, o2)
  BY DEF PhiKept, Counted
<1>2. ASSUME Len(f.ins[op]) = 2
      PROVE  PlacedInputs(f, op, s, o2)
  <2>1. PlacedInputs(f, op, s, o1)
    BY <1>2 DEF PhiKept
  <2>2. \A j \in 1..2 : f.ins[op][j] \in Vn
    BY <1>2, ElementsOf
  <2>3. \A j \in 1..2 : IsStale(o1, f.ins[op][j]) => IsStale(o2, f.ins[op][j])
    BY <2>2
  <2> QED BY <2>1, <2>3 DEF PlacedInputs, EntryKept, KeptAt
<1> QED BY <1>1, <1>2 DEF PhiKept

(* Removing a slot in which a phi of the loop block reads itself *)
LEMMA SelfReadRemoved ==
  ASSUME NEW f, NEW op, NEW s \in Seq(Vn), NEW outs,
         f.ins[op] \in Seq(Vn), home[op] = LoopBlock,
         \A j \in 1..2 : f.edges[LoopBlock][j] # LoopBlock => f.ins[op][j] # outs[op],
         NEW i \in 1..Len(s), s[i] = outs[op],
         PhiKept(f, op, s, outs)
  PROVE  PhiKept(f, op, RemoveAt(s, i), outs)
<1> DEFINE r == RemoveAt(s, i)
<1>1. r \in Seq(Vn) /\ Len(r) = Len(s) - 1 /\ Len(s) \in Nat
  BY RemoveAtFacts, LenProperties
<1>2. Len(f.ins[op]) \in Nat
  BY LenProperties
<1>3. Len(s) = 2 => Len(r) = 1 /\ r[1] = s[3-i]
  <2> SUFFICES ASSUME Len(s) = 2 PROVE Len(r) = 1 /\ r[1] = s[3-i]
    OBVIOUS
  <2>1. i \in 1..2
    OBVIOUS
  <2> QED BY <2>1, RemoveOfTwo
<1> HIDE DEF r
<1>4. Counted(f, op, r, outs)
  BY <1>1, <1>2 DEF PhiKept, Counted
<1>5. ASSUME Len(f.ins[op]) = 2, NEW j \in 1..2,
             f.edges[LoopBlock][j] # LoopBlock, f.edges[LoopBlock][3-j] = LoopBlock
      PROVE  EntryKept(f, op, r, outs, j)
  <2>1. EntryKept(f, op, s, outs, j)
    BY <1>5 DEF PhiKept, PlacedInputs
  <2>2. f.ins[op][j] # outs[op]
    BY <1>5
  <2>3. CASE Len(s) = 2
    <3>1. KeptAt(f, op, s, outs, j)
      BY <2>1, <2>3 DEF EntryKept
    <3>2. i \in 1..2
      BY <2>3
    <3>3. Len(r) = 1 /\ Len(r) <= 1
      BY <1>1, <2>3
    <3>4. IsStale(outs, f.ins[op][j]) \/ r[1] = f.ins[op][j]
      <4>1. CASE i = j
        BY <2>2, <3>1, <4>1 DEF KeptAt
      <4>2. CASE i # j
        <5>1. 3-i = j
          BY <3>2, <4>2
        <5> QED BY <1>3, <2>3, <3>1, <5>1 DEF KeptAt
      <4> QED BY <4>1, <4>2
    <3> QED BY <3>3, <3>4 DEF EntryKept
  <2>4. CASE Len(s) # 2
    <3>1. Len(s) = 1 /\ i = 1 /\ Len(r) = 0
      BY <1>1, <2>1, <2>4 DEF EntryKept
    <3>2. IsStale(outs, f.ins[op][j])
      BY <2>1, <2>2, <2>4, <3>1 DEF EntryKept
    <3> QED BY <3>1, <3>2 DEF EntryKept
  <2> QED BY <2>3, <2>4
<1>6. Len(f.ins[op]) = 2 => PlacedInputs(f, op, r, outs)
  BY <1>5 DEF PlacedInputs
<1>7. PhiKept(f, op, r, outs)
  BY <1>4, <1>6 DEF PhiKept
<1> QED BY <1>7 DEF r

(* A stale input, one of two, is replaced by the other. *)
LEMMA StaleReplaced ==
  ASSUME NEW f, NEW op \in Op, NEW s \in Seq(Vn), NEW outs,
         f.ins[op] \in Seq(Vn), Len(s) = 2,
         NEW k \in 1..2, IsStale(outs, s[k]),
         PhiKept(f, op, s, outs)
  PROVE  PhiKept(f, op, InsertAt(RemoveAt(s, k), k, s[3-k]), outs)
<1> DEFINE t == InsertAt(RemoveAt(s, k), k, s[3-k])
<1>2. t \in Seq(Vn) /\ Len(t) = 2 /\ t[k] = s[3-k] /\ t[3-k] = s[3-k]
  <2>1. t \in Seq(Vn) /\ Len(t) = 2 /\ \A j \in 1..2 : t[j] = s[3-k]
    BY DoubleOfTwo
  <2>2. 3-k \in 1..2
    OBVIOUS
  <2> QED BY <2>1, <2>2
<1> HIDE DEF t
<1>3. ~IsStale(outs, outs[op])
  BY DEF IsStale, IsFree, Written
<1>4. Counted(f, op, t, outs)
  <2>1. ASSUME outs[op] \in ToSet(s) PROVE outs[op] \in ToSet(t)
    <3>1. PICK i \in 1..2 : s[i] = outs[op]
      BY <2>1, ElementsOf
    <3>2. i # k
      BY <1>3, <3>1
    <3>3. i = 3-k
      BY <3>2
    <3>4. t[k] \in ToSet(t)
      BY <1>2, ElementsOf
    <3> QED BY <1>2, <3>1, <3>3, <3>4
  <2> QED BY <1>2, <2>1 DEF PhiKept, Counted
<1>5. ASSUME NEW j \in 1..2, KeptAt(f, op, s, outs, j)
      PROVE  KeptAt(f, op, t, outs, j)
  <2>1. CASE j = k
    BY <1>5, <2>1 DEF KeptAt
  <2>2. CASE j # k
    <3>1. j = 3-k
      BY <2>2
    <3> QED BY <1>2, <1>5, <3>1 DEF KeptAt
  <2> QED BY <2>1, <2>2
<1>6. ASSUME NEW j \in 1..2, EntryKept(f, op, s, outs, j)
      PROVE  EntryKept(f, op, t, outs, j)
  <2>1. s[3-j] = outs[op] /\ KeptAt(f, op, s, outs, j)
    BY <1>6 DEF EntryKept
  <2>2. 3-j # k
    BY <1>3, <2>1
  <2>3. 3-j = 3-k
    BY <2>2
  <2> QED BY <1>2, <1>5, <2>1, <2>3 DEF EntryKept
<1>7. Len(f.ins[op]) = 2 => PlacedInputs(f, op, t, outs)
  BY <1>2, <1>5, <1>6 DEF PhiKept, PlacedInputs
<1>8. PhiKept(f, op, t, outs)
  BY <1>4, <1>7 DEF PhiKept
<1> QED BY <1>8 DEF t

(* A stale input that is not one of two is removed. *)
LEMMA StaleRemoved ==
  ASSUME NEW f, NEW op, NEW s \in Seq(Vn), NEW outs,
         f.ins[op] \in Seq(Vn), Len(s) # 2,
         NEW k \in 1..Len(s), IsStale(outs, s[k]),
         PhiKept(f, op, s, outs)
  PROVE  PhiKept(f, op, RemoveAt(s, k), outs)
<1> DEFINE r == RemoveAt(s, k)
<1>1. r \in Seq(Vn) /\ Len(r) = Len(s) - 1 /\ Len(s) \in Nat
  BY RemoveAtFacts, LenProperties
<1>2. Len(f.ins[op]) \in Nat
  BY LenProperties
<1> HIDE DEF r
<1>3. Counted(f, op, r, outs)
  BY <1>1, <1>2 DEF PhiKept, Counted
<1>4. ASSUME NEW j \in 1..2, EntryKept(f, op, s, outs, j)
      PROVE  EntryKept(f, op, r, outs, j)
  <2>1. Len(s) = 1 /\ k = 1 /\ Len(r) = 0
    BY <1>1, <1>4 DEF EntryKept
  <2>2. IsStale(outs, f.ins[op][j])
    BY <1>4, <2>1 DEF EntryKept
  <2> QED BY <2>1, <2>2 DEF EntryKept
<1>5. Len(f.ins[op]) = 2 => PlacedInputs(f, op, r, outs)
  BY <1>4 DEF PhiKept, PlacedInputs
<1>6. PhiKept(f, op, r, outs)
  BY <1>3, <1>5 DEF PhiKept
<1> QED BY <1>6 DEF r

-----------------------------------------------------------------------------
(* The slots of phis, step by step. *)

LEMMA SameJob ==
  ASSUME job' = job
  PROVE  fn' = fn /\ \A op : Fits(op)' <=> Fits(op)
BY DEF fn, Fits

LEMMA FitFacts ==
  ASSUME job \in Jobs, NEW op \in Op, Fits(op)
  PROVE  /\ fn.ins[op] \in Seq(Vn)
         /\ home[op] \in Block
         /\ fn.edges[home[op]] \in Seq(Block)
         /\ Len(fn.ins[op]) = Len(fn.edges[home[op]])
         /\ home[op] = LoopBlock =>
              \A i \in 1..Len(fn.ins[op]) :
                fn.ins[op][i] = fn.out[op] <=> fn.edges[LoopBlock][i] = LoopBlock
<1>1. fn.ins[op] \in Seq(Vn) /\ fn.edges \in [Block -> Seq(Block)]
  BY JobType DEF InputSeqs
<1>2. home[op] \in Block
  BY EditorAssumption
<1>3. fn.edges[home[op]] \in Seq(Block) /\ Len(fn.ins[op]) = Len(fn.edges[home[op]])
  BY <1>1, <1>2 DEF Fits
<1>4. DOMAIN fn.edges[home[op]] = 1..Len(fn.ins[op])
  BY <1>3, LenProperties
<1> QED BY <1>1, <1>2, <1>3, <1>4 DEF Fits

LEMMA InitSlots == Init => SlotInv
<1> SUFFICES ASSUME Init PROVE SlotInv
  OBVIOUS
<1>1. /\ job \in Jobs /\ ins = fn.ins /\ out = fn.out /\ live = fn.live /\ edges = fn.edges
      /\ pc = "delete"
  BY DEF Init
<1> HIDE DEF fn
<1>2. EdgesLeft /\ LoopPhisOnly /\ ExcessAudited
  BY <1>1 DEF EdgesLeft, LoopPhisOnly, ExcessAudited
<1>3. ASSUME NEW op \in Op, Fits(op)
      PROVE  PhiKept(fn, op, fn.ins[op], fn.out)
  <2>1. /\ fn.ins[op] \in Seq(Vn)
        /\ fn.edges[home[op]] \in Seq(Block)
        /\ Len(fn.ins[op]) = Len(fn.edges[home[op]])
        /\ home[op] = LoopBlock =>
             \A i \in 1..Len(fn.ins[op]) :
               fn.ins[op][i] = fn.out[op] <=> fn.edges[LoopBlock][i] = LoopBlock
    BY <1>1, <1>3, FitFacts
  <2>2. ASSUME home[op] = LoopBlock, LoopBlock \in ToSet(fn.edges[LoopBlock])
        PROVE  fn.out[op] \in ToSet(fn.ins[op])
    <3>1. PICK i \in 1..Len(fn.edges[LoopBlock]) : fn.edges[LoopBlock][i] = LoopBlock
      BY <2>1, <2>2, ElementsOf
    <3>2. i \in 1..Len(fn.ins[op]) /\ fn.ins[op][i] = fn.out[op]
      BY <2>1, <2>2, <3>1
    <3>3. fn.ins[op][i] \in ToSet(fn.ins[op])
      BY <2>1, <3>2, ElementsOf
    <3> QED BY <3>2, <3>3
  <2>3. Len(fn.ins[op]) \in Nat
    BY <2>1, LenProperties
  <2>4. Counted(fn, op, fn.ins[op], fn.out)
    BY <2>2, <2>3 DEF Counted
  <2>5. ASSUME Len(fn.ins[op]) = 2, home[op] = LoopBlock, NEW j \in 1..2,
               fn.edges[LoopBlock][3-j] = LoopBlock
        PROVE  EntryKept(fn, op, fn.ins[op], fn.out, j)
    <3>1. 3-j \in 1..Len(fn.ins[op])
      BY <2>5
    <3>2. fn.ins[op][3-j] = fn.out[op]
      BY <2>1, <2>5, <3>1
    <3> QED BY <2>5, <3>2 DEF EntryKept, KeptAt
  <2>6. Len(fn.ins[op]) = 2 => PlacedInputs(fn, op, fn.ins[op], fn.out)
    BY <2>5 DEF PlacedInputs, KeptAt
  <2> QED BY <2>4, <2>6 DEF PhiKept
<1>4. PhisKept
  BY <1>1, <1>3 DEF PhisKept, Fitting
<1> QED BY <1>2, <1>4 DEF SlotInv

LEMMA SameEdges ==
  ASSUME EdgesLeft, UNCHANGED <<job, edges>>, pc' = "delete" <=> pc = "delete"
  PROVE  EdgesLeft'
BY SameJob DEF EdgesLeft

LEMMA SamePhis ==
  ASSUME PhisKept, UNCHANGED <<job, ins, out, live>>, pc # "aborted"
  PROVE  PhisKept'
BY SameJob DEF PhisKept, Fitting

(* Steps that change no op and neither trim nor audit *)
LEMMA QuietStep ==
  ASSUME SlotInv, UNCHANGED <<job, ins, out, live, edges>>, pc # "aborted",
         pc' = "delete" <=> pc = "delete", pc' \notin {"trim", "audit", "done"}
  PROVE  SlotInv'
<1>1. EdgesLeft' /\ PhisKept'
  BY SameEdges, SamePhis DEF SlotInv
<1>2. LoopPhisOnly' /\ ExcessAudited'
  BY SameJob DEF SlotInv, LoopPhisOnly, ExcessAudited
<1> QED BY <1>1, <1>2 DEF SlotInv

(* Steps that edit the slots of one op *)
LEMMA OnePhi ==
  ASSUME PhisKept, pc # "aborted", UNCHANGED <<job, out, live>>, NEW op,
         \A x \in Op \ {op} : ins'[x] = ins[x],
         op \in Op /\ Fitting(op) /\ PhiKept(fn, op, ins[op], out)
           => PhiKept(fn, op, ins'[op], out)
  PROVE  PhisKept'
<1> SUFFICES ASSUME NEW x \in Op, Fitting(x)'
             PROVE  PhiKept(fn, x, ins'[x], out)
  BY SameJob DEF PhisKept
<1>1. Fitting(x)
  BY SameJob DEF Fitting
<1>2. PhiKept(fn, x, ins[x], out)
  BY <1>1 DEF PhisKept
<1> QED BY <1>1, <1>2

LEMMA DeletionSlots ==
  ASSUME IInv, SlotInv, pc \in {"delete", "purge"}, NEW op \in todo, DeleteOp(op),
         UNCHANGED <<job, edges, pc>>
  PROVE  SlotInv'
<1>1. op \in Op /\ ins \in InputSeqs /\ out \in Outputs /\ IsSSA(out) /\ live \in SUBSET Op
      /\ job \in Jobs
  BY DEF IInv, TypeOK, GraphInv
<1>2. /\ \A x \in Op \ {op} : ins'[x] = ins[x] /\ out'[x] = out[x]
      /\ \A vn \in Vn : IsStale(out', vn) <=> IsStale(out, vn) \/ vn = out[op]
      /\ live' = live \ {op}
  BY <1>1, UnlinkFacts DEF DeleteOp
<1>3. EdgesLeft'
  BY SameEdges DEF SlotInv
<1>4. LoopPhisOnly' /\ ExcessAudited'
  BY <1>1, <1>2, SameJob DEF SlotInv, LoopPhisOnly, ExcessAudited
<1>5. PhisKept'
  <2> SUFFICES ASSUME NEW x \in Op, Fitting(x)'
               PROVE  PhiKept(fn, x, ins'[x], out')
    BY SameJob DEF PhisKept
  <2>1. Fitting(x) /\ x # op /\ Fits(x)
    BY <1>2, SameJob DEF Fitting
  <2>2. PhiKept(fn, x, ins[x], out)
    BY <2>1 DEF SlotInv, PhisKept
  <2>3. fn.ins[x] \in Seq(Vn)
    BY <1>1, <2>1, FitFacts
  <2>4. PhiKept(fn, x, ins[x], out')
    BY <1>2, <2>1, <2>2, <2>3, PhiKeptAsWritersGo
  <2> QED BY <1>2, <2>1, <2>4
<1> QED BY <1>3, <1>4, <1>5 DEF SlotInv

LEMMA RemoveLoopEdgeSlots == IInv /\ SlotInv /\ RemoveLoopEdge => SlotInv'
<1> SUFFICES ASSUME IInv, SlotInv, RemoveLoopEdge PROVE SlotInv'
  OBVIOUS
<1>1. /\ pc = "delete" /\ pc' \in {"trim", "purge"} /\ UNCHANGED <<job, ins, out, live>>
      /\ edges = fn.edges /\ edges \in [Block -> Seq(Block)]
      /\ pc' = "trim" => todo' = {op \in Op : IsPhi(op) /\ home[op] = LoopBlock}
  BY DEF RemoveLoopEdge, graph, SlotInv, EdgesLeft, IInv, TypeOK
<1>2. EdgesLeft'
  <2>1. PICK i \in DOMAIN edges[LoopBlock] :
          /\ edges[LoopBlock][i] = LoopBlock
          /\ edges' = [edges EXCEPT ![LoopBlock] = RemoveAt(@, i)]
    BY DEF RemoveLoopEdge, IsFirst
  <2>2. edges'[LoopBlock] = RemoveAt(edges[LoopBlock], i)
    BY <1>1, <2>1, EditorAssumption
  <2>3. \A b \in Block : b # LoopBlock => edges'[b] = edges[b]
    BY <1>1, <2>1
  <2> QED BY <1>1, <2>1, <2>2, <2>3, SameJob DEF EdgesLeft
<1>3. PhisKept'
  BY <1>1, SamePhis DEF SlotInv
<1>4. LoopPhisOnly' /\ ExcessAudited'
  BY <1>1, SameJob DEF SlotInv, LoopPhisOnly, ExcessAudited
<1> QED BY <1>2, <1>3, <1>4 DEF SlotInv

(* A phi of the loop block does not read itself along an entry edge. *)
LEMMA EntryIsNoSelfRead ==
  ASSUME job \in Jobs, LoopPhisOnly, NEW op \in Op, Fitting(op), home[op] = LoopBlock,
         Len(fn.ins[op]) = 2
  PROVE  \A j \in 1..2 : fn.edges[LoopBlock][j] # LoopBlock => fn.ins[op][j] # out[op]
BY FitFacts DEF Fitting, LoopPhisOnly

(* A phi of the loop block loses a slot in which it reads itself. *)
LEMMA SelfReadEdit ==
  ASSUME IInv, LoopPhisOnly, NEW op \in Op, Fitting(op), home[op] = LoopBlock,
         NEW i \in 1..Len(ins[op]), ins[op][i] = out[op],
         PhiKept(fn, op, ins[op], out)
  PROVE  /\ SlotRemoved(ins, op, i)[op] = RemoveAt(ins[op], i)
         /\ PhiKept(fn, op, RemoveAt(ins[op], i), out)
<1>1. job \in Jobs /\ ins \in InputSeqs
  BY DEF IInv, TypeOK
<1>2. fn.ins[op] \in Seq(Vn)
  BY <1>1, FitFacts DEF Fitting
<1>3. ins[op] \in Seq(Vn)
  BY <1>1, ReadsType
<1>4. SlotRemoved(ins, op, i)[op] = RemoveAt(ins[op], i)
  BY <1>1, SlotRemovedFacts
<1>5. CASE Len(fn.ins[op]) = 2
  <2>1. \A j \in 1..2 : fn.edges[LoopBlock][j] # LoopBlock => fn.ins[op][j] # out[op]
    BY <1>1, <1>5, EntryIsNoSelfRead
  <2> QED BY <1>2, <1>3, <1>4, <2>1, SelfReadRemoved
<1>6. CASE Len(fn.ins[op]) # 2
  <2>1. Len(RemoveAt(ins[op], i)) = Len(ins[op]) - 1 /\ Len(ins[op]) \in Nat
    BY <1>3, RemoveAtFacts, LenProperties
  <2>2. Len(fn.ins[op]) \in Nat
    BY <1>2, LenProperties
  <2>3. Counted(fn, op, RemoveAt(ins[op], i), out)
    BY <2>1, <2>2 DEF PhiKept, Counted
  <2> QED BY <1>4, <1>6, <2>3 DEF PhiKept
<1> QED BY <1>5, <1>6

LEMMA TrimPhiSlots == IInv /\ SlotInv /\ TrimPhi => SlotInv'
<1> SUFFICES ASSUME IInv, SlotInv, TrimPhi PROVE SlotInv'
  OBVIOUS
<1>1. /\ pc = "trim" /\ pc' = "trim" /\ UNCHANGED <<job, out, live, edges>>
      /\ ins \in InputSeqs
  BY DEF TrimPhi, IInv, TypeOK
<1>2. PICK op \in todo :
        /\ todo' = todo \ {op}
        /\ IF out[op] \in Reads(ins, op)
           THEN \E i \in DOMAIN ins[op] :
                  /\ IsFirst(ins[op], out[op], i)
                  /\ ins' = SlotRemoved(ins, op, i)
           ELSE UNCHANGED ins
  BY DEF TrimPhi
<1>3. op \in Op /\ home[op] = LoopBlock
  BY <1>1, <1>2 DEF IInv, TypeOK, SlotInv, LoopPhisOnly
<1>4. PhisKept'
  <2>1. CASE out[op] \notin Reads(ins, op)
    BY <2>1, <1>1, <1>2, SamePhis DEF SlotInv
  <2>2. CASE out[op] \in Reads(ins, op)
    <3>1. PICK i \in DOMAIN ins[op] : ins[op][i] = out[op] /\ ins' = SlotRemoved(ins, op, i)
      BY <1>2, <2>2 DEF IsFirst
    <3>2. i \in 1..Len(ins[op])
      BY <1>1, <1>3, <3>1, ReadsType
    <3>3. \A x \in Op \ {op} : ins'[x] = ins[x]
      BY <1>1, <1>3, <3>1, <3>2, SlotRemovedFacts
    <3>4. Fitting(op) /\ PhiKept(fn, op, ins[op], out) => PhiKept(fn, op, ins'[op], out)
      BY <1>3, <3>1, <3>2, SelfReadEdit DEF SlotInv
    <3> QED BY <1>1, <3>3, <3>4, OnePhi DEF SlotInv
  <2> QED BY <2>1, <2>2
<1>5. EdgesLeft'
  BY <1>1, SameEdges DEF SlotInv
<1>6. LoopPhisOnly' /\ ExcessAudited'
  BY <1>1, <1>2, SameJob DEF SlotInv, LoopPhisOnly, ExcessAudited
<1> QED BY <1>4, <1>5, <1>6 DEF SlotInv

LEMMA DuplicatePhiSlots == IInv /\ SlotInv /\ DuplicatePhiSlot => SlotInv'
<1> SUFFICES ASSUME IInv, SlotInv, DuplicatePhiSlot PROVE SlotInv'
  OBVIOUS
<1>1. /\ pc = "review" /\ pc' = "review" /\ UNCHANGED <<job, out, live, edges, cur>>
      /\ cur # NoOp /\ slot <= Len(ins[cur]) /\ Len(ins[cur]) = 2
      /\ StalePhiSlot
      /\ ins' = SlotInserted(SlotRemoved(ins, cur, slot), cur, slot, ins[cur][GoodSlot])
  BY DEF DuplicatePhiSlot, AtSlot
<1>2. cur \in Op /\ ins \in InputSeqs /\ slot \in 1..Len(ins[cur]) /\ ins[cur] \in Seq(Vn)
  BY <1>1, AtSlotFacts
<1>3. slot \in 1..2 /\ GoodSlot = 3-slot
  BY <1>1, <1>2 DEF GoodSlot
<1>4. /\ SlotRemoved(ins, cur, slot)[cur] = RemoveAt(ins[cur], slot)
      /\ SlotRemoved(ins, cur, slot) \in InputSeqs
      /\ \A x \in Op \ {cur} : SlotRemoved(ins, cur, slot)[x] = ins[x]
  BY <1>2, SlotRemovedFacts
<1>5. ins'[cur] = InsertAt(RemoveAt(ins[cur], slot), slot, ins[cur][3-slot])
  BY <1>1, <1>2, <1>3, <1>4 DEF SlotInserted, InputSeqs
<1>6. \A x \in Op \ {cur} : ins'[x] = ins[x]
  BY <1>1, <1>4 DEF SlotInserted, InputSeqs
<1>7. IsStale(out, ins[cur][slot])
  BY <1>1, EditorAssumption DEF StalePhiSlot, IsStale
<1>8. Fitting(cur) /\ PhiKept(fn, cur, ins[cur], out) => PhiKept(fn, cur, ins'[cur], out)
  <2> SUFFICES ASSUME Fitting(cur), PhiKept(fn, cur, ins[cur], out)
               PROVE  PhiKept(fn, cur, ins'[cur], out)
    OBVIOUS
  <2>1. fn.ins[cur] \in Seq(Vn)
    BY <1>2, FitFacts DEF Fitting, IInv, TypeOK
  <2> QED BY <1>1, <1>2, <1>3, <1>5, <1>7, <2>1, StaleReplaced
<1>9. PhisKept'
  BY <1>1, <1>6, <1>8, OnePhi DEF SlotInv
<1>10. EdgesLeft'
  BY <1>1, SameEdges DEF SlotInv
<1>11. LoopPhisOnly' /\ ExcessAudited'
  BY <1>1, SameJob DEF SlotInv, LoopPhisOnly, ExcessAudited
<1> QED BY <1>9, <1>10, <1>11 DEF SlotInv

LEMMA RemovePhiSlots == IInv /\ SlotInv /\ RemovePhiSlot => SlotInv'
<1> SUFFICES ASSUME IInv, SlotInv, RemovePhiSlot PROVE SlotInv'
  OBVIOUS
<1>1. /\ pc = "review" /\ pc' = "review" /\ UNCHANGED <<job, out, live, edges, cur>>
      /\ cur # NoOp /\ slot <= Len(ins[cur]) /\ Len(ins[cur]) # 2
      /\ StalePhiSlot
      /\ ins' = SlotRemoved(ins, cur, slot)
  BY DEF RemovePhiSlot, AtSlot, walk
<1>2. cur \in Op /\ ins \in InputSeqs /\ slot \in 1..Len(ins[cur]) /\ ins[cur] \in Seq(Vn)
  BY <1>1, AtSlotFacts
<1>3. /\ ins'[cur] = RemoveAt(ins[cur], slot)
      /\ \A x \in Op \ {cur} : ins'[x] = ins[x]
  BY <1>1, <1>2, SlotRemovedFacts
<1>4. IsStale(out, ins[cur][slot])
  BY <1>1, EditorAssumption DEF StalePhiSlot, IsStale
<1>5. Fitting(cur) /\ PhiKept(fn, cur, ins[cur], out) => PhiKept(fn, cur, ins'[cur], out)
  <2> SUFFICES ASSUME Fitting(cur), PhiKept(fn, cur, ins[cur], out)
               PROVE  PhiKept(fn, cur, ins'[cur], out)
    OBVIOUS
  <2>1. fn.ins[cur] \in Seq(Vn)
    BY <1>2, FitFacts DEF Fitting, IInv, TypeOK
  <2> QED BY <1>1, <1>2, <1>3, <1>4, <2>1, StaleRemoved
<1>6. PhisKept'
  BY <1>1, <1>3, <1>5, OnePhi DEF SlotInv
<1>7. EdgesLeft'
  BY <1>1, SameEdges DEF SlotInv
<1>8. LoopPhisOnly' /\ ExcessAudited'
  BY <1>1, SameJob DEF SlotInv, LoopPhisOnly, ExcessAudited
<1> QED BY <1>6, <1>7, <1>8 DEF SlotInv

LEMMA AbortSlots == SlotInv /\ AbortOnSlot => SlotInv'
<1> SUFFICES ASSUME SlotInv, AbortOnSlot PROVE SlotInv'
  OBVIOUS
<1>1. pc = "review" /\ pc' = "aborted" /\ UNCHANGED <<job, out, live, edges>>
  BY DEF AbortOnSlot, AtSlot
<1>2. EdgesLeft'
  BY <1>1, SameEdges DEF SlotInv
<1>3. LoopPhisOnly' /\ PhisKept' /\ ExcessAudited'
  BY <1>1, SameJob DEF SlotInv, LoopPhisOnly, PhisKept, ExcessAudited
<1> QED BY <1>2, <1>3 DEF SlotInv

LEMMA RemoveCallSlots == IInv /\ SlotInv /\ RemoveCallSlot => SlotInv'
<1> SUFFICES ASSUME IInv, SlotInv, RemoveCallSlot PROVE SlotInv'
  OBVIOUS
<1>1. /\ pc = "review" /\ pc' = "review" /\ UNCHANGED <<job, out, live, edges, cur>>
      /\ cur # NoOp /\ slot <= Len(ins[cur]) /\ code[cur] = "CALL"
      /\ ins' = SlotRemoved(ins, cur, slot)
  BY DEF RemoveCallSlot, AtSlot, walk
<1>2. cur \in Op /\ ins \in InputSeqs /\ slot \in 1..Len(ins[cur])
  BY <1>1, AtSlotFacts
<1>3. \A x \in Op \ {cur} : ins'[x] = ins[x]
  BY <1>1, <1>2, SlotRemovedFacts
<1>4. PhisKept'
  BY <1>1, <1>3, OnePhi DEF SlotInv, Fitting
<1>5. EdgesLeft'
  BY <1>1, SameEdges DEF SlotInv
<1>6. LoopPhisOnly' /\ ExcessAudited'
  BY <1>1, SameJob DEF SlotInv, LoopPhisOnly, ExcessAudited
<1> QED BY <1>4, <1>5, <1>6 DEF SlotInv

-----------------------------------------------------------------------------
(* The audit of the slots that are left over. *)

(* How many slots the phis have, once the loop edge is gone *)
LEMMA SlotsOfPhi ==
  ASSUME IInv, SlotInv, pc \notin {"delete", "aborted"}, NEW op \in Op, Fitting(op)
  PROVE  /\ Len(ins[op]) \in Nat /\ Len(edges[home[op]]) \in Nat
         /\ home[op] # LoopBlock => Len(ins[op]) <= Len(edges[home[op]])
         /\ home[op] = LoopBlock =>
              /\ Len(ins[op]) <= Len(edges[home[op]]) + 1
              /\ Len(ins[op]) > Len(edges[home[op]]) =>
                   \E i \in 1..Len(ins[op]) : ins[op][i] = out[op]
<1>1. job \in Jobs /\ ins[op] \in Seq(Vn) /\ Len(ins[op]) \in Nat
  BY ReadsType, LenProperties DEF IInv, TypeOK
<1>2. /\ fn.ins[op] \in Seq(Vn) /\ fn.edges[home[op]] \in Seq(Block) /\ home[op] \in Block
      /\ Len(fn.ins[op]) = Len(fn.edges[home[op]])
  BY <1>1, FitFacts DEF Fitting
<1>3. Len(fn.edges[home[op]]) \in Nat
  BY <1>2, LenProperties
<1>4. Counted(fn, op, ins[op], out)
  BY DEF SlotInv, PhisKept, PhiKept
<1>5. CASE home[op] # LoopBlock
  BY <1>1, <1>2, <1>3, <1>4, <1>5 DEF Counted, SlotInv, EdgesLeft
<1>6. CASE home[op] = LoopBlock
  <2>1. PICK i \in DOMAIN fn.edges[LoopBlock] :
          /\ fn.edges[LoopBlock][i] = LoopBlock
          /\ edges[LoopBlock] = RemoveAt(fn.edges[LoopBlock], i)
    BY DEF SlotInv, EdgesLeft
  <2>2. i \in 1..Len(fn.edges[LoopBlock])
    BY <1>2, <1>6, <2>1, LenProperties
  <2>3. Len(edges[LoopBlock]) = Len(fn.edges[LoopBlock]) - 1
    BY <1>2, <1>6, <2>1, <2>2, RemoveAtFacts
  <2>4. LoopBlock \in ToSet(fn.edges[LoopBlock])
    BY <1>2, <1>6, <2>1, <2>2, ElementsOf
  <2>5. Len(ins[op]) < Len(fn.ins[op]) \/ out[op] \in ToSet(ins[op])
    BY <1>4, <1>6, <2>4 DEF Counted
  <2>6. out[op] \in ToSet(ins[op]) => \E k \in 1..Len(ins[op]) : ins[op][k] = out[op]
    BY <1>1, ElementsOf
  <2>7. Len(edges[home[op]]) \in Nat /\ Len(ins[op]) <= Len(edges[home[op]]) + 1
    BY <1>1, <1>2, <1>3, <1>4, <1>6, <2>2, <2>3 DEF Counted
  <2>8. Len(ins[op]) > Len(edges[home[op]]) => ~(Len(ins[op]) < Len(fn.ins[op]))
    BY <1>1, <1>2, <1>3, <1>6, <2>3
  <2> QED BY <1>1, <1>6, <2>5, <2>6, <2>7, <2>8
<1> QED BY <1>5, <1>6

LEMMA FinishReviewSlots == IInv /\ SlotInv /\ FinishReview => SlotInv'
<1> SUFFICES ASSUME IInv, SlotInv, FinishReview PROVE SlotInv'
  OBVIOUS
<1>1. /\ pc = "review" /\ pc' = "audit" /\ UNCHANGED <<job, ins, out, live, edges>>
      /\ cur' = NoOp /\ todo' = ExcessPhis
  BY DEF FinishReview, graph, walk
<1>2. EdgesLeft' /\ PhisKept'
  BY <1>1, SameEdges, SamePhis DEF SlotInv
<1>3. LoopPhisOnly'
  <2>1. ASSUME NEW op \in todo', Fitting(op)
        PROVE  home[op] = LoopBlock
    <3>1. op \in Op /\ Len(ins[op]) > Len(edges[home[op]])
      BY <1>1, <2>1 DEF ExcessPhis
    <3>2. /\ Len(ins[op]) \in Nat /\ Len(edges[home[op]]) \in Nat
          /\ home[op] # LoopBlock => Len(ins[op]) <= Len(edges[home[op]])
      BY <1>1, <2>1, <3>1, SlotsOfPhi
    <3> QED BY <3>1, <3>2
  <2>2. \A op : Fitting(op)' <=> Fitting(op)
    BY <1>1, SameJob DEF Fitting
  <2>3. ~Fitting(NoOp)
    BY EditorAssumption DEF Fitting, IInv, TypeOK
  <2>4. \A op \in todo' \cup {cur'} : Fitting(op)' => home[op] = LoopBlock
    BY <1>1, <2>1, <2>2, <2>3
  <2>5. \A op \in live' : out'[op] = fn'.out[op]
    BY <1>1, SameJob DEF SlotInv, LoopPhisOnly
  <2> QED BY <1>1, <2>4, <2>5 DEF LoopPhisOnly
<1>4. ExcessAudited'
  BY <1>1, SameJob DEF ExcessAudited, ExcessPhis, IsPhi, Fitting
<1> QED BY <1>2, <1>3, <1>4 DEF SlotInv

LEMMA AuditOpSlots == IInv /\ SlotInv /\ AuditOp => SlotInv'
<1> SUFFICES ASSUME IInv, SlotInv, AuditOp PROVE SlotInv'
  OBVIOUS
<1>1. /\ pc = "audit" /\ pc' = "audit" /\ UNCHANGED <<job, ins, out, live, edges>>
      /\ cur = NoOp /\ slot' = 1
  BY DEF AuditOp, graph
<1>2. PICK op \in todo : todo' = todo \ {op} /\ cur' = op
  BY DEF AuditOp
<1>3. EdgesLeft' /\ PhisKept'
  BY <1>1, SameEdges, SamePhis DEF SlotInv
<1>4. LoopPhisOnly'
  BY <1>1, <1>2, SameJob DEF SlotInv, LoopPhisOnly, Fitting
<1>5. ExcessAudited'
  <2> SUFFICES ASSUME NEW x \in Op, Fitting(x), Len(ins[x]) > Len(edges[home[x]])
               PROVE  x \in todo' \/ (x = cur' /\ \E i \in 1..Len(ins[x]) : ins[x][i] = out[x])
    BY <1>1, SameJob DEF ExcessAudited, Fitting
  <2>1. x \in todo
    BY <1>1, EditorAssumption DEF SlotInv, ExcessAudited
  <2>2. home[x] = LoopBlock
    BY <1>1, <2>1 DEF SlotInv, LoopPhisOnly
  <2>3. \E i \in 1..Len(ins[x]) : ins[x][i] = out[x]
    BY <1>1, <2>2, SlotsOfPhi
  <2> QED BY <1>2, <2>1, <2>3
<1> QED BY <1>3, <1>4, <1>5 DEF SlotInv

LEMMA AuditSlotSlots == IInv /\ SlotInv /\ AuditSlot => SlotInv'
<1> SUFFICES ASSUME IInv, SlotInv, AuditSlot PROVE SlotInv'
  OBVIOUS
<1>1. /\ pc = "audit" /\ pc' = "audit" /\ UNCHANGED <<job, out, live, edges, todo, cur>>
      /\ cur # NoOp /\ slot <= Len(ins[cur])
  BY DEF AuditSlot
<1>2. cur \in Op /\ ins \in InputSeqs /\ slot \in 1..Len(ins[cur]) /\ ins[cur] \in Seq(Vn)
      /\ Len(ins[cur]) \in Nat
  BY <1>1, AtSlotFacts, LenProperties
<1>3. EdgesLeft'
  BY <1>1, SameEdges DEF SlotInv
<1>4. LoopPhisOnly'
  BY <1>1, SameJob DEF SlotInv, LoopPhisOnly, Fitting
<1>5. \A x \in Op : Fitting(x)' <=> Fitting(x)
  BY <1>1, SameJob DEF Fitting
<1>6. CASE ins[cur][slot] = out[cur]
  <2>1. /\ ins' = SlotRemoved(ins, cur, slot)
        /\ ins'[cur] = RemoveAt(ins[cur], slot)
        /\ \A x \in Op \ {cur} : ins'[x] = ins[x]
    BY <1>2, <1>6, SlotRemovedFacts DEF AuditSlot
  <2>2. Fitting(cur) => home[cur] = LoopBlock
    BY <1>1 DEF SlotInv, LoopPhisOnly
  <2>3. Fitting(cur) /\ PhiKept(fn, cur, ins[cur], out) => PhiKept(fn, cur, ins'[cur], out)
    BY <1>2, <1>6, <2>1, <2>2, SelfReadEdit DEF SlotInv
  <2>4. PhisKept'
    BY <1>1, <2>1, <2>3, OnePhi DEF SlotInv
  <2>5. ExcessAudited'
    <3> SUFFICES ASSUME NEW x \in Op, Fitting(x), Len(ins'[x]) > Len(edges[home[x]])
                 PROVE  x \in todo
      BY <1>1, <1>5 DEF ExcessAudited
    <3>1. CASE x = cur
      <4>1. Len(ins[x]) <= Len(edges[home[x]]) + 1 /\ Len(edges[home[x]]) \in Nat
        BY <1>1, <2>2, <3>1, SlotsOfPhi
      <4>2. Len(RemoveAt(ins[cur], slot)) = Len(ins[cur]) - 1
        BY <1>2, RemoveAtFacts
      <4>3. Len(ins'[x]) = Len(ins[x]) - 1
        BY <2>1, <3>1, <4>2
      <4> QED BY <1>2, <3>1, <4>1, <4>3
    <3>2. CASE x # cur
      BY <1>1, <2>1, <3>2 DEF SlotInv, ExcessAudited
    <3> QED BY <3>1, <3>2
  <2> QED BY <1>3, <1>4, <2>4, <2>5 DEF SlotInv
<1>7. CASE ins[cur][slot] # out[cur]
  <2>1. ins' = ins /\ slot' = slot + 1
    BY <1>7 DEF AuditSlot
  <2>2. PhisKept'
    BY <1>1, <2>1, SamePhis DEF SlotInv
  <2>3. ExcessAudited'
    <3> SUFFICES ASSUME NEW x \in Op, Fitting(x), Len(ins[x]) > Len(edges[home[x]])
                 PROVE  x \in todo \/ (x = cur /\ \E i \in (slot+1)..Len(ins[x]) : ins[x][i] = out[x])
      BY <1>1, <1>5, <2>1 DEF ExcessAudited
    <3>1. CASE x = cur /\ \E i \in slot..Len(ins[x]) : ins[x][i] = out[x]
      BY <1>2, <1>7, <3>1
    <3> QED BY <1>1, <3>1 DEF SlotInv, ExcessAudited
  <2> QED BY <1>3, <1>4, <2>2, <2>3 DEF SlotInv
<1> QED BY <1>6, <1>7

LEMMA LeaveOpSlots == IInv /\ SlotInv /\ LeaveOp => SlotInv'
<1> SUFFICES ASSUME IInv, SlotInv, LeaveOp PROVE SlotInv'
  OBVIOUS
<1>1. /\ pc \in {"review", "audit"} /\ pc' = pc /\ UNCHANGED <<job, ins, out, live, edges, todo, slot>>
      /\ cur # NoOp /\ cur' = NoOp /\ slot > Len(ins[cur])
  BY DEF LeaveOp, graph
<1>2. CASE pc = "review"
  BY <1>1, <1>2, QuietStep
<1>3. CASE pc = "audit"
  <2>1. EdgesLeft' /\ PhisKept'
    BY <1>1, <1>3, SameEdges, SamePhis DEF SlotInv
  <2>2. \A x : Fitting(x)' <=> Fitting(x)
    BY <1>1, SameJob DEF Fitting
  <2>3. ~Fitting(NoOp)
    BY EditorAssumption DEF Fitting, IInv, TypeOK
  <2>4. LoopPhisOnly'
    BY <1>1, <1>3, <2>2, <2>3, SameJob DEF SlotInv, LoopPhisOnly
  <2>5. cur \in Op /\ slot \in Nat /\ Len(ins[cur]) \in Nat
    BY <1>1, ReadsType, LenProperties DEF IInv, TypeOK
  <2>6. ExcessAudited'
    <3> SUFFICES ASSUME NEW x \in Op, Fitting(x), Len(ins[x]) > Len(edges[home[x]])
                 PROVE  x \in todo
      BY <1>1, <1>3, <2>2 DEF ExcessAudited
    <3>1. ~(x = cur /\ \E i \in slot..Len(ins[x]) : ins[x][i] = out[x])
      BY <1>1, <2>5
    <3> QED BY <1>3, <3>1 DEF SlotInv, ExcessAudited
  <2> QED BY <2>1, <2>4, <2>6 DEF SlotInv
<1> QED BY <1>1, <1>2, <1>3

LEMMA FinishAuditSlots == IInv /\ SlotInv /\ FinishAudit => SlotInv'
<1> SUFFICES ASSUME IInv, SlotInv, FinishAudit PROVE SlotInv'
  OBVIOUS
<1>1. /\ pc = "audit" /\ pc' = "done" /\ UNCHANGED <<job, ins, out, live, edges, todo>>
      /\ cur = NoOp /\ todo = {}
  BY DEF FinishAudit, graph
<1>2. EdgesLeft' /\ PhisKept'
  BY <1>1, SameEdges, SamePhis DEF SlotInv
<1>3. LoopPhisOnly'
  BY <1>1, SameJob DEF SlotInv, LoopPhisOnly
<1>4. \A x : Fitting(x)' <=> Fitting(x)
  BY <1>1, SameJob DEF Fitting
<1>5. ExcessAudited'
  BY <1>1, <1>4, EditorAssumption DEF SlotInv, ExcessAudited
<1> QED BY <1>2, <1>3, <1>5 DEF SlotInv

-----------------------------------------------------------------------------
LEMMA NextSlots == IInv /\ SlotInv /\ [Next]_vars => SlotInv'
<1> SUFFICES ASSUME IInv, SlotInv, [Next]_vars PROVE SlotInv'
  OBVIOUS
<1>1. CASE DeleteListed \/ DeleteUnread
  BY <1>1, DeletionSlots DEF DeleteListed, DeleteUnread
<1>2. CASE TrimDone \/ ScanBlock \/ StartReview \/ ReviewOp \/ KeepPhiSlot \/ KeepCallSlot
  BY <1>2, QuietStep
  DEF TrimDone, ScanBlock, StartReview, ReviewOp, KeepPhiSlot, KeepCallSlot, AtSlot, graph
<1>3. CASE UNCHANGED vars
  <2>1. UNCHANGED <<job, ins, out, live, edges, todo, cur, slot, pc>>
    BY <1>3 DEF vars
  <2>2. \A x : Fitting(x)' <=> Fitting(x)
    BY <2>1, SameJob DEF Fitting
  <2>3. EdgesLeft' /\ LoopPhisOnly' /\ PhisKept' /\ ExcessAudited'
    BY <2>1, <2>2, SameJob DEF SlotInv, EdgesLeft, LoopPhisOnly, PhisKept, ExcessAudited
  <2> QED BY <2>3 DEF SlotInv
<1> QED
  BY <1>1, <1>2, <1>3, RemoveLoopEdgeSlots, TrimPhiSlots, DuplicatePhiSlots, AbortSlots,
     RemovePhiSlots, RemoveCallSlots, FinishReviewSlots, AuditOpSlots, AuditSlotSlots,
     LeaveOpSlots, FinishAuditSlots
  DEF Next

(* The invariant of the phis holds throughout every call of simplifyBlocks. *)
THEOREM SlotInvariance == Spec => []SlotInv
BY InitSlots, NextSlots, Invariance, PTL DEF Spec

(* When simplifyBlocks returns, no phi that was as it should be has more   *)
(* slots than its block has in-edges: removeDoWhileWrapperBlock, the       *)
(* review or auditMultiequals has taken the one of the loop edge.          *)
THEOREM SlotsMatchEdges == Spec => []NoExcessSlots
<1>1. IInv /\ SlotInv => NoExcessSlots
  <2> SUFFICES ASSUME IInv, SlotInv, pc = "done", NEW op \in live,
                      code[op] = "MULTIEQUAL", Fits(op)
               PROVE  Len(ins[op]) <= Len(edges[home[op]])
    BY DEF NoExcessSlots
  <2>1. op \in Op /\ Fitting(op)
    BY DEF Fitting, IInv, TypeOK
  <2>2. Len(ins[op]) \in Nat /\ Len(edges[home[op]]) \in Nat
    BY <2>1, SlotsOfPhi
  <2>3. ~(Len(ins[op]) > Len(edges[home[op]]))
    BY <2>1 DEF SlotInv, ExcessAudited
  <2> QED BY <2>2, <2>3
<1> QED BY Invariance, SlotInvariance, <1>1, PTL

(* When simplifyBlocks returns, a phi of two inputs reads what came along  *)
(* an edge that remains on that edge, unless its writer was deleted.       *)
THEOREM InputsStayOnEdges == Spec => []EdgeInputsKept
<1>1. IInv /\ SlotInv => EdgeInputsKept
  <2> SUFFICES ASSUME IInv, SlotInv, pc = "done", NEW op \in live,
                      code[op] = "MULTIEQUAL", Fits(op), Len(fn.ins[op]) = 2,
                      IsInjective(fn.edges[home[op]]),
                      NEW i \in DOMAIN edges[home[op]], NEW j \in DOMAIN fn.ins[op],
                      edges[home[op]][i] = fn.edges[home[op]][j],
                      ~IsStale(out, fn.ins[op][j])
               PROVE  ins[op][i] = fn.ins[op][j]
    BY DEF EdgeInputsKept
  <2>1. op \in Op /\ Fitting(op) /\ job \in Jobs
    BY DEF Fitting, IInv, TypeOK
  <2>2. /\ fn.ins[op] \in Seq(Vn) /\ fn.edges[home[op]] \in Seq(Block)
        /\ Len(fn.edges[home[op]]) = 2 /\ home[op] \in Block
    BY <2>1, FitFacts
  <2>3. DOMAIN fn.ins[op] = 1..2 /\ DOMAIN fn.edges[home[op]] = 1..2
    BY <2>2, LenProperties
  <2>4. PlacedInputs(fn, op, ins[op], out)
    BY <2>1 DEF SlotInv, PhisKept, PhiKept
  <2>5. \A a, b \in 1..2 : fn.edges[home[op]][a] = fn.edges[home[op]][b] => a = b
    BY <2>3 DEF IsInjective
  <2>6. CASE home[op] # LoopBlock
    <3>1. edges[home[op]] = fn.edges[home[op]]
      BY <2>2, <2>6 DEF SlotInv, EdgesLeft
    <3>2. i = j
      BY <2>3, <2>5, <3>1
    <3> QED BY <2>3, <2>4, <2>6, <3>2 DEF PlacedInputs, KeptAt
  <2>7. CASE home[op] = LoopBlock
    <3>1. PICK k \in 1..2 :
            /\ fn.edges[LoopBlock][k] = LoopBlock
            /\ edges[LoopBlock] = RemoveAt(fn.edges[LoopBlock], k)
      BY <2>3, <2>7 DEF SlotInv, EdgesLeft
    <3>2. /\ edges[LoopBlock] \in Seq(Block) /\ Len(edges[LoopBlock]) = 1
          /\ edges[LoopBlock][1] = fn.edges[LoopBlock][3-k]
      BY <2>2, <2>7, <3>1, RemoveOfTwo
    <3>3. i = 1
      BY <2>7, <3>2, LenProperties
    <3>4. 3-k \in 1..2 /\ 3-k # k
      OBVIOUS
    <3>5. j = 3-k /\ 3-j = k
      BY <2>3, <2>5, <2>7, <3>2, <3>3, <3>4
    <3>6. EntryKept(fn, op, ins[op], out, j)
      BY <2>3, <2>4, <2>5, <2>7, <3>1, <3>4, <3>5 DEF PlacedInputs
    <3>7. ~(Len(ins[op]) > 1)
      BY <2>1, <2>7, <3>2 DEF SlotInv, ExcessAudited
    <3> QED BY <3>3, <3>6, <3>7 DEF EntryKept
  <2> QED BY <2>6, <2>7
<1> QED BY Invariance, SlotInvariance, <1>1, PTL

-----------------------------------------------------------------------------
(* What is not deleted.  The invariant says of each op that is left how it *)
(* relates to the function given, and of the sets the code iterates over   *)
(* why their ops may be changed.                                           *)

Untouched(op) ==
  /\ out[op] = fn.out[op]
  /\ Reads(ins, op) \subseteq Reads(fn.ins, op)
  /\ \A vn \in Reads(ins, op) : IsStale(out, vn) => vn \in Undone
  /\ \/ ins[op] = fn.ins[op]
     \/ code[op] = "MULTIEQUAL"
     \/ code[op] = "CALL" /\ Reads(fn.ins, op) \cap Undone # {}

Rest ==
  /\ live \subseteq fn.live
  /\ \A op \in fn.live \ (fn.del \cup live) : fn.out[op] # NoVn
  /\ \A op \in live : Untouched(op)

Queued ==
  /\ pc = "delete" =>
       /\ todo \subseteq fn.del
       /\ fn.del \cap live \subseteq todo
       /\ todo = fn.del => ins = fn.ins /\ out = fn.out /\ live = fn.live
  /\ pc # "delete" => fn.del \cap live = {}
  /\ pc = "trim" => \A op \in todo : code[op] = "MULTIEQUAL"
  /\ pc = "purge" => \A op \in todo : fn.out[op] # NoVn
  /\ pc = "review" =>
       \A op \in (todo \cup {cur}) \ {NoOp} : Reads(fn.ins, op) \cap Undone # {}

RestInv == Rest /\ Queued

LEMMA InitRest == Init => RestInv
<1> SUFFICES ASSUME Init PROVE RestInv
  OBVIOUS
<1>1. /\ job \in Jobs /\ ins = fn.ins /\ out = fn.out /\ live = fn.live /\ todo = fn.del
      /\ pc = "delete"
  BY DEF Init
<1>2. WellFormed(fn) /\ fn.live \in SUBSET Op
  BY <1>1, JobType
<1> HIDE DEF fn
<1>3. Rest
  <2>1. ASSUME NEW op \in live PROVE Untouched(op)
    BY <1>1, <1>2 DEF WellFormed, Untouched
  <2> QED BY <1>1, <2>1 DEF Rest
<1>4. Queued
  BY <1>1 DEF Queued
<1> QED BY <1>3, <1>4 DEF RestInv

(* Steps that change no op *)
LEMMA SameRest ==
  ASSUME Rest, UNCHANGED <<job, ins, out, live>>
  PROVE  Rest'
BY SameJob DEF Rest, Untouched, Undone

(* Steps that edit the inputs of one op, which may be edited *)
LEMMA OneEdited ==
  ASSUME Rest, TypeOK, UNCHANGED <<job, out, live>>, NEW op \in Op,
         \A x \in Op \ {op} : ins'[x] = ins[x],
         Reads(ins', op) \subseteq Reads(ins, op),
         ins'[op] = ins[op] \/ code[op] = "MULTIEQUAL"
           \/ (code[op] = "CALL" /\ Reads(fn.ins, op) \cap Undone # {})
  PROVE  Rest'
<1>1. fn' = fn /\ Undone' = Undone
  BY SameJob DEF Undone
<1>2. \A x \in live : Untouched(x)
  BY DEF Rest
<1>3. ASSUME NEW x \in live PROVE Untouched(x)'
  <2>1. x \in Op
    BY DEF TypeOK
  <2>2. CASE x = op
    BY <1>1, <1>2, <1>3, <2>2 DEF Untouched
  <2>3. CASE x # op
    <3>1. ins'[x] = ins[x] /\ Reads(ins', x) = Reads(ins, x)
      BY <2>1, <2>3 DEF Reads
    <3> QED BY <1>1, <1>2, <1>3, <3>1 DEF Untouched
  <2> QED BY <2>2, <2>3
<1> QED BY <1>1, <1>3 DEF Rest

LEMMA SlotGone ==
  ASSUME IInv, Rest, cur # NoOp, slot <= Len(ins[cur]), UNCHANGED <<job, out, live>>,
         ins' = SlotRemoved(ins, cur, slot),
         code[cur] = "MULTIEQUAL" \/ (code[cur] = "CALL" /\ Reads(fn.ins, cur) \cap Undone # {})
  PROVE  Rest'
<1>1. cur \in Op /\ ins \in InputSeqs /\ slot \in 1..Len(ins[cur]) /\ TypeOK
  BY AtSlotFacts DEF IInv
<1>2. /\ \A x \in Op \ {cur} : ins'[x] = ins[x]
      /\ Reads(ins', cur) \subseteq Reads(ins, cur)
  BY <1>1, SlotRemovedFacts
<1> QED BY <1>1, <1>2, OneEdited

-----------------------------------------------------------------------------
(* Deleting one op leaves undone what it wrote, if anyone reads that: only *)
(* the ops that were handed over have readers.                             *)
LEMMA DeletionRest ==
  ASSUME IInv, RestInv, pc \in {"delete", "purge"}, NEW op \in todo, DeleteOp(op),
         todo' = todo \ {op}, UNCHANGED <<job, cur, pc>>
  PROVE  RestInv'
<1>1. op \in Op /\ ins \in InputSeqs /\ out \in Outputs /\ IsSSA(out) /\ live \in SUBSET Op
      /\ op \in live
  BY DEF IInv, TypeOK, GraphInv, NoDoubleUnlink
<1>2. /\ \A x \in Op \ {op} : ins'[x] = ins[x] /\ out'[x] = out[x]
      /\ \A vn \in Vn : IsStale(out', vn) <=> IsStale(out, vn) \/ vn = out[op]
      /\ live' = live \ {op}
  BY <1>1, UnlinkFacts DEF DeleteOp
<1>3. fn' = fn /\ Undone' = Undone
  BY SameJob DEF Undone
<1>4. out[op] = fn.out[op]
  BY <1>1 DEF RestInv, Rest, Untouched
<1>5. \A x \in Op : out[op] \in Reads(ins, x) => out[op] \in Undone
  <2>1. CASE pc = "delete"
    BY <1>4, <2>1 DEF RestInv, Queued, Undone
  <2>2. CASE pc = "purge"
    BY <2>2 DEF IInv, UnreadQueued, Readers
  <2> QED BY <2>1, <2>2
<1>6. ASSUME NEW x \in live' PROVE Untouched(x)'
  <2>1. x \in live /\ x \in Op /\ x # op /\ ins'[x] = ins[x] /\ out'[x] = out[x]
    BY <1>1, <1>2
  <2>2. Untouched(x) /\ Reads(ins', x) = Reads(ins, x) /\ Reads(ins, x) \subseteq Vn
    BY <1>1, <2>1, ReadsType DEF RestInv, Rest, Reads
  <2>3. \A vn \in Reads(ins, x) : IsStale(out', vn) => vn \in Undone
    BY <1>2, <1>5, <2>1, <2>2 DEF Untouched
  <2> QED BY <1>3, <2>1, <2>2, <2>3 DEF Untouched
<1>7. \A x \in fn.live \ (fn.del \cup live') : fn.out[x] # NoVn
  <2>1. op \notin fn.del => fn.out[op] # NoVn
    BY DEF RestInv, Queued
  <2> QED BY <1>2, <2>1 DEF RestInv, Rest
<1>8. Rest'
  BY <1>2, <1>3, <1>6, <1>7 DEF RestInv, Rest
<1>9. Queued'
  <2>1. CASE pc = "delete"
    BY <1>2, <1>3, <2>1 DEF RestInv, Queued
  <2>2. CASE pc = "purge"
    BY <1>2, <1>3, <2>2 DEF RestInv, Queued
  <2> QED BY <2>1, <2>2
<1> QED BY <1>8, <1>9 DEF RestInv

LEMMA RemoveLoopEdgeRest == IInv /\ RestInv /\ RemoveLoopEdge => RestInv'
<1> SUFFICES ASSUME IInv, RestInv, RemoveLoopEdge PROVE RestInv'
  OBVIOUS
<1>1. /\ pc = "delete" /\ todo = {} /\ UNCHANGED <<job, ins, out, live>>
      /\ \/ pc' = "trim" /\ todo' = {op \in Op : IsPhi(op) /\ home[op] = LoopBlock}
         \/ pc' = "purge" /\ todo' = todo
  BY DEF RemoveLoopEdge, graph
<1>2. fn' = fn /\ fn.del \cap live = {}
  BY <1>1, SameJob DEF RestInv, Queued
<1>3. Queued'
  BY <1>1, <1>2 DEF Queued, IsPhi
<1> QED BY <1>1, <1>3, SameRest DEF RestInv

LEMMA TrimPhiRest == IInv /\ RestInv /\ TrimPhi => RestInv'
<1> SUFFICES ASSUME IInv, RestInv, TrimPhi PROVE RestInv'
  OBVIOUS
<1>1. pc = "trim" /\ pc' = "trim" /\ UNCHANGED <<job, out, live>>
  BY DEF TrimPhi
<1>2. PICK op \in todo :
        /\ todo' = todo \ {op}
        /\ IF out[op] \in Reads(ins, op)
           THEN \E i \in DOMAIN ins[op] :
                  /\ IsFirst(ins[op], out[op], i)
                  /\ ins' = SlotRemoved(ins, op, i)
           ELSE UNCHANGED ins
  BY DEF TrimPhi
<1>3. op \in Op /\ ins \in InputSeqs /\ TypeOK /\ code[op] = "MULTIEQUAL"
  BY <1>1 DEF IInv, TypeOK, RestInv, Queued
<1>4. /\ \A x \in Op \ {op} : ins'[x] = ins[x]
      /\ Reads(ins', op) \subseteq Reads(ins, op)
  <2>1. CASE out[op] \in Reads(ins, op)
    <3>1. PICK i \in DOMAIN ins[op] : ins' = SlotRemoved(ins, op, i)
      BY <1>2, <2>1
    <3>2. i \in 1..Len(ins[op])
      BY <1>3, ReadsType
    <3> QED BY <1>3, <3>1, <3>2, SlotRemovedFacts
  <2>2. CASE out[op] \notin Reads(ins, op)
    BY <1>2, <2>2
  <2> QED BY <2>1, <2>2
<1>5. Rest'
  BY <1>1, <1>3, <1>4, OneEdited DEF RestInv
<1>6. Queued'
  BY <1>1, <1>2, SameJob DEF RestInv, Queued
<1> QED BY <1>5, <1>6 DEF RestInv

LEMMA ScanBlockRest == IInv /\ RestInv /\ ScanBlock => RestInv'
<1> SUFFICES ASSUME IInv, RestInv, ScanBlock PROVE RestInv'
  OBVIOUS
<1>1. /\ pc = "purge" /\ pc' = "purge" /\ UNCHANGED <<job, ins, out, live>>
      /\ todo' = Unread(Head(blocks))
  BY DEF ScanBlock, graph
<1>2. \A op \in todo' : fn.out[op] # NoVn
  BY <1>1 DEF Unread, RestInv, Rest, Untouched
<1>3. Queued'
  BY <1>1, <1>2, SameJob DEF RestInv, Queued
<1> QED BY <1>1, <1>3, SameRest DEF RestInv

LEMMA StartReviewRest == IInv /\ RestInv /\ StartReview => RestInv'
<1> SUFFICES ASSUME IInv, RestInv, StartReview PROVE RestInv'
  OBVIOUS
<1>1. /\ pc = "purge" /\ pc' = "review" /\ UNCHANGED <<job, ins, out, live, cur>>
      /\ todo' = review
  BY DEF StartReview, graph, walk
<1>2. review = {op \in live : HasStaleRead(op)} /\ cur = NoOp
  BY <1>1 DEF IInv, ReviewExact, RepairedCalls, Editing
<1>3. \A op \in review : Reads(fn.ins, op) \cap Undone # {}
  BY <1>2 DEF HasStaleRead, RestInv, Rest, Untouched
<1>4. Queued'
  BY <1>1, <1>2, <1>3, SameJob DEF RestInv, Queued, Undone
<1> QED BY <1>1, <1>4, SameRest DEF RestInv

LEMMA ReviewOpRest == IInv /\ RestInv /\ ReviewOp => RestInv'
<1> SUFFICES ASSUME IInv, RestInv, ReviewOp PROVE RestInv'
  OBVIOUS
<1>1. pc = "review" /\ pc' = "review" /\ UNCHANGED <<job, ins, out, live>>
  BY DEF ReviewOp, graph
<1>2. PICK op \in todo : todo' = todo \ {op} /\ cur' \in {op, NoOp}
  BY DEF ReviewOp
<1>3. fn' = fn /\ Undone' = Undone
  BY <1>1, SameJob DEF Undone
<1>4. Queued'
  BY <1>1, <1>2, <1>3 DEF RestInv, Queued
<1> QED BY <1>1, <1>4, SameRest DEF RestInv

LEMMA DuplicatePhiRest == IInv /\ RestInv /\ DuplicatePhiSlot => RestInv'
<1> SUFFICES ASSUME IInv, RestInv, DuplicatePhiSlot PROVE RestInv'
  OBVIOUS
<1>1. /\ pc = "review" /\ pc' = "review" /\ UNCHANGED <<job, out, live, todo, cur>>
      /\ cur # NoOp /\ slot <= Len(ins[cur]) /\ Len(ins[cur]) = 2
      /\ code[cur] = "MULTIEQUAL"
      /\ ins' = SlotInserted(SlotRemoved(ins, cur, slot), cur, slot, ins[cur][GoodSlot])
  BY DEF DuplicatePhiSlot, AtSlot
<1>2. cur \in Op /\ ins \in InputSeqs /\ slot \in 1..Len(ins[cur]) /\ ins[cur] \in Seq(Vn) /\ TypeOK
  BY <1>1, AtSlotFacts DEF IInv
<1> DEFINE shorter == SlotRemoved(ins, cur, slot)
<1>3. /\ shorter \in InputSeqs /\ shorter[cur] = RemoveAt(ins[cur], slot)
      /\ \A x \in Op \ {cur} : shorter[x] = ins[x]
  BY <1>2, SlotRemovedFacts
<1>4. /\ RemoveAt(ins[cur], slot) \in Seq(Vn) /\ Len(RemoveAt(ins[cur], slot)) = Len(ins[cur]) - 1
      /\ ToSet(RemoveAt(ins[cur], slot)) \subseteq ToSet(ins[cur])
  BY <1>2, RemoveAtFacts
<1>5. ins[cur][GoodSlot] \in Vn /\ ins[cur][GoodSlot] \in ToSet(ins[cur])
  <2>1. GoodSlot \in 1..Len(ins[cur])
    BY <1>1 DEF GoodSlot
  <2> QED BY <1>2, <2>1, ReadsType DEF Reads
<1>6. ins' = [shorter EXCEPT ![cur] = InsertAt(shorter[cur], slot, ins[cur][GoodSlot])]
  BY <1>1 DEF SlotInserted
<1> HIDE DEF shorter
<1>7. /\ ins'[cur] = InsertAt(RemoveAt(ins[cur], slot), slot, ins[cur][GoodSlot])
      /\ \A x \in Op \ {cur} : ins'[x] = ins[x]
  BY <1>2, <1>3, <1>6 DEF InputSeqs
<1>8. slot \in 1..(Len(RemoveAt(ins[cur], slot)) + 1)
  BY <1>1, <1>2, <1>4
<1>9. ToSet(ins'[cur]) = ToSet(RemoveAt(ins[cur], slot)) \cup {ins[cur][GoodSlot]}
  BY <1>4, <1>5, <1>7, <1>8, InsertAtFacts
<1>10. Reads(ins', cur) \subseteq Reads(ins, cur)
  BY <1>4, <1>5, <1>9 DEF Reads
<1>11. Rest'
  BY <1>1, <1>2, <1>7, <1>10, OneEdited DEF RestInv
<1>12. Queued'
  BY <1>1, SameJob DEF RestInv, Queued, Undone
<1> QED BY <1>11, <1>12 DEF RestInv

(* Steps that remove the slot that has been reached *)
LEMMA RemovedSlotRest ==
  IInv /\ RestInv /\ (AbortOnSlot \/ RemovePhiSlot \/ RemoveCallSlot) => RestInv'
<1> SUFFICES ASSUME IInv, RestInv, AbortOnSlot \/ RemovePhiSlot \/ RemoveCallSlot PROVE RestInv'
  OBVIOUS
<1>1. /\ pc = "review" /\ pc' \in {"review", "aborted"} /\ UNCHANGED <<job, out, live, todo, cur>>
      /\ cur # NoOp /\ slot <= Len(ins[cur]) /\ code[cur] \in {"MULTIEQUAL", "CALL"}
      /\ ins' = SlotRemoved(ins, cur, slot)
  BY DEF AbortOnSlot, RemovePhiSlot, RemoveCallSlot, AtSlot, walk
<1>2. Reads(fn.ins, cur) \cap Undone # {}
  BY <1>1 DEF RestInv, Queued
<1>3. Rest'
  BY <1>1, <1>2, SlotGone DEF RestInv
<1>4. Queued'
  BY <1>1, SameJob DEF RestInv, Queued, Undone
<1> QED BY <1>3, <1>4 DEF RestInv

LEMMA AuditSlotRest == IInv /\ RestInv /\ AuditSlot => RestInv'
<1> SUFFICES ASSUME IInv, RestInv, AuditSlot PROVE RestInv'
  OBVIOUS
<1>1. /\ pc = "audit" /\ pc' = "audit" /\ UNCHANGED <<job, out, live, todo, cur>>
      /\ cur # NoOp /\ slot <= Len(ins[cur])
      /\ ins' = SlotRemoved(ins, cur, slot) \/ ins' = ins
  BY DEF AuditSlot
<1>2. code[cur] = "MULTIEQUAL"
  BY <1>1 DEF IInv, RepairedCalls
<1>3. Rest'
  BY <1>1, <1>2, SlotGone, SameRest DEF RestInv
<1>4. Queued'
  BY <1>1, SameJob DEF RestInv, Queued
<1> QED BY <1>3, <1>4 DEF RestInv

(* Steps that change no op and queue none *)
LEMMA StillRest ==
  ASSUME RestInv, UNCHANGED <<job, ins, out, live>>, todo' \subseteq todo,
         cur' \in {cur, NoOp},
         \/ pc' = pc /\ (pc = "delete" => todo' = todo)
         \/ pc = "trim" /\ pc' = "purge" /\ todo' = {}
  PROVE  RestInv'
<1>1. Queued'
  BY SameJob DEF RestInv, Queued, Undone
<1> QED BY <1>1, SameRest DEF RestInv

(* The audit has no part in it. *)
LEMMA AuditRest ==
  ASSUME RestInv, UNCHANGED <<job, ins, out, live>>,
         pc \in {"review", "audit"}, pc' \in {"audit", "done"}
  PROVE  RestInv'
<1>1. Queued'
  BY SameJob DEF RestInv, Queued
<1> QED BY <1>1, SameRest DEF RestInv

LEMMA NextRest == IInv /\ RestInv /\ [Next]_vars => RestInv'
<1> SUFFICES ASSUME IInv, RestInv, [Next]_vars PROVE RestInv'
  OBVIOUS
<1>1. CASE DeleteListed \/ DeleteUnread
  BY <1>1, DeletionRest DEF DeleteListed, DeleteUnread, walk
<1>2. CASE TrimDone \/ KeepPhiSlot \/ KeepCallSlot \/ LeaveOp
  BY <1>2, StillRest DEF TrimDone, KeepPhiSlot, KeepCallSlot, LeaveOp, AtSlot, graph, walk
<1>3. CASE FinishReview \/ AuditOp \/ FinishAudit
  BY <1>3, AuditRest DEF FinishReview, AuditOp, FinishAudit, graph
<1>4. CASE UNCHANGED vars
  BY <1>4, StillRest DEF vars
<1> QED
  BY <1>1, <1>2, <1>3, <1>4, RemoveLoopEdgeRest, TrimPhiRest, ScanBlockRest, StartReviewRest,
     ReviewOpRest, DuplicatePhiRest, RemovedSlotRest, AuditSlotRest
  DEF Next

(* The invariant of what is not deleted, for every call of simplifyBlocks. *)
THEOREM RestInvariance == Spec => []RestInv
BY InitRest, NextRest, Invariance, PTL DEF Spec

(* When simplifyBlocks returns, what it was not told to delete, and what   *)
(* somebody reads, is as it was, but for phis and calls that have lost     *)
(* inputs; nothing is read undefined but what the listed ops wrote.        *)
THEOREM OnlyListedGoes == Spec => []RestKept
<1>1. RestInv => RestKept
  BY DEF RestInv, Rest, Queued, Untouched, RestKept
<1> QED BY RestInvariance, <1>1, PTL

=============================================================================
