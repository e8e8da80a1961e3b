------------------------ MODULE LoopTransformProofs ------------------------
(***************************************************************************)
(* What a loop transform guarantees for every loop of every function: what *)
(* simplifyBlocks is handed is what its own theorems assume, the call      *)
(* reads what the loop was entered with, branches go the same way on what  *)
(* has taken the result's place, nobody outside is left to read what the   *)
(* loop kept to itself, and, whatever becomes of it, the transform does as *)
(* LoopReplacement says.  The part of simplifyBlocks is taken from         *)
(* FunctionEditorProofs, and the search for the result is shown to be that *)
(* of EpilogResult.                                                        *)
(***************************************************************************)
EXTENDS LoopTransform, SequenceFacts, FiniteSetTheorems

Facts ==
  INSTANCE FunctionEditorProofs
    WITH Jobs <- Edits, Given <- Handover, code <- EditorCode

-----------------------------------------------------------------------------
(* The editor and its theorems, in the terms of this module. *)

(* The steps of the editor are those of which its theorems speak. *)
LEMMA SameSteps == Editor!Next => Facts!Next
<1> USE DEF
      Editor!graph, Facts!graph, Editor!walk, Facts!walk, Editor!fn, Facts!fn, Editor!AtSlot,
      Facts!AtSlot, Editor!StalePhiSlot, Facts!StalePhiSlot, Editor!GoodSlot, Facts!GoodSlot,
      Editor!IsFirst, Facts!IsFirst, Editor!IsPhi, Facts!IsPhi, Editor!Unread, Facts!Unread,
      Editor!DeleteOp, Facts!DeleteOp, Editor!Reviewed, Facts!Reviewed, Editor!ExcessPhis,
      Facts!ExcessPhis, Editor!Reads, Facts!Reads, Editor!Readers, Facts!Readers,
      Editor!Written, Facts!Written, Editor!IsFree, Facts!IsFree, Editor!UnlinkedIns,
      Facts!UnlinkedIns, Editor!UnlinkedOut, Facts!UnlinkedOut, Editor!SlotRemoved,
      Facts!SlotRemoved, Editor!SlotInserted, Facts!SlotInserted, Editor!ToSet, Facts!ToSet,
      Editor!RemoveAt, Facts!RemoveAt, Editor!InsertAt, Facts!InsertAt
<1>1. Editor!DeleteListed => Facts!DeleteListed
  BY DEF Editor!DeleteListed, Facts!DeleteListed
<1>2. Editor!RemoveLoopEdge => Facts!RemoveLoopEdge
  BY DEF Editor!RemoveLoopEdge, Facts!RemoveLoopEdge
<1>3. Editor!TrimPhi => Facts!TrimPhi
  BY DEF Editor!TrimPhi, Facts!TrimPhi
<1>4. Editor!TrimDone => Facts!TrimDone
  BY DEF Editor!TrimDone, Facts!TrimDone
<1>5. Editor!ScanBlock => Facts!ScanBlock
  BY DEF Editor!ScanBlock, Facts!ScanBlock
<1>6. Editor!DeleteUnread => Facts!DeleteUnread
  BY DEF Editor!DeleteUnread, Facts!DeleteUnread
<1>7. Editor!StartReview => Facts!StartReview
  BY DEF Editor!StartReview, Facts!StartReview
<1>8. Editor!ReviewOp => Facts!ReviewOp
  BY DEF Editor!ReviewOp, Facts!ReviewOp
<1>9. Editor!KeepPhiSlot => Facts!KeepPhiSlot
  BY DEF Editor!KeepPhiSlot, Facts!KeepPhiSlot
<1>10. Editor!DuplicatePhiSlot => Facts!DuplicatePhiSlot
  BY DEF Editor!DuplicatePhiSlot, Facts!DuplicatePhiSlot
<1>11. Editor!AbortOnSlot => Facts!AbortOnSlot
  BY DEF Editor!AbortOnSlot, Facts!AbortOnSlot
<1>12. Editor!RemovePhiSlot => Facts!RemovePhiSlot
  BY DEF Editor!RemovePhiSlot, Facts!RemovePhiSlot
<1>13. Editor!KeepCallSlot => Facts!KeepCallSlot
  BY DEF Editor!KeepCallSlot, Facts!KeepCallSlot
<1>14. Editor!RemoveCallSlot => Facts!RemoveCallSlot
  BY DEF Editor!RemoveCallSlot, Facts!RemoveCallSlot
<1>15. Editor!FinishReview => Facts!FinishReview
  BY DEF Editor!FinishReview, Facts!FinishReview
<1>16. Editor!AuditOp => Facts!AuditOp
  BY DEF Editor!AuditOp, Facts!AuditOp
<1>17. Editor!AuditSlot => Facts!AuditSlot
  BY DEF Editor!AuditSlot, Facts!AuditSlot
<1>18. Editor!LeaveOp => Facts!LeaveOp
  BY DEF Editor!LeaveOp, Facts!LeaveOp
<1>19. Editor!FinishAudit => Facts!FinishAudit
  BY DEF Editor!FinishAudit, Facts!FinishAudit
<1> QED
  BY <1>1, <1>2, <1>3, <1>4, <1>5, <1>6, <1>7, <1>8, <1>9, <1>10, <1>11, <1>12, <1>13, <1>14,
     <1>15, <1>16, <1>17, <1>18, <1>19
  DEF Editor!Next, Facts!Next

Sound(f) ==
  /\ f.del \subseteq f.live
  /\ \A op \in Op \ f.live : f.ins[op] = <<>> /\ f.out[op] = NoVn
  /\ IsSSA(f.out)
  /\ \A op \in Op : \A v \in Reads(f.ins, op) : ~IsStale(f.out, v)

LEMMA SameTerms ==
  ASSUME NEW i, NEW o, NEW op, NEW v
  PROVE  /\ Facts!Reads(i, op) = Reads(i, op)
         /\ Editor!Reads(i, op) = Reads(i, op)
         /\ Facts!IsStale(o, v) <=> IsStale(o, v)
         /\ Editor!IsStale(o, v) <=> IsStale(o, v)
         /\ Facts!IsSSA(o) <=> IsSSA(o)
         /\ Editor!IsSSA(o) <=> IsSSA(o)
<1>1. /\ Facts!Reads(i, op) = Reads(i, op)
      /\ Editor!Reads(i, op) = Reads(i, op)
  BY DEF Reads, Facts!Reads, Editor!Reads, ToSet, Facts!ToSet, Editor!ToSet
<1>2. /\ Facts!IsStale(o, v) <=> IsStale(o, v)
      /\ Editor!IsStale(o, v) <=> IsStale(o, v)
  BY DEF IsStale, Facts!IsStale, Editor!IsStale, IsFree, Facts!IsFree, Editor!IsFree,
         Written, Facts!Written, Editor!Written
<1>3. Facts!IsSSA(o) <=> IsSSA(o)
  BY DEF IsSSA, Facts!IsSSA
<1>4. Editor!IsSSA(o) <=> IsSSA(o)
  BY DEF IsSSA, Editor!IsSSA
<1> QED BY <1>1, <1>2, <1>3, <1>4

LEMMA SameSoundness ==
  ASSUME NEW f
  PROVE  /\ Facts!WellFormed(f) <=> Sound(f)
         /\ Editor!WellFormed(f) <=> Sound(f)
<1>1. Facts!WellFormed(f) <=> Sound(f)
  BY SameTerms DEF Sound, Facts!WellFormed
<1>2. Editor!WellFormed(f) <=> Sound(f)
  BY SameTerms DEF Sound, Editor!WellFormed
<1> QED BY <1>1, <1>2

-----------------------------------------------------------------------------
(* The functions a transform begins with, and what it looks up in them. *)

LEMMA LoopFacts ==
  ASSUME NEW f \in Loops
  PROVE  /\ f.ins \in InputSeqs /\ f.out \in Outputs /\ f.live \subseteq Op
         /\ f.edges \in [Block -> Seq(Block)] /\ f.wrapped \in BOOLEAN
         /\ New \cap f.live = {}
         /\ IsSSA(f.out)
         /\ \A op \in Op \ f.live : f.ins[op] = <<>> /\ f.out[op] = NoVn
         /\ \A op \in Op : \A v \in Reads(f.ins, op) : ~IsStale(f.out, v)
         /\ \A op \in Op : /\ CallVn \notin Reads(f.ins, op) /\ f.out[op] # CallVn
                           /\ InvertVn \notin Reads(f.ins, op) /\ f.out[op] # InvertVn
<1>1. Sound([ins |-> f.ins, out |-> f.out, live |-> f.live, del |-> {}])
  BY LoopsAssumption, SameSoundness
<1>2. /\ IsSSA(f.out)
      /\ \A op \in Op \ f.live : f.ins[op] = <<>> /\ f.out[op] = NoVn
      /\ \A op \in Op : \A v \in Reads(f.ins, op) : ~IsStale(f.out, v)
  BY <1>1 DEF Sound
<1> QED BY <1>2, TransformAssumption

LEMMA ReadsOf ==
  ASSUME NEW i \in InputSeqs, NEW op \in Op
  PROVE  /\ i[op] \in Seq(Vn) /\ Len(i[op]) \in Nat /\ DOMAIN i[op] = 1..Len(i[op])
         /\ Reads(i, op) = ToSet(i[op]) /\ Reads(i, op) \subseteq Vn
         /\ \A k \in DOMAIN i[op] : i[op][k] \in Reads(i, op)
<1>1. i[op] \in Seq(Vn)
  BY DEF InputSeqs
<1> QED BY <1>1, ElementsOf DEF Reads

(* What enters the loop in a register is read by a phi. *)
LEMMA EntryValueRead ==
  ASSUME NEW f \in Loops, NEW v
  PROVE  EntryValue(f, v) = NoVn \/ \E op \in Op : EntryValue(f, v) \in Reads(f.ins, op)
<1> DEFINE phis == {p \in PhisOf(f, reg[v]) : EntrySlots(f, p) # {}}
           phi == CHOOSE p \in phis : TRUE
<1>1. EntryValue(f, v) = IF phis = {} THEN NoVn ELSE f.ins[phi][Min(EntrySlots(f, phi))]
  BY DEF EntryValue
<1>2. ASSUME phis # {}
      PROVE  phi \in Op /\ f.ins[phi][Min(EntrySlots(f, phi))] \in Reads(f.ins, phi)
  <2>1. phi \in phis
    BY <1>2
  <2>2. phi \in f.live /\ EntrySlots(f, phi) # {}
    BY <2>1 DEF PhisOf, PhisAffected
  <2>3. phi \in Op /\ f.ins \in InputSeqs
    BY <2>2, LoopFacts
  <2> HIDE DEF phis, phi
  <2>4. EntrySlots(f, phi) \subseteq DOMAIN f.ins[phi] /\ DOMAIN f.ins[phi] \subseteq Nat
    BY <2>3, ReadsOf DEF EntrySlots
  <2>5. Min(EntrySlots(f, phi)) \in EntrySlots(f, phi)
    BY <2>2, <2>4, MinOf
  <2> QED BY <2>3, <2>4, <2>5, ReadsOf
<1> HIDE DEF phis, phi
<1> QED BY <1>1, <1>2

(* The arguments of the call are Varnodes the function has defined. *)
LEMMA OperandFacts ==
  ASSUME NEW f \in Loops, NEW t \in {"memcpy", "strlen", "strcmp"},
         NoVn \notin ToSet(Operands(f, t))
  PROVE  /\ Operands(f, t) \in Seq(Vn)
         /\ \A v \in ToSet(Operands(f, t)) : \E op \in Op : v \in Reads(f.ins, op)
<1> DEFINE Known(v) == \E op \in Op : v \in Reads(f.ins, op)
<1>1. \A v : EntryValue(f, v) = NoVn \/ Known(EntryValue(f, v))
  BY EntryValueRead
<1>2. \A v : Known(v) => v \in Vn
  BY LoopFacts, ReadsOf
<1> HIDE DEF Known
<1>3. ASSUME NEW a, NEW i PROVE Operand(f, a, i) = NoVn \/ Known(Operand(f, a, i))
  BY <1>1 DEF Operand
<1>4. NumElements(f) = NoVn \/ Known(NumElements(f))
  BY <1>1 DEF NumElements
<1>5. CASE t = "memcpy"
  <2> DEFINE a == Operand(f, Stores(f), 1)
             b == Operand(f, Loads(f), 1)
             c == NumElements(f)
  <2>1. Operands(f, t) = <<a, b, c>>
    BY <1>5 DEF Operands
  <2>2. (a = NoVn \/ Known(a)) /\ (b = NoVn \/ Known(b)) /\ (c = NoVn \/ Known(c))
    BY <1>3, <1>4
  <2> HIDE DEF a, b, c
  <2>3. ToSet(<<a, b, c>>) = {a, b, c}
    BY DEF ToSet
  <2>4. Known(a) /\ Known(b) /\ Known(c)
    BY <2>1, <2>2, <2>3
  <2> QED BY <1>2, <2>1, <2>3, <2>4 DEF Known
<1>6. CASE t = "strlen"
  <2> DEFINE a == Operand(f, Loads(f), 1)
  <2>1. Operands(f, t) = <<a>>
    BY <1>6 DEF Operands
  <2>2. a = NoVn \/ Known(a)
    BY <1>3
  <2> HIDE DEF a
  <2>3. ToSet(<<a>>) = {a}
    BY DEF ToSet
  <2> QED BY <1>2, <2>1, <2>2, <2>3 DEF Known
<1>7. CASE t = "strcmp"
  <2> DEFINE a == Operand(f, Loads(f), 1)
             b == Operand(f, Loads(f), 2)
  <2>1. Operands(f, t) = <<a, b>>
    BY <1>7 DEF Operands
  <2>2. (a = NoVn \/ Known(a)) /\ (b = NoVn \/ Known(b))
    BY <1>3
  <2> HIDE DEF a, b
  <2>3. ToSet(<<a, b>>) = {a, b}
    BY DEF ToSet
  <2> QED BY <1>2, <2>1, <2>2, <2>3 DEF Known
<1> QED BY <1>5, <1>6, <1>7

-----------------------------------------------------------------------------
(* What simplifyBlocks is handed. *)

(* Only the slots that hold the result get something else. *)
LEMMA RedirectedFacts ==
  ASSUME NEW f, NEW t, NEW r, NEW op, NEW reads \in Seq(Vn)
  PROVE  /\ Redirected(f, t, r, op, reads) \in Seq(Vn)
         /\ Len(Redirected(f, t, r, op, reads)) = Len(reads)
         /\ DOMAIN Redirected(f, t, r, op, reads) = DOMAIN reads
         /\ \A i \in DOMAIN reads :
              Redirected(f, t, r, op, reads)[i] =
                IF r # NoVn /\ reads[i] = r THEN AnswerFor(f, t, r, op) ELSE reads[i]
<1> DEFINE n == Len(reads)
           new == Redirected(f, t, r, op, reads)
<1>1. n \in Nat /\ DOMAIN reads = 1..n /\ \A i \in 1..n : reads[i] \in Vn
  BY ElementsOf
<1>2. AnswerFor(f, t, r, op) \in Vn
  BY TransformAssumption DEF AnswerFor
<1>3. /\ DOMAIN new = 1..n
      /\ \A i \in 1..n :
           new[i] = IF r # NoVn /\ reads[i] = r THEN AnswerFor(f, t, r, op) ELSE reads[i]
      /\ new = [i \in 1..n |-> new[i]]
  BY <1>1 DEF Redirected
<1> HIDE DEF new, n
<1>4. \A i \in 1..n : new[i] \in Vn
  BY <1>1, <1>2, <1>3
<1>5. new \in Seq(Vn)
  BY <1>1, <1>3, <1>4, IsASeq
<1>6. Len(new) = n
  BY <1>1, <1>3, <1>5, LenProperties
<1> QED BY <1>1, <1>3, <1>5, <1>6 DEF new, n

LEMMA DefFacts ==
  ASSUME NEW f \in Loops, NEW t, NEW r \in Candidates(f, t)
  PROVE  /\ r \in Vn /\ r # NoVn
         /\ Def(f, r) \in f.live /\ Def(f, r) \in Op /\ f.out[Def(f, r)] = r
         /\ \A op \in Op : f.out[op] = r => op = Def(f, r)
         /\ r \notin {CallVn, InvertVn}
<1>1. r \in Vn /\ r # NoVn
  BY VnAssumption DEF Candidates
<1>2. DefAddr(f, r) # {}
  BY DEF Candidates, InEpilog
<1>3. \E op \in f.live : f.out[op] = r
  BY <1>2 DEF DefAddr
<1>4. Def(f, r) \in f.live /\ f.out[Def(f, r)] = r
  BY <1>3 DEF Def
<1>5. Def(f, r) \in Op
  BY <1>4, LoopFacts
<1> QED BY <1>1, <1>4, <1>5, LoopFacts DEF IsSSA

LEMMA EditFacts ==
  ASSUME NEW e \in Edits
  PROVE  /\ e[1] \in Loops /\ e[2] \in {"memcpy", "strlen", "strcmp"}
         /\ e[3] \in Vn \cup {NoVn}
         /\ e[3] # NoVn => e[2] # "memcpy" /\ e[3] \in Candidates(e[1], e[2])
         /\ e[3] = NoVn => e[2] = "memcpy"
         /\ ~Vetoed(e[1], e[2], e[3])
         /\ NoVn \notin ToSet(Operands(e[1], e[2]))
         /\ Handover[e] = HandedOver(e[1], e[2], e[3])
<1>1. /\ e[1] \in Loops /\ e[2] \in {"memcpy", "strlen", "strcmp"} /\ e[3] \in Vn \cup {NoVn}
      /\ e[3] \in IF e[2] = "memcpy" THEN {NoVn} ELSE Candidates(e[1], e[2])
      /\ ~Vetoed(e[1], e[2], e[3]) /\ NoVn \notin ToSet(Operands(e[1], e[2]))
  BY DEF Edits
<1>2. NoVn \notin Candidates(e[1], e[2])
  BY VnAssumption DEF Candidates
<1>3. Handover[e] = HandedOver(e[1], e[2], e[3])
  BY DEF Handover
<1> QED BY <1>1, <1>2, <1>3

(* The ops of the loop, its affected phis and the result's own op are part *)
(* of the function; phis, and the result's op, write something.            *)
LEMMA DeletedFacts ==
  ASSUME NEW f \in Loops, NEW t, NEW r, r = NoVn \/ r \in Candidates(f, t)
  PROVE  /\ Deleted(f, r) \subseteq f.live
         /\ \A op \in Deleted(f, r) \ LoopOps(f) : f.out[op] # NoVn
         /\ \A op \in Deleted(f, r) :
              op \in ToSet(LoopOrder) \/ (r # NoVn /\ f.out[op] = r)
<1>1. LoopOps(f) \subseteq f.live \cap ToSet(LoopOrder)
  BY DEF LoopOps
<1>2. /\ PhisAffected(f) \subseteq f.live \cap ToSet(LoopOrder)
      /\ \A op \in PhisAffected(f) : f.out[op] # NoVn
  BY PcodeAssumption DEF PhisAffected
<1>3. r # NoVn => Def(f, r) \in f.live /\ f.out[Def(f, r)] = r
  BY DefFacts
<1> QED BY <1>1, <1>2, <1>3 DEF Deleted

LEMMA LinkedFacts ==
  ASSUME NEW e \in Edits, NEW op \in Op
  PROVE  /\ Linked(e[1], e[2], op) \in Seq(Vn)
         /\ \A v \in ToSet(Linked(e[1], e[2], op)) :
              \/ \E x \in Op : v \in Reads(e[1].ins, x)
              \/ e[2] = "strcmp" /\ v = CallVn
         /\ op \notin e[1].live \cup New => Linked(e[1], e[2], op) = <<>>
         /\ e[2] # "strcmp" /\ op = InvertOp => Linked(e[1], e[2], op) = <<>>
<1> DEFINE f == e[1]
           t == e[2]
<1>1. /\ f \in Loops /\ t \in {"memcpy", "strlen", "strcmp"} /\ NoVn \notin ToSet(Operands(f, t))
  BY EditFacts
<1> HIDE DEF f, t
<1>2. /\ Operands(f, t) \in Seq(Vn)
      /\ \A v \in ToSet(Operands(f, t)) : \E x \in Op : v \in Reads(f.ins, x)
  BY <1>1, OperandFacts
<1>3. f.ins[op] \in Seq(Vn) /\ ToSet(f.ins[op]) = Reads(f.ins, op)
  BY <1>1, LoopFacts, ReadsOf
<1>4. <<CallVn>> \in Seq(Vn) /\ ToSet(<<CallVn>>) = {CallVn} /\ ToSet(<<>>) = {} /\ <<>> \in Seq(Vn)
  BY TransformAssumption DEF ToSet
<1>5. CASE op = CallOp
  BY <1>2, <1>5, TransformAssumption DEF Linked, New, f, t
<1>6. CASE op = InvertOp
  BY <1>4, <1>6, TransformAssumption DEF Linked, New, f, t
<1>7. CASE op \notin New
  <2>1. Linked(f, t, op) = f.ins[op]
    BY <1>7 DEF Linked, New
  <2> QED BY <1>1, <1>3, <1>7, <2>1, LoopFacts DEF New, f, t
<1> QED BY <1>5, <1>6, <1>7 DEF New

(* What is written in the function handed over, by whom *)
LEMMA WrittenFacts ==
  ASSUME NEW e \in Edits
  PROVE  /\ Handover[e].out \in Outputs
         /\ \A op \in Op \ New : Handover[e].out[op] = e[1].out[op]
         /\ Handover[e].out[CallOp] = IF e[2] = "memcpy" THEN NoVn ELSE CallVn
         /\ Handover[e].out[InvertOp] = IF e[2] = "strcmp" THEN InvertVn ELSE NoVn
         /\ IsSSA(Handover[e].out)
         /\ \A v \in Vn : IsStale(Handover[e].out, v) => IsStale(e[1].out, v)
         /\ e[2] # "memcpy" => ~IsStale(Handover[e].out, CallVn)
         /\ e[2] = "strcmp" => ~IsStale(Handover[e].out, InvertVn)
<1> DEFINE f == e[1]
           t == e[2]
           o == Handover[e].out
<1>1. /\ f \in Loops /\ t \in {"memcpy", "strlen", "strcmp"}
      /\ Handover[e] = HandedOver(f, t, e[3])
  BY EditFacts
<1>2. o = [op \in Op |-> WrittenBy(f, t, e[3], op)]
  BY <1>1 DEF HandedOver
<1> HIDE DEF f, t, o
<1>3. /\ f.out \in Outputs /\ IsSSA(f.out)
      /\ \A op \in New : f.out[op] = NoVn
      /\ \A op \in Op : f.out[op] \notin {CallVn, InvertVn}
  BY <1>1, LoopFacts, TransformAssumption
<1>4. /\ CallOp \in Op /\ InvertOp \in Op /\ CallOp # InvertOp /\ CallVn \in Vn /\ InvertVn \in Vn
      /\ CallVn # InvertVn /\ {CallVn, InvertVn} \cap (InputVn \cup PoolVn) = {}
      /\ NoVn \notin Vn
  BY TransformAssumption, VnAssumption DEF New
<1>5. /\ \A op \in Op \ New : o[op] = f.out[op]
      /\ o[CallOp] = IF t = "memcpy" THEN NoVn ELSE CallVn
      /\ o[InvertOp] = IF t = "strcmp" THEN InvertVn ELSE NoVn
  BY <1>2, <1>4 DEF WrittenBy, New
<1>6. o \in Outputs
  <2>1. \A op \in Op : WrittenBy(f, t, e[3], op) \in Vn \cup {NoVn}
    BY <1>3, <1>4 DEF WrittenBy, Outputs
  <2> QED BY <1>2, <2>1 DEF Outputs
<1>7. IsSSA(o)
  <2>1. ASSUME NEW a \in Op, o[a] # NoVn
        PROVE  o[a] \notin InputVn \cup PoolVn /\ \A b \in Op : o[a] = o[b] => a = b
    <3>1. CASE a \in New
      BY <1>3, <1>4, <1>5, <2>1, <3>1 DEF New
    <3>2. CASE a \notin New
      BY <1>3, <1>4, <1>5, <2>1, <3>2 DEF New, IsSSA
    <3> QED BY <3>1, <3>2
  <2> QED BY <2>1 DEF IsSSA
<1>8. \A v : v # NoVn /\ Written(f.out, v) => Written(o, v)
  BY <1>3, <1>5 DEF Written
<1>9. \A v \in Vn : IsStale(o, v) => IsStale(f.out, v)
  BY <1>4, <1>8 DEF IsStale, IsFree
<1>10. t # "memcpy" => Written(o, CallVn)
  BY <1>4, <1>5 DEF Written
<1>11. t = "strcmp" => Written(o, InvertVn)
  BY <1>4, <1>5 DEF Written
<1> QED BY <1>1, <1>5, <1>6, <1>7, <1>9, <1>10, <1>11 DEF f, t, o, IsStale, IsFree

(* What an op of the function handed over reads: what it read, the stand-  *)
(* ins for the result in the slots of the result, and the result nowhere.  *)
LEMMA HandedReads ==
  ASSUME NEW e \in Edits, NEW op \in Op
  PROVE  /\ Handover[e].ins \in InputSeqs
         /\ Handover[e].ins[op] = Redirected(e[1], e[2], e[3], op, Linked(e[1], e[2], op))
         /\ \A v \in Reads(Handover[e].ins, op) :
              /\ ~IsStale(Handover[e].out, v)
              /\ e[3] # NoVn => v # e[3]
              /\ v \in Reads(e[1].ins, op) \/ v \in {CallVn, InvertVn} \/ op \in New
              /\ v \in {CallVn, InvertVn} => op \in New \/ (e[3] # NoVn /\ e[3] \in Reads(e[1].ins, op))
              /\ (\E x \in Op : v \in Reads(e[1].ins, x)) \/ v \in {CallVn, InvertVn}
         /\ op \notin Handover[e].live => Handover[e].ins[op] = <<>>
<1> DEFINE f == e[1]
           t == e[2]
           r == e[3]
           h == Handover[e]
<1>1. /\ f \in Loops /\ t \in {"memcpy", "strlen", "strcmp"} /\ r \in Vn \cup {NoVn}
      /\ r # NoVn => t # "memcpy" /\ r \in Candidates(f, t)
      /\ h = HandedOver(f, t, r)
  BY EditFacts
<1>2. /\ h.ins = [x \in Op |-> Redirected(f, t, r, x, Linked(f, t, x))]
      /\ h.live = f.live \cup (IF t = "strcmp" THEN New ELSE {CallOp})
  BY <1>1 DEF HandedOver
<1>3. \A x \in Op : Linked(f, t, x) \in Seq(Vn)
  BY LinkedFacts
<1>4. /\ \A v \in ToSet(Linked(f, t, op)) :
           (\E x \in Op : v \in Reads(f.ins, x)) \/ (t = "strcmp" /\ v = CallVn)
      /\ op \notin f.live \cup New => Linked(f, t, op) = <<>>
      /\ t # "strcmp" /\ op = InvertOp => Linked(f, t, op) = <<>>
  BY LinkedFacts
<1>5. /\ \A v \in Vn : IsStale(h.out, v) => IsStale(f.out, v)
      /\ t # "memcpy" => ~IsStale(h.out, CallVn)
      /\ t = "strcmp" => ~IsStale(h.out, InvertVn)
  BY WrittenFacts
<1>6. r # NoVn => r \notin {CallVn, InvertVn}
  BY <1>1, DefFacts
<1> HIDE DEF f, t, r, h
<1>7. h.ins \in InputSeqs
  <2>1. \A x \in Op : Redirected(f, t, r, x, Linked(f, t, x)) \in Seq(Vn)
    BY <1>3, RedirectedFacts
  <2> QED BY <1>2, <2>1 DEF InputSeqs
<1>8. h.ins[op] = Redirected(f, t, r, op, Linked(f, t, op))
  BY <1>2
<1> DEFINE old == Linked(f, t, op)
           new == h.ins[op]
<1>9. /\ old \in Seq(Vn) /\ new \in Seq(Vn) /\ Len(new) = Len(old) /\ DOMAIN new = DOMAIN old
      /\ \A i \in DOMAIN old :
           new[i] = IF r # NoVn /\ old[i] = r THEN AnswerFor(f, t, r, op) ELSE old[i]
  BY <1>3, <1>8, RedirectedFacts
<1>10. AnswerFor(f, t, r, op) = CallVn \/ (t = "strcmp" /\ AnswerFor(f, t, r, op) = InvertVn)
  BY DEF AnswerFor
<1>11. op \notin New => ToSet(old) = Reads(f.ins, op)
  BY <1>1, LoopFacts, ReadsOf DEF Linked, New
<1>12. \A x \in Op : \A v \in Reads(f.ins, x) :
         v \in Vn /\ ~IsStale(f.out, v) /\ v \notin {CallVn, InvertVn}
  BY <1>1, LoopFacts, ReadsOf
<1> HIDE DEF old, new
<1>13. ASSUME NEW v \in Reads(h.ins, op)
       PROVE  /\ ~IsStale(h.out, v)
              /\ r # NoVn => v # r
              /\ v \in Reads(f.ins, op) \/ v \in {CallVn, InvertVn} \/ op \in New
              /\ v \in {CallVn, InvertVn} => op \in New \/ (r # NoVn /\ r \in Reads(f.ins, op))
              /\ (\E x \in Op : v \in Reads(f.ins, x)) \/ v \in {CallVn, InvertVn}
  <2>1. v \in ToSet(new)
    BY <1>13 DEF Reads, new
  <2>2. PICK i \in 1..Len(new) : new[i] = v
    BY <1>9, <2>1, ElementsOf
  <2>3. i \in DOMAIN old /\ old[i] \in ToSet(old)
    BY <1>9, <2>2, ElementsOf
  <2>4. CASE r # NoVn /\ old[i] = r
    <3>1. t # "memcpy" /\ v = AnswerFor(f, t, r, op)
      BY <1>1, <1>9, <2>2, <2>3, <2>4
    <3>2. op \notin New => r \in Reads(f.ins, op)
      BY <1>11, <2>3, <2>4
    <3> QED BY <1>5, <1>6, <1>10, <2>4, <3>1, <3>2
  <2>5. CASE ~(r # NoVn /\ old[i] = r)
    <3>1. v = old[i] /\ v \in ToSet(old) /\ (r # NoVn => v # r)
      BY <1>9, <2>2, <2>3, <2>5
    <3>2. CASE \E x \in Op : v \in Reads(f.ins, x)
      BY <1>5, <1>11, <1>12, <3>1, <3>2
    <3>3. CASE t = "strcmp" /\ v = CallVn
      BY <1>5, <1>11, <1>12, <3>1, <3>3
    <3> QED BY <1>4, <3>1, <3>2, <3>3 DEF old
  <2> QED BY <2>4, <2>5
<1>14. op \notin h.live => new = <<>>
  <2>1. op \notin h.live => old = <<>>
    BY <1>2, <1>4 DEF New, old
  <2>2. Len(<<>>) = 0
    OBVIOUS
  <2>3. old = <<>> => Len(new) = 0
    BY <1>9, <2>2
  <2> QED BY <1>9, <2>1, <2>3
<1> QED BY <1>7, <1>8, <1>13, <1>14 DEF f, t, r, h, new

(* What is handed over is what simplifyBlocks relies on. *)
LEMMA HandedOverSound ==
  ASSUME NEW e \in Edits
  PROVE  /\ Handover[e] \in Facts!EditJobs
         /\ Sound(Handover[e])
         /\ Handover[e].live \subseteq e[1].live \cup New
         /\ e[1].live \subseteq Handover[e].live
         /\ Handover[e].del = Deleted(e[1], e[3])
<1> DEFINE f == e[1]
           t == e[2]
           r == e[3]
           h == Handover[e]
<1>1. /\ f \in Loops /\ t \in {"memcpy", "strlen", "strcmp"} /\ r \in Vn \cup {NoVn}
      /\ r = NoVn \/ r \in Candidates(f, t)
      /\ h = HandedOver(f, t, r)
  BY EditFacts
<1>2. /\ h.live = f.live \cup (IF t = "strcmp" THEN New ELSE {CallOp})
      /\ h.edges = f.edges /\ h.del = Deleted(f, r) /\ h.wrapped = f.wrapped
      /\ h.epilog = IF r = NoVn THEN <<>> ELSE <<home[Def(f, r)]>>
      /\ h.related = RemoveFirst(f.edges[LoopBlock], LoopBlock)
      /\ h = [ins |-> h.ins, out |-> h.out, live |-> h.live, edges |-> h.edges,
              del |-> h.del, epilog |-> h.epilog, related |-> h.related, wrapped |-> h.wrapped]
  BY <1>1 DEF HandedOver
<1>3. /\ f.live \subseteq Op /\ f.edges \in [Block -> Seq(Block)] /\ f.wrapped \in BOOLEAN
      /\ \A op \in Op \ f.live : f.out[op] = NoVn
  BY <1>1, LoopFacts
<1>4. /\ h.ins \in InputSeqs
      /\ \A op \in Op : op \notin h.live => h.ins[op] = <<>>
      /\ \A op \in Op : \A v \in Reads(h.ins, op) : ~IsStale(h.out, v)
  <2>1. CallOp \in Op
    BY TransformAssumption DEF New
  <2> QED BY <2>1, HandedReads
<1>5. /\ h.out \in Outputs /\ IsSSA(h.out)
      /\ \A op \in Op \ New : h.out[op] = f.out[op]
      /\ h.out[InvertOp] = IF t = "strcmp" THEN InvertVn ELSE NoVn
  BY WrittenFacts
<1>6. Deleted(f, r) \subseteq f.live
  BY <1>1, DeletedFacts
<1>7. New \subseteq Op /\ CallOp \in New /\ New = {CallOp, InvertOp} /\ LoopBlock \in Block
      /\ home \in [Op -> Block]
  BY TransformAssumption DEF New
<1>8. r # NoVn => Def(f, r) \in Op
  BY <1>1, DefFacts
<1> HIDE DEF f, t, r, h
<1>9. h.epilog \in Seq(Block)
  BY <1>2, <1>7, <1>8
<1>10. h.related \in Seq(Block)
  <2>1. f.edges[LoopBlock] \in Seq(Block)
    BY <1>3, <1>7
  <2> QED BY <1>2, <2>1, RemoveFirstFacts
<1>11. h.live \subseteq Op /\ h.live \subseteq f.live \cup New /\ f.live \subseteq h.live
  BY <1>2, <1>3, <1>7
<1>12. h \in Facts!EditJobs
  BY <1>2, <1>3, <1>4, <1>5, <1>6, <1>9, <1>10, <1>11
  DEF Facts!EditJobs, Facts!InputSeqs, Facts!Outputs, InputSeqs, Outputs
<1>13. \A op \in Op \ h.live : h.out[op] = NoVn
  BY <1>2, <1>3, <1>5, <1>7
<1>14. Sound(h)
  BY <1>2, <1>4, <1>5, <1>6, <1>11, <1>13 DEF Sound
<1> QED BY <1>2, <1>11, <1>12, <1>14 DEF f, t, r, h

(* The assumption of FunctionEditor *)
LEMMA EditorAssumed == Facts!EditorAssumption
<1>1. EditorCode \in [Op -> Facts!OpCodes]
  BY DEF EditorCode, Facts!OpCodes
<1>2. Handover \in [Edits -> Facts!EditJobs]
  <2>1. Handover = [e \in Edits |-> Handover[e]]
    BY DEF Handover
  <2> QED BY <2>1, HandedOverSound
<1>3. \A e \in Edits : Facts!WellFormed(Handover[e])
  BY HandedOverSound, SameSoundness
<1> QED BY <1>1, <1>2, <1>3, TransformAssumption DEF Facts!EditorAssumption

LEMMA EditorInv ==
  /\ Facts!Init => Facts!IInv /\ Facts!RestInv
  /\ Facts!IInv /\ Facts!RestInv /\ [Facts!Next]_Facts!vars => Facts!IInv' /\ Facts!RestInv'
<1>1. /\ Facts!Init => Facts!IInv
      /\ Facts!Init => Facts!RestInv
  BY VnAssumption, EditorAssumed, Facts!InitInv, Facts!InitRest
<1>2. /\ Facts!IInv /\ [Facts!Next]_Facts!vars => Facts!IInv'
      /\ Facts!IInv /\ Facts!RestInv /\ [Facts!Next]_Facts!vars => Facts!RestInv'
  BY VnAssumption, EditorAssumed, Facts!NextInv, Facts!NextRest
<1> QED BY <1>1, <1>2

-----------------------------------------------------------------------------
(* The inductive invariant.  Up to Commit the transform has only chosen;   *)
(* from there on, the editor's own invariants hold of what it was handed.  *)

Transforms == {"memcpy", "strlen", "strcmp"}
Choosing == {"match", "result", "check"}
GivenUp == {"unmatched", "rolled_back", "null_operand"}

Typed ==
  /\ job \in Loops \X ({"none"} \cup Transforms) \X (Vn \cup {NoVn})
  /\ count \in 0..Limit
  /\ pc \in Choosing \cup GivenUp \cup Editor!PCs

Chosen ==
  /\ pc = "match" => transform = "none"
  /\ pc \in {"match", "result"} => result = NoVn
  /\ pc = "result" => transform \in Transforms \ {"memcpy"}
  /\ pc = "check" =>
       /\ transform \in Transforms
       /\ result \in IF transform = "memcpy" THEN {NoVn} ELSE Candidates(g, transform)
  /\ pc \in {"result", "check"} => LoadsWrite(g) /\ transform = Match(g)

Unedited ==
  pc \in Choosing \cup GivenUp =>
    /\ ins = g.ins /\ out = g.out /\ live = g.live /\ edges = g.edges
    /\ review = {} /\ fixed = {} /\ todo = {} /\ blocks = <<>>
    /\ cur = NoOp /\ slot = 1

Edited == pc \in Editor!PCs => job \in Edits /\ Facts!IInv /\ Facts!RestInv

TransformInv == Typed /\ Chosen /\ Unedited /\ Edited

LEMMA InitTransform == Init => TransformInv
<1> SUFFICES ASSUME Init PROVE TransformInv
  OBVIOUS
<1>1. PICK f \in Loops : job = <<f, "none", NoVn>>
  BY DEF Init
<1>2. pc = "match" /\ pc \notin Editor!PCs
  BY DEF Init, Editor!PCs
<1>3. g = f /\ transform = "none" /\ result = NoVn
  BY <1>1 DEF g, transform, result
<1>4. Typed
  BY <1>1, <1>2 DEF Init, Typed, Choosing
<1>5. Chosen
  BY <1>2, <1>3 DEF Chosen
<1>6. Unedited
  BY <1>3 DEF Init, Unedited
<1>7. Edited
  BY <1>2 DEF Edited
<1> QED BY <1>4, <1>5, <1>6, <1>7 DEF TransformInv

(* Steps on the way to Commit, or away from it *)
LEMMA ChoosingStep ==
  ASSUME TransformInv, pc \in Choosing, pc' \in Choosing \cup GivenUp, UNCHANGED <<graph, editing>>,
         g' = g, Typed', Chosen'
  PROVE  TransformInv'
<1>1. pc' \notin Editor!PCs
  BY DEF Choosing, GivenUp, Editor!PCs
<1>2. UNCHANGED <<ins, out, live, edges, review, fixed, todo, blocks, cur, slot>>
  BY DEF graph, editing
<1>3. Unedited'
  <2>1. /\ ins = g.ins /\ out = g.out /\ live = g.live /\ edges = g.edges
        /\ review = {} /\ fixed = {} /\ todo = {} /\ blocks = <<>> /\ cur = NoOp /\ slot = 1
    BY DEF TransformInv, Unedited
  <2> QED BY <1>2, <2>1 DEF Unedited
<1>4. Edited'
  BY <1>1 DEF Edited
<1> QED BY <1>3, <1>4 DEF TransformInv

LEMMA GiveUpStep ==
  ASSUME TransformInv, NullLoad \/ NoMatch \/ LimitReached \/ NoResult \/ RollBack \/ NullOperand
  PROVE  TransformInv'
<1>1. /\ pc \in Choosing /\ pc' \in GivenUp /\ UNCHANGED <<job, count, graph, editing>>
  BY DEF NullLoad, NoMatch, LimitReached, NoResult, RollBack, NullOperand, Choosing, GivenUp
<1>2. g' = g
  BY <1>1 DEF g
<1>3. Typed'
  BY <1>1 DEF TransformInv, Typed
<1>4. Chosen'
  BY <1>1 DEF Chosen, GivenUp
<1> QED BY <1>1, <1>2, <1>3, <1>4, ChoosingStep

LEMMA StartStep ==
  ASSUME TransformInv, Start PROVE TransformInv'
<1>1. /\ pc = "match" /\ UNCHANGED <<graph, editing>> /\ count' = count + 1 /\ count < Limit
      /\ LoadsWrite(g) /\ Match(g) # "none" /\ job' = <<job[1], Match(g), NoVn>>
      /\ pc' = IF Match(g) = "memcpy" THEN "check" ELSE "result"
  BY DEF Start
<1>2. Match(g) \in Transforms
  BY <1>1 DEF Match, Transforms
<1>3. g' = g /\ transform' = Match(g) /\ result' = NoVn
  BY <1>1 DEF g, transform, result
<1>4. Typed'
  BY <1>1, <1>2, TransformAssumption DEF TransformInv, Typed, Choosing
<1>5. Chosen'
  BY <1>1, <1>2, <1>3 DEF Chosen, Transforms
<1> QED BY <1>1, <1>3, <1>4, <1>5, ChoosingStep DEF Choosing

LEMMA ChooseResultStep ==
  ASSUME TransformInv, ChooseResult PROVE TransformInv'
<1>1. /\ pc = "result" /\ pc' = "check" /\ UNCHANGED <<count, graph, editing>>
  BY DEF ChooseResult
<1>2. PICK r \in Candidates(g, transform) : job' = <<job[1], transform, r>>
  BY DEF ChooseResult
<1>3. g' = g /\ transform' = transform /\ result' = r
  BY <1>2 DEF g, transform, result
<1>4. transform \in Transforms \ {"memcpy"} /\ transform = Match(g) /\ LoadsWrite(g) /\ r \in Vn
  BY <1>1, <1>2 DEF TransformInv, Chosen, Candidates
<1>5. Typed'
  BY <1>1, <1>2, <1>4 DEF TransformInv, Typed, Choosing
<1>6. Chosen'
  BY <1>1, <1>3, <1>4 DEF Chosen
<1> QED BY <1>1, <1>3, <1>5, <1>6, ChoosingStep DEF Choosing

(* The editor begins with what Commit hands it. *)
LEMMA CommitStarts ==
  ASSUME TransformInv, Commit
  PROVE  /\ job \in Edits /\ job' = job
         /\ Handover[job] = HandedOver(g, transform, result)
         /\ Facts!Init'
<1>1. /\ pc = "check" /\ pc' = "delete" /\ UNCHANGED <<job, count, review, fixed, cur, slot>>
      /\ ~Vetoed(g, transform, result) /\ NoVn \notin ToSet(Operands(g, transform))
  BY DEF Commit
<1> DEFINE f == HandedOver(g, transform, result)
<1>2. /\ ins' = f.ins /\ out' = f.out /\ live' = f.live /\ edges' = f.edges /\ todo' = f.del
      /\ blocks' = f.epilog \o <<LoopBlock>> \o f.related
  BY DEF Commit
<1>3. /\ transform \in Transforms /\ transform = Match(g) /\ LoadsWrite(g)
      /\ result \in IF transform = "memcpy" THEN {NoVn} ELSE Candidates(g, transform)
  BY <1>1 DEF TransformInv, Chosen
<1>4. job \in Loops \X Transforms \X (Vn \cup {NoVn})
  BY <1>3 DEF TransformInv, Typed, transform
<1>5. job \in Edits
  BY <1>1, <1>3, <1>4 DEF Edits, g, transform, result, Transforms
<1>6. Handover[job] = f
  BY <1>5 DEF Handover, g, transform, result
<1> HIDE DEF f
<1>7. review = {} /\ fixed = {} /\ cur = NoOp /\ slot = 1
  BY <1>1 DEF TransformInv, Unedited, Choosing
<1>8. Facts!Init'
  BY <1>1, <1>2, <1>5, <1>6, <1>7 DEF Facts!Init, Facts!fn
<1> QED BY <1>1, <1>5, <1>6, <1>8 DEF f

(* The editor's invariants hold when its initial state is reached. *)
LEMMA StartedInv == Facts!Init' => Facts!IInv' /\ Facts!RestInv'
<1>1. Facts!Init => Facts!IInv /\ Facts!RestInv
  BY EditorInv
<1> QED BY <1>1, PTL

LEMMA CommitStep ==
  ASSUME TransformInv, Commit PROVE TransformInv'
<1>1. job \in Edits /\ job' = job /\ Facts!IInv' /\ Facts!RestInv'
  BY CommitStarts, StartedInv
<1>2. pc = "check" /\ pc' = "delete" /\ count' = count
  BY DEF Commit
<1>3. Typed'
  BY <1>1, <1>2 DEF TransformInv, Typed, Editor!PCs
<1>4. Chosen' /\ Unedited'
  BY <1>2 DEF Chosen, Unedited, Choosing, GivenUp
<1>5. Edited'
  BY <1>1 DEF Edited
<1> QED BY <1>3, <1>4, <1>5 DEF TransformInv

(* simplifyBlocks goes on with the same call, and ends in a phase it knows. *)
LEMMA EditorPhase ==
  ASSUME Editor!Next PROVE pc \in Editor!PCs \ {"done", "aborted"} /\ job' = job
<1> USE DEF Facts!AtSlot
<1>1. Facts!Next
  BY SameSteps
<1>2. pc \in {"delete", "trim", "purge", "review", "audit"} /\ job' = job
  BY <1>1
  DEF Facts!Next, Facts!DeleteListed, Facts!RemoveLoopEdge, Facts!TrimPhi, Facts!TrimDone,
      Facts!ScanBlock, Facts!DeleteUnread, Facts!StartReview, Facts!ReviewOp,
      Facts!KeepPhiSlot, Facts!DuplicatePhiSlot, Facts!AbortOnSlot, Facts!RemovePhiSlot,
      Facts!KeepCallSlot, Facts!RemoveCallSlot, Facts!FinishReview, Facts!AuditOp,
      Facts!AuditSlot, Facts!LeaveOp, Facts!FinishAudit
<1> QED BY <1>2 DEF Editor!PCs

LEMMA SimplifyStep ==
  ASSUME TransformInv, Simplify
  PROVE  TransformInv' /\ Facts!IInv' /\ Facts!RestInv' /\ job \in Edits /\ pc' \in Editor!PCs
<1>1. Facts!Next /\ pc \in Editor!PCs /\ job' = job /\ count' = count
  BY SameSteps, EditorPhase DEF Simplify
<1>2. job \in Edits /\ Facts!IInv /\ Facts!RestInv
  BY <1>1 DEF TransformInv, Edited
<1>3. Facts!IInv' /\ Facts!RestInv'
  BY <1>1, <1>2, EditorInv
<1>4. pc' \in Editor!PCs
  BY <1>3 DEF Facts!IInv, Facts!TypeOK, Facts!PCs, Editor!PCs
<1>5. Typed'
  BY <1>1, <1>4 DEF TransformInv, Typed
<1>6. Chosen' /\ Unedited'
  BY <1>4 DEF Chosen, Unedited, Choosing, GivenUp, Editor!PCs
<1>7. Edited'
  BY <1>1, <1>2, <1>3 DEF Edited
<1> QED BY <1>2, <1>3, <1>4, <1>5, <1>6, <1>7 DEF TransformInv

LEMMA StutterStep ==
  ASSUME TransformInv, UNCHANGED vars PROVE TransformInv'
<1>1. UNCHANGED <<job, count, ins, out, live, edges, review, fixed, todo, blocks, cur, slot, pc>>
  BY DEF vars
<1>2. g' = g /\ transform' = transform /\ result' = result
  BY <1>1 DEF g, transform, result
<1>3. Typed' /\ Unedited' /\ Chosen'
  BY <1>1, <1>2 DEF TransformInv, Typed, Unedited, Chosen
<1>4. Edited'
  <2> SUFFICES ASSUME pc \in Editor!PCs, job \in Edits, Facts!IInv, Facts!RestInv
               PROVE  Facts!IInv' /\ Facts!RestInv'
    BY <1>1 DEF TransformInv, Edited
  <2> QED BY <1>1, EditorInv DEF Facts!vars
<1> QED BY <1>3, <1>4 DEF TransformInv

LEMMA NextTransform == TransformInv /\ [Next]_vars => TransformInv'
BY GiveUpStep, StartStep, ChooseResultStep, CommitStep, SimplifyStep, StutterStep DEF Next

(* From applyOp to the end, for every loop. *)
THEOREM Invariance == Spec => []TransformInv
BY InitTransform, NextTransform, PTL DEF Spec

THEOREM Typing == Spec => []TypeOK
<1>1. TransformInv => TypeOK
  <2> SUFFICES ASSUME TransformInv PROVE TypeOK
    OBVIOUS
  <2>1. /\ g \in Loops /\ transform \in {"none"} \cup Transforms /\ result \in Vn \cup {NoVn}
        /\ count \in 0..Limit /\ pc \in Choosing \cup GivenUp \cup Editor!PCs
    BY DEF TransformInv, Typed, g, transform, result
  <2>2. CASE pc \in Choosing \cup GivenUp
    <3>1. /\ ins = g.ins /\ out = g.out /\ live = g.live /\ edges = g.edges
          /\ review = {} /\ fixed = {} /\ todo = {} /\ blocks = <<>> /\ cur = NoOp /\ slot = 1
      BY <2>2 DEF TransformInv, Unedited
    <3>2. /\ g.ins \in InputSeqs /\ g.out \in Outputs /\ g.live \subseteq Op
          /\ g.edges \in [Block -> Seq(Block)]
      BY <2>1, LoopFacts
    <3> QED BY <2>1, <3>1, <3>2 DEF TypeOK, Transforms, Choosing, GivenUp, Ends
  <2>3. CASE pc \in Editor!PCs
    <3>1. Facts!TypeOK
      BY <2>3 DEF TransformInv, Edited, Facts!IInv
    <3>2. /\ ins \in InputSeqs /\ out \in Outputs /\ live \subseteq Op
          /\ review \subseteq Op /\ fixed \subseteq Op /\ todo \subseteq Op
          /\ edges \in [Block -> Seq(Block)] /\ blocks \in Seq(Block)
          /\ cur \in Op \cup {NoOp} /\ slot \in Nat \ {0}
      BY <3>1
      DEF Facts!TypeOK, Facts!InputSeqs, Facts!Outputs, InputSeqs, Outputs
    <3> QED BY <2>1, <2>3, <3>2 DEF TypeOK, Transforms
  <2> QED BY <2>1, <2>2, <2>3
<1> QED BY Invariance, <1>1, PTL

(* What simplifyBlocks gets is what its own theorems assume. *)
THEOREM HandoverIsValid == Spec => []HandoverValid
<1>1. TransformInv => HandoverValid
  <2> SUFFICES ASSUME TransformInv, pc = "delete", todo = Deleted(g, result)
               PROVE  Editor!WellFormed([ins |-> ins, out |-> out, live |-> live, del |-> todo])
    BY DEF HandoverValid
  <2>1. job \in Edits /\ Facts!RestInv
    BY DEF TransformInv, Edited, Editor!PCs
  <2>2. Sound(Handover[job]) /\ Handover[job].del = Deleted(g, result)
    BY <2>1, HandedOverSound DEF g, result
  <2>3. ins = Handover[job].ins /\ out = Handover[job].out /\ live = Handover[job].live
    BY <2>1, <2>2 DEF Facts!RestInv, Facts!Queued, Facts!fn
  <2>4. Sound([ins |-> ins, out |-> out, live |-> live, del |-> todo])
    BY <2>2, <2>3 DEF Sound
  <2> QED BY <2>4, SameSoundness
<1> QED BY Invariance, <1>1, PTL

-----------------------------------------------------------------------------
(* What is left when simplifyBlocks returns. *)

LEMMA EndFacts ==
  ASSUME TransformInv, pc = "done"
  PROVE  /\ job \in Edits /\ g \in Loops
         /\ live \subseteq Handover[job].live \ Handover[job].del
         /\ \A op \in Handover[job].live \ (Handover[job].del \cup live) :
              Handover[job].out[op] # NoVn
         /\ \A op \in live :
              /\ out[op] = Handover[job].out[op]
              /\ Reads(ins, op) \subseteq Reads(Handover[job].ins, op)
              /\ \A v \in Reads(ins, op) : IsStale(out, v) =>
                   \E x \in Handover[job].del : v = Handover[job].out[x]
              /\ \/ ins[op] = Handover[job].ins[op]
                 \/ kind[op] = "phi"
                 \/ /\ kind[op] = "call"
                    /\ \E x \in Handover[job].del :
                         Handover[job].out[x] \in Reads(Handover[job].ins, op)
<1>1. job \in Edits /\ Facts!RestInv /\ g \in Loops
  BY EditFacts DEF TransformInv, Edited, Editor!PCs, g
<1> DEFINE h == Handover[job]
<1>2. Facts!fn = h
  BY DEF Facts!fn
<1> HIDE DEF h
<1>3. live \subseteq h.live \ h.del
  BY <1>1, <1>2 DEF Facts!RestInv, Facts!Rest, Facts!Queued
<1>4. \A op \in h.live \ (h.del \cup live) : h.out[op] # NoVn
  BY <1>1, <1>2 DEF Facts!RestInv, Facts!Rest
<1>5. live \subseteq Op
  BY <1>1, <1>3, HandedOverSound, LoopFacts, EditFacts, TransformAssumption DEF h, g
<1>6. ASSUME NEW op \in live
      PROVE  /\ out[op] = h.out[op]
             /\ Reads(ins, op) \subseteq Reads(h.ins, op)
             /\ \A v \in Reads(ins, op) : IsStale(out, v) => \E x \in h.del : v = h.out[x]
             /\ \/ ins[op] = h.ins[op]
                \/ kind[op] = "phi"
                \/ kind[op] = "call" /\ \E x \in h.del : h.out[x] \in Reads(h.ins, op)
  <2>1. Facts!Untouched(op)
    BY <1>1 DEF Facts!RestInv, Facts!Rest
  <2>2. /\ EditorCode[op] = "MULTIEQUAL" => kind[op] = "phi"
        /\ EditorCode[op] = "CALL" => kind[op] = "call"
    BY <1>5 DEF EditorCode
  <2>3. /\ out[op] = h.out[op]
        /\ Facts!Reads(ins, op) \subseteq Facts!Reads(h.ins, op)
        /\ \A v \in Facts!Reads(ins, op) : Facts!IsStale(out, v) => v \in Facts!Undone
        /\ \/ ins[op] = h.ins[op]
           \/ EditorCode[op] = "MULTIEQUAL"
           \/ EditorCode[op] = "CALL" /\ Facts!Reads(h.ins, op) \cap Facts!Undone # {}
    BY <1>2, <2>1 DEF Facts!Untouched
  <2>4. Facts!Undone = {h.out[x] : x \in h.del}
    BY <1>2 DEF Facts!Undone
  <2>5. Facts!Reads(ins, op) = Reads(ins, op) /\ Facts!Reads(h.ins, op) = Reads(h.ins, op)
    BY SameTerms
  <2>6. \A v : Facts!IsStale(out, v) <=> IsStale(out, v)
    BY SameTerms
  <2> HIDE DEF Facts!Undone
  <2> QED BY <2>2, <2>3, <2>4, <2>5, <2>6
<1> QED BY <1>1, <1>3, <1>4, <1>6 DEF h

(* What is read of what the deleted ops wrote is the loop's: nobody reads  *)
(* the result any more.                                                    *)
LEMMA UndoneFacts ==
  ASSUME NEW e \in Edits, NEW op \in Op, NEW x \in Handover[e].del,
         Handover[e].out[x] \in Reads(Handover[e].ins, op)
  PROVE  /\ Handover[e].out[x] \in Replacement!LoopVns(AsGiven(e[1]))
         /\ Handover[e].out[x] \notin {CallVn, InvertVn}
<1> DEFINE f == e[1]
           r == e[3]
           h == Handover[e]
<1>1. f \in Loops /\ (r = NoVn \/ r \in Candidates(f, e[2]))
  BY EditFacts
<1>2. x \in Deleted(f, r) /\ x \in f.live /\ (x \in ToSet(LoopOrder) \/ (r # NoVn /\ f.out[x] = r))
  BY <1>1, HandedOverSound, DeletedFacts
<1>3. x \in Op /\ x \notin New
  BY <1>1, <1>2, LoopFacts
<1>4. h.out[x] = f.out[x] /\ f.out[x] \notin {CallVn, InvertVn}
  BY <1>1, <1>3, WrittenFacts, LoopFacts
<1>5. r # NoVn => h.out[x] # r
  BY HandedReads
<1>6. x \in ToSet(LoopOrder)
  BY <1>2, <1>4, <1>5
<1>7. Replacement!LoopVns(AsGiven(f)) = {f.out[o] : o \in ToSet(LoopOrder)}
  BY DEF Replacement!LoopVns, AsGiven
<1> QED BY <1>4, <1>6, <1>7
(* A branch on the result of a strcmp loop tests the inverted answer or    *)
(* the plain one, as the comparison it tested before demands.              *)
THEOREM BranchesKeepTheirWay == Spec => []BranchesGoTheSameWay
<1>1. TransformInv => BranchesGoTheSameWay
  <2> SUFFICES ASSUME TransformInv, pc = "done", transform = "strcmp",
                      NEW op \in live \ New, kind[op] = "cbranch",
                      NEW i \in DOMAIN g.ins[op], g.ins[op][i] = result
               PROVE  StandInSays(ins[op][i]) = Says(result)
    BY DEF BranchesGoTheSameWay, ReadsTheSame
  <2>1. /\ job \in Edits /\ g \in Loops
        /\ op \in Handover[job].live
        /\ ins[op] = Handover[job].ins[op]
    BY EndFacts
  <2>2. /\ result \in Candidates(g, transform) /\ result # NoVn
        /\ ~Vetoed(g, transform, result)
    BY <2>1, EditFacts DEF g, transform, result
  <2>3. op \in g.live /\ op \in Op
    BY <2>1, HandedOverSound, LoopFacts DEF g
  <2> DEFINE def == Def(g, result)
  <2>4. def \in g.live /\ g.out[def] = result
    BY <2>1, <2>2, DefFacts
  <2>5. kind[def] \in ComparisonKinds
    BY <2>2 DEF Vetoed
  <2>6. g.ins[op] \in Seq(Vn) /\ g.ins[op][i] \in Reads(g.ins, op)
    BY <2>1, <2>3, LoopFacts, ReadsOf
  <2>7. kind[def] # "sub"
    BY <2>1, <2>3, <2>4, <2>6, PcodeAssumption DEF ArithmeticKinds
  <2>8. ins[op][i] = AnswerFor(g, transform, result, op)
    <3>1. ins[op] = Redirected(g, transform, result, op, g.ins[op])
      BY <2>1, <2>3, HandedReads DEF Linked, New, g, transform, result
    <3> QED BY <2>2, <2>6, <3>1, RedirectedFacts
  <2> QED
    BY <2>5, <2>7, <2>8, TransformAssumption DEF AnswerFor, StandInSays, Says, ComparisonKinds
<1> QED BY Invariance, <1>1, PTL

-----------------------------------------------------------------------------
(* The refinement. *)

LEMMA SameSpecTerms ==
  ASSUME NEW i, NEW o, NEW op, NEW v
  PROVE  /\ Replacement!Reads(i, op) = Reads(i, op)
         /\ Replacement!IsStale(o, v) <=> IsStale(o, v)
<1>1. Replacement!Reads(i, op) = Reads(i, op)
  BY DEF Reads, Replacement!Reads, ToSet, Replacement!ToSet
<1>2. Replacement!IsStale(o, v) <=> IsStale(o, v)
  BY DEF IsStale, Replacement!IsStale, IsFree, Replacement!IsFree, Written, Replacement!Written
<1> QED BY <1>1, <1>2

(* An op that is left reads what it read, or the stand-in for the result.  *)
LEMMA KeptReads ==
  ASSUME TransformInv, pc = "done", NEW op \in live \ New
  PROVE  Replacement!SameReads(AsGiven(g), AsGiven([ins |-> ins, out |-> out, live |-> live]),
                               result, op)
<1> DEFINE f == g
           t == transform
           r == result
           h == Handover[job]
           old == AsGiven(f)
           stands == Replacement!LoopVns(old)
<1>1. /\ job \in Edits /\ f \in Loops
      /\ op \in h.live
      /\ Reads(ins, op) \subseteq Reads(h.ins, op)
      /\ \/ ins[op] = h.ins[op]
         \/ kind[op] = "phi"
         \/ kind[op] = "call" /\ \E x \in h.del : h.out[x] \in Reads(h.ins, op)
  BY EndFacts
<1>2. op \in f.live /\ op \in Op
  BY <1>1, HandedOverSound, LoopFacts DEF g
<1>3. /\ h.ins[op] = Redirected(f, t, r, op, f.ins[op])
      /\ \A v \in Reads(h.ins, op) :
           /\ r # NoVn => v # r
           /\ v \in Reads(f.ins, op) \/ v \in {CallVn, InvertVn}
           /\ v \in {CallVn, InvertVn} => r \in Reads(f.ins, op)
  BY <1>1, <1>2, HandedReads DEF Linked, New, g, transform, result
<1>4. f.ins[op] \in Seq(Vn)
  BY <1>1, <1>2, LoopFacts, ReadsOf
<1>5. \A v : Replacement!Answers(r, v) = IF v = r THEN {CallVn, InvertVn} ELSE {v}
  BY DEF Replacement!Answers
<1>6. /\ old.ins = f.ins
      /\ Replacement!Reads(old.ins, op) = Reads(f.ins, op)
      /\ Replacement!Reads(ins, op) = Reads(ins, op)
  BY SameSpecTerms DEF AsGiven
<1>7. NoVn \notin Vn /\ Reads(f.ins, op) \subseteq Vn
  BY <1>1, <1>2, LoopFacts, ReadsOf, VnAssumption
<1>8. (\E x \in h.del : h.out[x] \in Reads(h.ins, op)) => Reads(f.ins, op) \cap stands # {}
  <2> SUFFICES ASSUME NEW x \in h.del, h.out[x] \in Reads(h.ins, op)
               PROVE  Reads(f.ins, op) \cap stands # {}
    OBVIOUS
  <2>1. h.out[x] \in stands /\ h.out[x] \notin {CallVn, InvertVn}
    BY <1>1, <1>2, UndoneFacts DEF g
  <2> QED BY <1>3, <2>1
<1> HIDE DEF f, t, r, h, stands
<1>9. CASE op \in {o \in Op : kind[o] = "phi"}
           \/ (op \in {o \in Op : kind[o] = "call"} /\ Reads(f.ins, op) \cap stands # {})
  <2>1. ASSUME NEW v \in Reads(ins, op)
        PROVE  v \in UNION {Replacement!Answers(r, w) : w \in Reads(f.ins, op)}
    <3>1. v \in Reads(h.ins, op)
      BY <1>1, <2>1
    <3>2. CASE v \in {CallVn, InvertVn}
      <4>1. r \in Reads(f.ins, op) /\ v \in Replacement!Answers(r, r)
        BY <1>3, <1>5, <3>1, <3>2
      <4> QED BY <4>1
    <3>3. CASE v \notin {CallVn, InvertVn}
      <4>1. v \in Reads(f.ins, op) /\ v # r
        BY <1>3, <1>7, <3>1, <3>3
      <4>2. v \in Replacement!Answers(r, v)
        BY <1>5, <4>1
      <4> QED BY <4>1, <4>2
    <3> QED BY <3>2, <3>3
  <2> QED BY <1>6, <1>9, <2>1 DEF Replacement!SameReads, AsGiven, f, r, stands
<1>10. CASE ~(op \in {o \in Op : kind[o] = "phi"}
              \/ (op \in {o \in Op : kind[o] = "call"} /\ Reads(f.ins, op) \cap stands # {}))
  <2>1. ins[op] = Redirected(f, t, r, op, f.ins[op])
    BY <1>1, <1>2, <1>3, <1>8, <1>10
  <2>2. /\ Len(ins[op]) = Len(f.ins[op]) /\ DOMAIN ins[op] = DOMAIN f.ins[op]
        /\ \A i \in DOMAIN f.ins[op] :
             ins[op][i] = IF r # NoVn /\ f.ins[op][i] = r THEN AnswerFor(f, t, r, op)
                          ELSE f.ins[op][i]
    BY <1>4, <2>1, RedirectedFacts
  <2>3. \A i \in DOMAIN f.ins[op] : f.ins[op][i] \in Vn
    BY <1>4, ElementsOf
  <2>4. \A i \in DOMAIN ins[op] : ins[op][i] \in Replacement!Answers(r, f.ins[op][i])
    BY <1>5, <1>7, <2>2, <2>3 DEF AnswerFor
  <2> QED BY <1>6, <1>10, <2>2, <2>4 DEF Replacement!SameReads, AsGiven, f, r, stands
<1> QED BY <1>9, <1>10
(* What simplifyBlocks leaves is a replacement of what applyOp found. *)
Replaced == pc = "done" => Replacement!Replaces(AsGiven(g), Shown, result)

LEMMA Outcome == TransformInv => Replaced
<1> SUFFICES ASSUME TransformInv, pc = "done"
             PROVE  Replacement!Replaces(AsGiven(g), Shown, result)
  BY DEF Replaced
<1> DEFINE f == g
           h == Handover[job]
           new == [ins |-> ins, out |-> out, live |-> live]
<1>1. Shown = AsGiven(new)
  BY DEF Shown
<1>2. /\ job \in Edits /\ f \in Loops
      /\ live \subseteq h.live \ h.del
      /\ \A op \in h.live \ (h.del \cup live) : h.out[op] # NoVn
      /\ \A op \in live :
           /\ out[op] = h.out[op]
           /\ Reads(ins, op) \subseteq Reads(h.ins, op)
           /\ \A v \in Reads(ins, op) : IsStale(out, v) => \E x \in h.del : v = h.out[x]
  BY EndFacts
<1>3. /\ h.live \subseteq f.live \cup New /\ f.live \subseteq h.live
      /\ h.del = Deleted(f, result)
      /\ f.live \subseteq Op /\ New \cap f.live = {} /\ New \subseteq Op
      /\ New \cap ToSet(LoopOrder) = {}
      /\ \A op \in Op \ New : h.out[op] = f.out[op]
  BY <1>2, HandedOverSound, LoopFacts, WrittenFacts, TransformAssumption DEF g, result
<1>4. result = NoVn \/ result \in Candidates(f, transform)
  BY <1>2, EditFacts DEF g, transform, result
<1> DEFINE loop == {op \in ToSet(LoopOrder) : kind[op] # "phi"}
<1>5. LoopOps(f) \subseteq h.del /\ LoopOps(f) = loop \cap f.live
  BY <1>3 DEF Deleted, LoopOps
<1>6. \A op \in live : \A v \in Reads(ins, op) :
        IsStale(out, v) => v \in Replacement!LoopVns(AsGiven(f))
  BY <1>2, <1>3, UndoneFacts DEF g
<1>7. \A op \in h.del \ LoopOps(f) : f.out[op] # NoVn
  BY <1>2, <1>3, <1>4, DeletedFacts
<1>8. \A op \in live \ New : Replacement!SameReads(AsGiven(f), AsGiven(new), result, op)
  BY KeptReads
<1>9. /\ AsGiven(new).live = live /\ AsGiven(new).out = out /\ AsGiven(new).ins = ins
      /\ AsGiven(f).live = f.live /\ AsGiven(f).out = f.out
  BY DEF AsGiven
<1>10. \A op, v : /\ Replacement!Reads(ins, op) = Reads(ins, op)
                  /\ Replacement!IsStale(out, v) <=> IsStale(out, v)
  BY SameSpecTerms
<1> HIDE DEF f, h, new, loop
<1>11. live \cap loop = {}
  BY <1>2, <1>3, <1>5 DEF loop
<1>12. live \subseteq f.live \cup New
  BY <1>2, <1>3
<1>13. \A op \in live \ New : out[op] = f.out[op]
  BY <1>2, <1>3
<1>14. \A op \in f.live \ (loop \cup live) : f.out[op] # NoVn
  BY <1>2, <1>3, <1>5, <1>7
<1> QED
  BY <1>1, <1>6, <1>8, <1>9, <1>10, <1>11, <1>12, <1>13, <1>14
  DEF Replacement!Replaces, loop, f, new

(* ... in the state in which it returns, too. *)
LEMMA OutcomeNext == TransformInv' => Replaced'
BY Outcome, PTL

LEMMA InitReplacement == TransformInv /\ Init => Replacement!Init
<1> SUFFICES ASSUME TransformInv, Init PROVE Replacement!Init
  OBVIOUS
<1>1. g \in Loops /\ pc = "match"
  BY DEF TransformInv, Typed, Init, g
<1> QED BY <1>1 DEF Replacement!Init, Shown, Status

(* Until simplifyBlocks is done, the function is shown as it was found. *)
LEMMA StillShown ==
  ASSUME pc # "done", pc' # "done", g' = g
  PROVE  /\ Shown' = Shown
         /\ (IF pc = "done" THEN result ELSE NoVn)' = (IF pc = "done" THEN result ELSE NoVn)
BY DEF Shown, AsGiven

LEMMA GiveUpReplaces ==
  ASSUME TransformInv, NullLoad \/ NoMatch \/ LimitReached \/ NoResult \/ RollBack \/ NullOperand
  PROVE  [Replacement!Next]_Replacement!vars
<1>1. /\ pc \in Choosing /\ pc' \in GivenUp /\ job' = job
  BY DEF NullLoad, NoMatch, LimitReached, NoResult, RollBack, NullOperand, Choosing, GivenUp
<1>2. g' = g /\ pc # "done" /\ pc' # "done"
  BY <1>1 DEF g, Choosing, GivenUp
<1>3. Status = "open" /\ Status' \in {"kept", "stopped"}
  BY <1>1 DEF Status, Choosing, GivenUp
<1> QED
  BY <1>2, <1>3, StillShown DEF Replacement!Next, Replacement!Keep, Replacement!Stop

(* Steps that are not seen: the transform chooses, simplifyBlocks edits. *)
LEMMA UnseenStep ==
  ASSUME g' = g,
         pc \notin Ends, pc' \notin Ends
  PROVE  UNCHANGED Replacement!vars
<1>1. pc # "done" /\ pc' # "done" /\ Status = "open" /\ Status' = "open"
  BY DEF Ends, Status
<1> QED BY <1>1, StillShown DEF Replacement!vars

LEMMA SimplifyReplaces ==
  ASSUME TransformInv, Simplify
  PROVE  [Replacement!Next]_Replacement!vars
<1>1. /\ TransformInv' /\ pc' \in Editor!PCs
      /\ pc \in Editor!PCs \ {"done", "aborted"} /\ job' = job
  BY SimplifyStep, EditorPhase DEF Simplify
<1>2. g' = g /\ result' = result /\ pc \notin Ends /\ pc # "done" /\ Status = "open"
  BY <1>1 DEF g, result, Editor!PCs, Ends, Status
<1>3. CASE pc' = "done"
  <2>1. Replacement!Replaces(AsGiven(g)', Shown', result')
    BY <1>1, <1>3, OutcomeNext DEF Replaced
  <2>2. Shown = AsGiven(g) /\ AsGiven(g)' = AsGiven(g) /\ Status' = "replaced"
    BY <1>2, <1>3 DEF Shown, AsGiven, Status
  <2>3. Replacement!Replace
    BY <1>2, <1>3, <2>1, <2>2 DEF Replacement!Replace
  <2> QED BY <2>3 DEF Replacement!Next
<1>4. CASE pc' = "aborted"
  <2>1. Status' = "stopped" /\ pc' # "done"
    BY <1>4 DEF Status
  <2> QED BY <1>2, <2>1, StillShown DEF Replacement!Next, Replacement!Stop
<1>5. CASE pc' \notin {"done", "aborted"}
  BY <1>1, <1>2, <1>5, UnseenStep DEF Editor!PCs, Ends
<1> QED BY <1>3, <1>4, <1>5

LEMMA NextReplaces ==
  TransformInv /\ [Next]_vars => [Replacement!Next]_Replacement!vars
<1> SUFFICES ASSUME TransformInv, [Next]_vars PROVE [Replacement!Next]_Replacement!vars
  OBVIOUS
<1>1. CASE Start \/ ChooseResult \/ Commit
  <2>1. pc \in Choosing /\ pc' \in Choosing \cup {"delete"} /\ job'[1] = job[1]
    <3>1. CASE Start
      BY <3>1 DEF Start, Choosing
    <3>2. CASE ChooseResult
      BY <3>2 DEF ChooseResult, Choosing
    <3>3. CASE Commit
      BY <3>3 DEF Commit, Choosing
    <3> QED BY <1>1, <3>1, <3>2, <3>3
  <2>2. g' = g /\ pc \notin Ends /\ pc' \notin Ends
    BY <2>1 DEF g, Ends, Choosing
  <2> QED BY <2>2, UnseenStep
<1>2. CASE UNCHANGED vars
  BY <1>2 DEF vars, Replacement!vars, Shown, Status, AsGiven, g, result
<1> QED BY <1>1, <1>2, GiveUpReplaces, SimplifyReplaces DEF Next

(* Whatever becomes of it, a transform keeps the function as it was or     *)
(* replaces the loop, and changes nothing else that anyone reads.          *)
THEOREM Refinement == Spec => ImplementsReplacement
<1>1. TransformInv /\ Init => Replacement!Init
  BY InitReplacement
<1>2. TransformInv /\ [Next]_vars => [Replacement!Next]_Replacement!vars
  BY NextReplaces
<1>3. Spec => Replacement!Spec
  BY Invariance, <1>1, <1>2, PTL DEF Spec, Replacement!Spec
<1> QED BY <1>3 DEF ImplementsReplacement
-----------------------------------------------------------------------------
(* What the call reads, and what is left of the loop to read. *)

(* What a deleted op wrote, and somebody read, the loop defined. *)
LEMMA UndoneInLoop ==
  ASSUME NEW e \in Edits, NEW op \in Op, NEW x \in Handover[e].del,
         Handover[e].out[x] \in Reads(Handover[e].ins, op)
  PROVE  DefinedInLoop(e[1], Handover[e].out[x])
<1> DEFINE f == e[1]
           w == Handover[e].out[x]
<1>1. f \in Loops
  BY EditFacts
<1>2. w \in Replacement!LoopVns(AsGiven(f))
  BY UndoneFacts
<1>3. PICK o \in ToSet(LoopOrder) : w = f.out[o]
  BY <1>2 DEF Replacement!LoopVns, AsGiven
<1>4. w \in Vn
  BY HandedReads, ReadsOf
<1> HIDE DEF f, w
<1>5. o \in Op
  BY <1>3, LoopAssumption DEF ToSet
<1>6. o \in f.live
  BY <1>1, <1>3, <1>4, <1>5, LoopFacts, VnAssumption
<1>7. home[o] = LoopBlock /\ InAddresses(o) /\ (w \in CsrVn => w \in VlVn)
  BY <1>1, <1>3, <1>6, PcodeAssumption
<1>8. DefinedInLoop(f, w)
  BY <1>3, <1>6, <1>7 DEF DefinedInLoop
<1> QED BY <1>8 DEF f, w

(* What enters the loop is not computed by it. *)
LEMMA EntryValueOutside ==
  ASSUME NEW f \in Loops, NEW v
  PROVE  EntryValue(f, v) = NoVn \/ ~DefinedInLoop(f, EntryValue(f, v))
<1> DEFINE phis == {p \in PhisOf(f, reg[v]) : EntrySlots(f, p) # {}}
           phi == CHOOSE p \in phis : TRUE
<1>1. EntryValue(f, v) = IF phis = {} THEN NoVn ELSE f.ins[phi][Min(EntrySlots(f, phi))]
  BY DEF EntryValue
<1>2. ASSUME phis # {} PROVE ~DefinedInLoop(f, f.ins[phi][Min(EntrySlots(f, phi))])
  <2>1. phi \in phis
    BY <1>2
  <2>2. phi \in f.live /\ EntrySlots(f, phi) # {}
    BY <2>1 DEF PhisOf, PhisAffected
  <2>3. phi \in Op /\ f.ins \in InputSeqs
    BY <2>2, LoopFacts
  <2> HIDE DEF phis, phi
  <2>4. EntrySlots(f, phi) \subseteq Nat
    BY <2>3, ReadsOf DEF EntrySlots
  <2>5. Min(EntrySlots(f, phi)) \in EntrySlots(f, phi)
    BY <2>2, <2>4, MinOf
  <2> QED BY <2>5 DEF EntrySlots
<1> HIDE DEF phis, phi
<1> QED BY <1>1, <1>2

LEMMA OperandOutside ==
  ASSUME NEW f \in Loops, NEW t \in Transforms, NoVn \notin ToSet(Operands(f, t))
  PROVE  \A v \in ToSet(Operands(f, t)) : ~DefinedInLoop(f, v)
<1> DEFINE Outside(v) == v = NoVn \/ ~DefinedInLoop(f, v)
<1>1. \A v : Outside(EntryValue(f, v))
  BY EntryValueOutside
<1>2. Outside(NoVn)
  OBVIOUS
<1> HIDE DEF Outside
<1>3. ASSUME NEW a, NEW i PROVE Outside(Operand(f, a, i))
  BY <1>1, <1>2 DEF Operand
<1>4. Outside(NumElements(f))
  BY <1>1 DEF NumElements
<1>5. \A v \in ToSet(Operands(f, t)) : Outside(v)
  <2> DEFINE a == Operand(f, Loads(f), 1)
             b == Operand(f, Loads(f), 2)
             c == Operand(f, Stores(f), 1)
             d == NumElements(f)
  <2>1. Outside(a) /\ Outside(b) /\ Outside(c) /\ Outside(d)
    BY <1>3, <1>4
  <2>2. /\ t = "memcpy" => Operands(f, t) = <<c, a, d>>
        /\ t = "strlen" => Operands(f, t) = <<a>>
        /\ t = "strcmp" => Operands(f, t) = <<a, b>>
    BY DEF Operands
  <2> HIDE DEF a, b, c, d
  <2>3. ToSet(Operands(f, t)) \subseteq {a, b, c, d}
    <3>1. ToSet(<<c, a, d>>) = {a, c, d} /\ ToSet(<<a>>) = {a} /\ ToSet(<<a, b>>) = {a, b}
      BY DEF ToSet
    <3> QED BY <2>2, <3>1 DEF Transforms
  <2> QED BY <2>1, <2>3
<1> QED BY <1>5 DEF Outside

(* The call and its inverse read nothing of the loop. *)
LEMMA NewReads ==
  ASSUME NEW e \in Edits, NEW op \in New, NEW v \in Reads(Handover[e].ins, op)
  PROVE  v \in {CallVn, InvertVn} \/ ~DefinedInLoop(e[1], v)
<1> DEFINE f == e[1]
           t == e[2]
           r == e[3]
           old == Linked(f, t, op)
           new == Handover[e].ins[op]
<1>1. /\ op \in Op /\ f \in Loops /\ t \in Transforms /\ NoVn \notin ToSet(Operands(f, t))
  BY EditFacts, TransformAssumption DEF Transforms
<1>2. new = Redirected(f, t, r, op, old) /\ old \in Seq(Vn)
  BY <1>1, HandedReads, LinkedFacts
<1>3. /\ Len(new) = Len(old) /\ DOMAIN new = DOMAIN old /\ new \in Seq(Vn)
      /\ \A i \in DOMAIN old :
           new[i] = IF r # NoVn /\ old[i] = r THEN AnswerFor(f, t, r, op) ELSE old[i]
  BY <1>2, RedirectedFacts
<1>4. v \in ToSet(new)
  BY DEF Reads
<1>5. ToSet(old) = {} \/ ToSet(old) = {CallVn} \/ ToSet(old) = ToSet(Operands(f, t))
  BY TransformAssumption DEF Linked, New, ToSet
<1> HIDE DEF f, t, r, old, new
<1>6. PICK i \in DOMAIN old : v = new[i] /\ old[i] \in ToSet(old)
  BY <1>2, <1>3, <1>4, ElementsOf
<1>7. CASE r # NoVn /\ old[i] = r
  BY <1>3, <1>6, <1>7 DEF AnswerFor
<1>8. CASE ~(r # NoVn /\ old[i] = r)
  BY <1>1, <1>3, <1>5, <1>6, <1>8, OperandOutside DEF f
<1> QED BY <1>7, <1>8

(* No op is left to read what the loop computed for itself: its ops are    *)
(* gone, a phi that is kept reads none of it, the call reads what entered  *)
(* the loop, and unresolvedDependencies has looked at all other readers.   *)
THEOREM LoopIsSealed == Spec => []NothingLeaks
<1>1. TransformInv => NothingLeaks
  <2> DEFINE f == g
             h == Handover[job]
             last == IF result = NoVn THEN Last(Ops(f, {"cbranch"})) ELSE Def(f, result)
  <2> SUFFICES ASSUME TransformInv, pc = "done", NEW op \in live, NEW v \in LoopLocalVns(f),
                      ~(kind[op] = "phi" /\ out[op] \in MemoryVn),
                      v \in Reads(ins, op), IsStale(out, v)
               PROVE  addr[op] \in LastAddr..addr[last]
    BY DEF NothingLeaks
  <2>1. /\ job \in Edits /\ f \in Loops
        /\ op \in h.live \ h.del /\ out[op] = h.out[op] /\ v \in Reads(h.ins, op)
        /\ \E x \in h.del : v = h.out[x]
    BY EndFacts
  <2>2. /\ h.live \subseteq f.live \cup New /\ h.del = Deleted(f, result)
        /\ f.live \subseteq Op /\ New \subseteq Op
    BY <2>1, HandedOverSound, LoopFacts, TransformAssumption DEF g, result
  <2>3. op \in Op
    BY <2>1, <2>2
  <2>4. v \notin {CallVn, InvertVn} /\ DefinedInLoop(f, v)
    BY <2>1, <2>3, UndoneFacts, UndoneInLoop DEF g
  <2>5. op \notin New
    BY <2>1, <2>4, NewReads DEF g
  <2>6. op \in f.live /\ out[op] = f.out[op] /\ v \in Reads(f.ins, op)
    <3>1. out[op] = f.out[op]
      BY <2>1, <2>3, <2>5, WrittenFacts DEF g
    <3>2. v \in Reads(f.ins, op)
      BY <2>1, <2>3, <2>4, <2>5, HandedReads DEF g
    <3> QED BY <2>1, <2>2, <2>5, <3>1, <3>2
  <2>7. addr[op] \in FirstAddr..addr[last]
    <3>1. /\ ~Vetoed(f, transform, result) /\ (result = NoVn <=> transform = "memcpy")
      BY <2>1, EditFacts DEF g, transform, result
    <3>2. ~Unresolved(f, last)
      BY <3>1 DEF Vetoed
    <3> HIDE DEF last
    <3> QED BY <2>3, <2>6, <3>2 DEF Unresolved, Readers
  <2>8. op \in ToSet(LoopOrder) => v = f.out[op]
    <3>1. op \notin LoopOps(f) /\ op \notin PhisAffected(f)
      BY <2>1, <2>2 DEF Deleted
    <3> QED BY <2>4, <2>6, <3>1 DEF LoopOps, PhisAffected
  <2>9. v # out[op]
    BY <2>3 DEF IsStale, IsFree, Written
  <2>10. addr[op] \notin FirstAddr..(LastAddr - 1)
    BY <2>1, <2>6, <2>8, <2>9, PcodeAssumption
  <2>11. addr[op] \in Nat /\ FirstAddr \in Nat /\ LastAddr \in Nat
    BY <2>3, LoopAssumption
  <2> HIDE DEF last
  <2> QED BY <2>7, <2>10, <2>11
<1> QED BY Invariance, <1>1, PTL
(* The value a register enters the loop with is found if it is the only    *)
(* one: a phi that the loop affects has the loop's own value in the slot   *)
(* of the loop edge.                                                       *)
LEMMA EntryValueFound ==
  ASSUME NEW f \in Loops, NEW v, NEW w,
         EntryValue(f, v) # NoVn, FlowsIn(f, reg[v]) = {w}, w \notin VlVn
  PROVE  EntryValue(f, v) = w
<1> DEFINE phis == {p \in PhisOf(f, reg[v]) : EntrySlots(f, p) # {}}
           phi == CHOOSE p \in phis : TRUE
           slots == EntrySlots(f, phi)
           from == f.edges[LoopBlock]
           reads == f.ins[phi]
<1>1. phis # {} /\ EntryValue(f, v) = reads[Min(slots)]
  BY DEF EntryValue
<1>2. /\ phi \in PhisOf(f, reg[v]) /\ slots # {}
  BY <1>1
<1>3. /\ phi \in ToSet(LoopOrder) /\ phi \in f.live /\ kind[phi] = "phi"
      /\ Space(f.out[phi]) = "register" /\ reg[f.out[phi]] = reg[v]
      /\ \E x \in Reads(f.ins, phi) : DefinedInLoop(f, x)
  BY <1>2 DEF PhisOf, PhisAffected
<1>4. phi \in Op /\ f.ins \in InputSeqs /\ f.out[phi] \in Vn
  BY <1>3, LoopFacts, PcodeAssumption DEF Outputs
<1>5. /\ home[phi] = LoopBlock /\ Len(reads) = Len(from)
      /\ \A i, j \in DOMAIN from : from[i] = LoopBlock /\ from[j] = LoopBlock => i = j
  BY <1>3, PcodeAssumption
<1>6. from \in Seq(Block)
  BY LoopFacts, TransformAssumption
<1> HIDE DEF phis, phi
<1>7. /\ DOMAIN reads = 1..Len(reads) /\ Len(reads) \in Nat
      /\ \A i \in DOMAIN reads : reads[i] \in Reads(f.ins, phi) /\ reads[i] \in Vn
  BY <1>4, ReadsOf
<1>8. DOMAIN from = DOMAIN reads
  BY <1>5, <1>6, <1>7, LenProperties
<1>9. \A i \in DOMAIN reads : from[i] # LoopBlock => reads[i] \in FlowsIn(f, reg[v])
  BY <1>3, <1>5 DEF FlowsIn
<1>10. ~DefinedInLoop(f, w)
  <2>1. CASE w \in CsrVn
    BY <2>1 DEF DefinedInLoop
  <2>2. CASE w \notin CsrVn
    BY <1>3, <1>4, <2>2, PcodeAssumption
  <2> QED BY <2>1, <2>2
<1>11. PICK k \in DOMAIN reads : DefinedInLoop(f, reads[k])
  <2>1. PICK x \in ToSet(reads) : DefinedInLoop(f, x)
    BY <1>3 DEF Reads
  <2> QED BY <1>4, <2>1, ReadsOf, ElementsOf DEF InputSeqs
<1>12. from[k] = LoopBlock
  BY <1>9, <1>10, <1>11
<1>13. \A i \in slots : i \in DOMAIN reads /\ ~DefinedInLoop(f, reads[i])
  BY DEF EntrySlots
<1>14. Min(slots) \in slots
  BY <1>2, <1>7, <1>13, MinOf
<1> HIDE DEF slots
<1>15. from[Min(slots)] # LoopBlock
  BY <1>5, <1>8, <1>11, <1>12, <1>13, <1>14
<1> QED BY <1>1, <1>9, <1>13, <1>14, <1>15

LEMMA OperandIs ==
  ASSUME TransformInv, transform \in Transforms,
         NoVn \notin ToSet(Operands(g, transform)), Operands(g, transform) \in Seq(Vn),
         NEW i \in DOMAIN Operands(g, transform),
         NEW w, FlowsIn(g, reg[Counted[i]]) = {w}, w \notin VlVn
  PROVE  Operands(g, transform)[i] = w
<1> DEFINE f == g
           ops == Operands(g, transform)
<1>1. f \in Loops
  BY DEF TransformInv, Typed, g
<1>2. ops[i] # NoVn /\ i \in DOMAIN ops /\ FlowsIn(f, reg[Counted[i]]) = {w}
  BY ElementsOf
<1> SUFFICES ops[i] = w
  OBVIOUS
<1> DEFINE a == Operand(f, Loads(f), 1)
           b == Operand(f, Loads(f), 2)
           c == Operand(f, Stores(f), 1)
           d == NumElements(f)
           cd == f.ins[Last(Ops(f, {"vset"}))][1]
<1>7. /\ transform = "memcpy" => ops = <<c, a, d>>
      /\ transform # "memcpy" => ops = <<a>> \/ ops = <<a, b>>
  BY DEF Operands, Transforms
<1>8. /\ transform = "memcpy" =>
           Counted = <<PointerOf(f, Stores(f)[1]), PointerOf(f, Loads(f)[1]), cd>>
      /\ transform # "memcpy" => \A k \in DOMAIN Loads(f) : Counted[k] = PointerOf(f, Loads(f)[k])
  BY DEF Counted
<1>9. d = EntryValue(f, cd)
  BY DEF NumElements
<1> HIDE DEF f, ops
<1>3. ASSUME NEW v, EntryValue(f, v) = ops[i], reg[v] = reg[Counted[i]] PROVE ops[i] = w
  BY <1>1, <1>2, <1>3, EntryValueFound
<1>4. ASSUME NEW s, NEW k, Operand(f, s, k) = ops[i], k \in DOMAIN s => PointerOf(f, s[k]) = Counted[i]
      PROVE  ops[i] = w
  BY <1>2, <1>3, <1>4 DEF Operand
<1>5. CASE transform = "memcpy"
  <2> HIDE DEF a, c, d, cd
  <2>1. i \in 1..3
    BY <1>2, <1>5, <1>7
  <2>2. CASE i = 1
    <3>1. ops[i] = c /\ Counted[i] = PointerOf(f, Stores(f)[1])
      BY <1>5, <1>7, <1>8, <2>2
    <3> QED BY <1>4, <3>1 DEF c
  <2>3. CASE i = 2
    <3>1. ops[i] = a /\ Counted[i] = PointerOf(f, Loads(f)[1])
      BY <1>5, <1>7, <1>8, <2>3
    <3> QED BY <1>4, <3>1 DEF a
  <2>4. CASE i = 3
    <3>1. ops[i] = d /\ Counted[i] = cd
      BY <1>5, <1>7, <1>8, <2>4
    <3> QED BY <1>3, <1>9, <3>1
  <2> QED BY <2>1, <2>2, <2>3, <2>4
<1>6. CASE transform # "memcpy"
  <2> HIDE DEF a, b
  <2>1. (i = 1 /\ ops[i] = a) \/ (i = 2 /\ ops[i] = b)
    BY <1>2, <1>6, <1>7
  <2> QED BY <1>4, <1>6, <1>8, <2>1 DEF a, b
<1> QED BY <1>5, <1>6

(* The arguments of the call are the values the loop was entered with: no  *)
(* deletion takes one away, no repair replaces it.                         *)
THEOREM CallIsEnteredAlike == Spec => []CallReadsEntryValues
<1>1. TransformInv => CallReadsEntryValues
  <2> DEFINE f == g
             h == Handover[job]
             ops == Operands(f, transform)
  <2> SUFFICES ASSUME TransformInv, pc = "done", CallOp \in live,
                      NEW i \in DOMAIN ins[CallOp], NEW w,
                      FlowsIn(f, reg[Counted[i]]) = {w}, w \notin VlVn \cup {result}
               PROVE  ins[CallOp][i] = w
    BY DEF CallReadsEntryValues
  <2>1. /\ job \in Edits /\ f \in Loops
        /\ \/ ins[CallOp] = h.ins[CallOp]
           \/ kind[CallOp] = "phi"
           \/ \E x \in h.del : h.out[x] \in Reads(h.ins, CallOp)
    BY EndFacts
  <2>2. CallOp \in Op /\ CallOp \in New /\ kind[CallOp] # "phi"
    BY TransformAssumption, PcodeAssumption DEF New
  <2>3. ~\E x \in h.del : h.out[x] \in Reads(h.ins, CallOp)
    BY <2>1, <2>2, NewReads, UndoneFacts, UndoneInLoop
  <2>4. /\ transform \in Transforms /\ NoVn \notin ToSet(ops)
        /\ h.ins[CallOp] = Redirected(f, transform, result, CallOp, ops)
    <3>1. transform \in Transforms /\ NoVn \notin ToSet(ops)
      BY <2>1, EditFacts DEF Transforms, g, transform
    <3>2. h.ins[CallOp] =
            Redirected(f, transform, result, CallOp, Linked(f, transform, CallOp))
      BY <2>1, <2>2, HandedReads DEF g, transform, result
    <3>3. Linked(f, transform, CallOp) = ops
      BY TransformAssumption DEF Linked
    <3> QED BY <3>1, <3>2, <3>3
  <2>5. ops \in Seq(Vn)
    BY <2>1, <2>4, OperandFacts DEF Transforms
  <2>6. /\ ins[CallOp] = h.ins[CallOp] /\ i \in DOMAIN ops
        /\ ins[CallOp][i] = IF result # NoVn /\ ops[i] = result
                            THEN AnswerFor(f, transform, result, CallOp) ELSE ops[i]
    BY <2>1, <2>2, <2>3, <2>4, <2>5, RedirectedFacts
  <2>7. ops[i] = w
    BY <2>4, <2>5, <2>6, OperandIs
  <2> QED BY <2>6, <2>7
<1> QED BY Invariance, <1>1, PTL

-----------------------------------------------------------------------------
(* The search for the result, which EpilogResult models step by step, when *)
(* the loop of a function Searched has matched as Sought.  What the state  *)
(* of the search is does not matter here.                                  *)

CONSTANTS Searched, Sought

Pointer1 == PointerOf(Searched, Loads(Searched)[1])

Search ==
  INSTANCE EpilogResult WITH
    Functions <- {[ins |-> Searched.ins, out |-> Searched.out]},
    RegisterVn <- {v \in Vn : Space(v) = "register"},
    OpsInLoop <- {op \in Searched.live : home[op] = LoopBlock /\ InAddresses(op)},
    Pointer <- Pointer1,
    Pointer2 <- IF Sought = "strcmp" THEN PointerOf(Searched, Loads(Searched)[2]) ELSE Pointer1,
    ComparisonVn <- Comparison(Searched),
    ins <- Searched.ins, out <- Searched.out, kind <- Sought,
    pass <- 1, deps <- <<>>, vn <- NoVn, count <- 0, visited <- {}, stack <- <<>>,
    chosen <- NoVn, pc <- "done"

(* What the readers of root and of S write, the stops left out *)
Onward(f, root, stops, S) ==
  {f.out[op] : op \in UNION {Readers(f.ins, v) : v \in S \cup {root}}} \ (stops \cup {NoVn})

LEMMA OnwardFacts ==
  ASSUME NEW f \in Loops, NEW root, NEW stops, NEW S, NEW T, S \subseteq T
  PROVE  /\ Onward(f, root, stops, S) \subseteq Onward(f, root, stops, T)
         /\ Onward(f, root, stops, S) \in SUBSET Vn
         /\ \A v \in Onward(f, root, stops, S) : \E op \in f.live : f.out[op] = v
<1>1. f.out \in Outputs /\ \A op \in Op \ f.live : f.out[op] = NoVn
  BY LoopFacts
<1>2. \A v : Readers(f.ins, v) \subseteq Op
  BY DEF Readers
<1> QED BY <1>1, <1>2 DEF Onward, Outputs

(* The function by which Dependents is computed, up to k *)
IsTrace(s, f, root, stops, k) ==
  s = [i \in 0..k |-> IF i = 0 THEN {} ELSE Onward(f, root, stops, s[i - 1])]

(* Its values, one by one *)
Steps(s, f, root, stops) ==
  /\ s[0] = {}
  /\ \A i \in 1..Cardinality(Vn) : s[i] = Onward(f, root, stops, s[i - 1])
  /\ Dependents(f, root, stops) = s[Cardinality(Vn)]

LEMMA DependentsSteps ==
  ASSUME NEW f \in Loops, NEW root, NEW stops
  PROVE  \E s : Steps(s, f, root, stops)
<1> DEFINE n == Cardinality(Vn)
           P == {k \in 0..n : \E s : IsTrace(s, f, root, stops, k)}
<1>1. n \in Nat
  BY LoopAssumption, FS_CardinalityType
<1>2. 0 \in P
  <2>1. IsTrace([i \in 0..0 |-> {}], f, root, stops, 0)
    BY DEF IsTrace
  <2> QED BY <1>1, <2>1
<1>3. ASSUME NEW k \in 0..(n - 1), k \in P
      PROVE  k + 1 \in P
  <2>1. PICK s : IsTrace(s, f, root, stops, k)
    BY <1>3
  <2> DEFINE r == [i \in 0..(k + 1) |-> IF i = k + 1 THEN Onward(f, root, stops, s[k]) ELSE s[i]]
  <2>2. ASSUME NEW i \in 0..(k + 1)
        PROVE  r[i] = IF i = 0 THEN {} ELSE Onward(f, root, stops, r[i - 1])
    <3>1. CASE i = k + 1
      <4>1. i # 0 /\ i - 1 = k /\ i - 1 \in 0..(k + 1) /\ i - 1 # k + 1
        BY <1>1, <3>1
      <4>2. r[i] = Onward(f, root, stops, s[k]) /\ r[i - 1] = s[k]
        BY <3>1, <4>1
      <4> QED BY <4>1, <4>2
    <3>2. CASE i # k + 1
      <4>1. i \in 0..k /\ r[i] = s[i]
        BY <1>1, <3>2
      <4>2. s[i] = IF i = 0 THEN {} ELSE Onward(f, root, stops, s[i - 1])
        BY <2>1, <4>1 DEF IsTrace
      <4>3. i # 0 => i - 1 \in 0..(k + 1) /\ i - 1 # k + 1 /\ r[i - 1] = s[i - 1]
        BY <1>1, <3>2
      <4> QED BY <4>1, <4>2, <4>3
    <3> QED BY <3>1, <3>2
  <2>3. IsTrace(r, f, root, stops, k + 1)
    <3>1. r = [i \in 0..(k + 1) |-> r[i]]
      OBVIOUS
    <3> HIDE DEF r
    <3> QED BY <2>2, <3>1 DEF IsTrace
  <2>4. k + 1 \in 0..n
    BY <1>1
  <2> QED BY <2>3, <2>4
<1>4. n \in P
  <2> HIDE DEF P
  <2>1. \A i \in 0..n : i \in P
    BY <1>1, <1>2, <1>3, RangeInduction
  <2> QED BY <1>1, <2>1
<1>5. PICK step : step = CHOOSE s : IsTrace(s, f, root, stops, n)
  OBVIOUS
<1>6. IsTrace(step, f, root, stops, n)
  BY <1>4, <1>5
<1>7. Dependents(f, root, stops) = step[n]
  BY <1>5 DEF Dependents, Onward, IsTrace
<1>8. \A i \in 0..n : step[i] = IF i = 0 THEN {} ELSE Onward(f, root, stops, step[i - 1])
  BY <1>6 DEF IsTrace
<1>9. step[0] = {} /\ \A i \in 1..n : step[i] = Onward(f, root, stops, step[i - 1])
  BY <1>1, <1>8
<1>10. Steps(step, f, root, stops)
  BY <1>7, <1>9 DEF Steps
<1> QED BY <1>10

(* The count of Varnodes is enough steps: Dependents is the smallest set   *)
(* that nothing leads out of.                                              *)
LEMMA DependentsAreLeast ==
  ASSUME NEW f \in Loops, NEW root, NEW stops
  PROVE  /\ Dependents(f, root, stops) =
              {v \in Vn : \A S \in SUBSET Vn : Onward(f, root, stops, S) \subseteq S => v \in S}
         /\ \A v \in Dependents(f, root, stops) : \E op \in f.live : f.out[op] = v
<1> PICK s : Steps(s, f, root, stops)
  BY DependentsSteps
<1> DEFINE n == Cardinality(Vn)
           next(S) == Onward(f, root, stops, S)
<1>1. /\ s[0] = {}
      /\ \A i \in 1..n : s[i] = next(s[i - 1])
      /\ Dependents(f, root, stops) = s[n]
  BY DEF Steps
<1>2. n \in Nat /\ IsFiniteSet(Vn)
  BY LoopAssumption, FS_CardinalityType
<1>3. \A S, T : S \subseteq T => next(S) \subseteq next(T) /\ next(S) \in SUBSET Vn
  BY OnwardFacts
<1> HIDE DEF next
<1>4. \A i \in 0..(n - 1) : s[i + 1] = next(s[i])
  <2> TAKE i \in 0..(n - 1)
  <2>1. i + 1 \in 1..n /\ (i + 1) - 1 = i
    BY <1>2
  <2> QED BY <1>1, <2>1
<1>5. \A i \in 0..n : s[i] \in SUBSET Vn
  <2> TAKE i \in 0..n
  <2>1. CASE i = 0
    BY <1>1, <2>1
  <2>2. CASE i # 0
    <3>1. i \in 1..n
      BY <1>2, <2>2
    <3> QED BY <1>1, <1>3, <3>1
  <2> QED BY <2>1, <2>2
<1>6. \A i \in 0..n : s[i] \subseteq next(s[i])
  <2> DEFINE P == {i \in 0..n : s[i] \subseteq next(s[i])}
  <2>1. 0 \in P
    BY <1>1, <1>2
  <2>2. \A i \in 0..(n - 1) : i \in P => i + 1 \in P
    <3> SUFFICES ASSUME NEW i \in 0..(n - 1), i \in P PROVE i + 1 \in P
      OBVIOUS
    <3>1. s[i + 1] = next(s[i]) /\ s[i] \subseteq next(s[i])
      BY <1>4
    <3>2. next(s[i]) \subseteq next(s[i + 1])
      BY <1>3, <3>1
    <3> QED BY <1>2, <3>1, <3>2
  <2> HIDE DEF P
  <2>3. \A i \in 0..n : i \in P
    BY <1>2, <2>1, <2>2, RangeInduction
  <2> QED BY <2>3 DEF P
<1>7. next(s[n]) = s[n]
  <2> DEFINE Q == {i \in 0..n : next(s[i]) = s[i] \/ Cardinality(s[i]) >= i}
  <2>1. 0 \in Q
    <3>1. Cardinality({}) = 0
      BY FS_EmptySet
    <3>2. Cardinality(s[0]) >= 0
      BY <1>1, <3>1
    <3> QED BY <1>2, <3>2
  <2>2. \A i \in 0..(n - 1) : i \in Q => i + 1 \in Q
    <3> SUFFICES ASSUME NEW i \in 0..(n - 1), i \in Q PROVE i + 1 \in Q
      OBVIOUS
    <3>1. i \in 0..n /\ i + 1 \in 0..n /\ s[i + 1] = next(s[i])
      BY <1>2, <1>4
    <3>2. CASE next(s[i]) = s[i]
      BY <3>1, <3>2
    <3>3. CASE next(s[i]) # s[i]
      <4>1. s[i] \subseteq s[i + 1] /\ s[i] # s[i + 1] /\ s[i + 1] \in SUBSET Vn
        BY <1>5, <1>6, <3>1, <3>3
      <4>2. IsFiniteSet(s[i + 1])
        BY <1>2, <4>1, FS_Subset
      <4>3. /\ Cardinality(s[i]) \in Nat /\ Cardinality(s[i + 1]) \in Nat
            /\ Cardinality(s[i]) < Cardinality(s[i + 1])
        <5>1. IsFiniteSet(s[i]) /\ Cardinality(s[i]) <= Cardinality(s[i + 1])
              /\ (Cardinality(s[i]) = Cardinality(s[i + 1]) => s[i] = s[i + 1])
          BY <4>1, <4>2, FS_Subset
        <5>2. Cardinality(s[i]) \in Nat /\ Cardinality(s[i + 1]) \in Nat
          BY <4>2, <5>1, FS_CardinalityType
        <5> QED BY <4>1, <5>1, <5>2
      <4>4. Cardinality(s[i]) >= i
        BY <3>3
      <4>5. Cardinality(s[i + 1]) >= i + 1
        BY <1>2, <4>3, <4>4
      <4> QED BY <3>1, <4>5
    <3> QED BY <3>2, <3>3
  <2> HIDE DEF Q
  <2>3. n \in Q
    BY <1>2, <2>1, <2>2, RangeInduction
  <2>4. CASE Cardinality(s[n]) >= n
    <3>1. s[n] \in SUBSET Vn /\ s[n] \subseteq next(s[n]) /\ next(s[n]) \in SUBSET Vn
      BY <1>2, <1>3, <1>5, <1>6
    <3>2. Cardinality(s[n]) <= n /\ (Cardinality(s[n]) = n => s[n] = Vn) /\ IsFiniteSet(s[n])
      BY <1>2, <3>1, FS_Subset
    <3>3. Cardinality(s[n]) \in Nat
      BY <3>2, FS_CardinalityType
    <3>4. s[n] = Vn
      BY <1>2, <2>4, <3>2, <3>3
    <3> QED BY <3>1, <3>4
  <2> QED BY <2>3, <2>4 DEF Q
<1>8. ASSUME NEW S, next(S) \subseteq S
      PROVE  s[n] \subseteq S
  <2> DEFINE P == {i \in 0..n : s[i] \subseteq S}
  <2>1. 0 \in P
    BY <1>1, <1>2
  <2>2. \A i \in 0..(n - 1) : i \in P => i + 1 \in P
    <3> SUFFICES ASSUME NEW i \in 0..(n - 1), i \in P PROVE i + 1 \in P
      OBVIOUS
    <3>1. s[i + 1] = next(s[i]) /\ s[i] \subseteq S
      BY <1>4
    <3>2. next(s[i]) \subseteq next(S)
      BY <1>3, <3>1
    <3> QED BY <1>2, <1>8, <3>1, <3>2
  <2> HIDE DEF P
  <2>3. n \in P
    BY <1>2, <2>1, <2>2, RangeInduction
  <2> QED BY <2>3 DEF P
<1>9. s[n] \in SUBSET Vn
  BY <1>2, <1>5
<1>10. Dependents(f, root, stops) =
         {v \in Vn : \A S \in SUBSET Vn : next(S) \subseteq S => v \in S}
  BY <1>1, <1>7, <1>8, <1>9
<1>11. \A v \in s[n] : \E op \in f.live : f.out[op] = v
  <2>1. \A v \in next(s[n]) : \E op \in f.live : f.out[op] = v
    BY OnwardFacts DEF next
  <2> QED BY <1>7, <2>1
<1> QED BY <1>1, <1>10, <1>11 DEF next
(* The pointers and the tested Varnode, from which the search starts. *)
LEMMA SearchRoots ==
  ASSUME NEW f \in Loops, NEW t \in {"strlen", "strcmp"}, Match(f) = t
  PROVE  /\ PointerOf(f, Loads(f)[1]) \in Vn
         /\ t = "strcmp" => PointerOf(f, Loads(f)[2]) \in Vn
         /\ Comparison(f) \in Vn \cup {NoVn}
<1>1. /\ t = "strlen" => Len(Loads(f)) = 1
      /\ t = "strcmp" => Len(Loads(f)) = 2
  BY DEF Match, IsStrlen, IsStrcmp
<1>2. \A i \in 1..Len(Loads(f)) : PointerOf(f, Loads(f)[i]) \in Vn
  BY PcodeAssumption
<1>3. Comparison(f) \in Vn \cup {NoVn}
  <2> DEFINE Tested(i) == f.ins[LoopOrder[i]][1]
             places == {i \in DOMAIN LoopOrder : /\ LoopOrder[i] \in f.live
                                                /\ kind[LoopOrder[i]] \in TestKinds
                                                /\ Written(f.out, Tested(i))}
  <2>1. Comparison(f) = IF places = {} THEN NoVn ELSE Tested(Max(places))
    BY DEF Comparison
  <2>2. places \in SUBSET (1..Len(LoopOrder)) /\ Len(LoopOrder) \in Nat
    BY LoopAssumption
  <2>3. places # {} => Max(places) \in places
    <3> HIDE DEF places
    <3> QED BY <2>2, MaxOf
  <2>4. f.out \in Outputs
    BY LoopFacts
  <2>5. \A i \in places : Tested(i) \in Vn \cup {NoVn}
    BY <2>4 DEF Written, Outputs
  <2> HIDE DEF places, Tested
  <2> QED BY <2>1, <2>3, <2>5
<1> QED BY <1>1, <1>2, <1>3

(* EpilogResult counts as this module does. *)
LEMMA SameCounting ==
  ASSUME NEW S
  PROVE  /\ Search!IsFiniteSet(S) <=> IsFiniteSet(S)
         /\ Search!Cardinality(S) = Cardinality(S)
<1>1. Search!IsFiniteSet(S) <=> IsFiniteSet(S)
  BY DEF Search!IsFiniteSet, IsFiniteSet
<1>2. Search!Cardinality(S) = Cardinality(S)
  BY DEF Search!Cardinality, Cardinality
<1> QED BY <1>1, <1>2

LEMMA SearchAssumed ==
  ASSUME Searched \in Loops, Sought \in {"strlen", "strcmp"}, Match(Searched) = Sought
  PROVE  Search!EpilogAssumption
<1> DEFINE f == Searched
<1>1. f.ins \in InputSeqs /\ f.out \in Outputs /\ f.live \subseteq Op /\ IsSSA(f.out)
  BY LoopFacts
<1>2. /\ Search!InputSeqs = InputSeqs /\ Search!Outputs = Outputs
      /\ Search!IsSSA(f.out) <=> IsSSA(f.out)
  BY DEF Search!InputSeqs, InputSeqs, Search!Outputs, Outputs, Search!IsSSA, IsSSA
<1>3. {Pointer1, IF Sought = "strcmp" THEN PointerOf(f, Loads(f)[2]) ELSE Pointer1} \subseteq Vn
  BY SearchRoots DEF Pointer1
<1>4. Comparison(f) \in Vn \cup {NoVn}
  BY SearchRoots
<1>5. /\ {v \in Vn : Space(v) = "register"} \subseteq Vn /\ VlVn \subseteq CsrVn /\ CsrVn \subseteq Vn
      /\ {op \in f.live : home[op] = LoopBlock /\ InAddresses(op)} \subseteq Op
  BY <1>1, LoopAssumption
<1>6. /\ Search!IsFiniteSet(Vn) /\ addr \in [Op -> Nat]
      /\ LastAddr \in Nat /\ MaxDepth \in Nat /\ SearchDepth \in Nat
  BY LoopAssumption, SameCounting
<1>7. \A h \in {[ins |-> f.ins, out |-> f.out]} :
        h.ins \in Search!InputSeqs /\ h.out \in Search!Outputs /\ Search!IsSSA(h.out)
  BY <1>1, <1>2
<1> QED BY <1>3, <1>4, <1>5, <1>6, <1>7 DEF Search!EpilogAssumption

LEMMA SameDependents ==
  ASSUME Searched \in Loops, NEW root
  PROVE  Search!Dependents(root) = Dependents(Searched, root, Search!StopSet)
<1> DEFINE f == Searched
           stops == Search!StopSet
<1>1. \A S : Search!Closed(root, S) <=> Onward(f, root, stops, S) \subseteq S
  <2> TAKE S
  <2>1. \A op \in Op : Search!Reads(f.ins, op) = Reads(f.ins, op)
    BY DEF Search!Reads, Reads, Search!ToSet, ToSet
  <2>2. Search!Closed(root, S) <=>
          \A op \in Op : /\ f.out[op] \notin stops \cup {NoVn}
                         /\ Reads(f.ins, op) \cap (S \cup {root}) # {}
                         => f.out[op] \in S
    BY <2>1 DEF Search!Closed, Search!IsNew
  <2> HIDE DEF stops
  <2> QED BY <2>2 DEF Onward, Readers
<1>2. Search!Dependents(root) =
        {v \in Vn : \A S \in SUBSET Vn : Onward(f, root, stops, S) \subseteq S => v \in S}
  BY <1>1 DEF Search!Dependents
<1>3. Dependents(f, root, stops) =
        {v \in Vn : \A S \in SUBSET Vn : Onward(f, root, stops, S) \subseteq S => v \in S}
  <2> HIDE DEF stops
  <2> QED BY DependentsAreLeast
<1> QED BY <1>2, <1>3

LEMMA SameSelection ==
  ASSUME Searched \in Loops, NEW v \in Vn, \E op \in Searched.live : Searched.out[op] = v
  PROVE  Search!Selected(v) <=>
           InEpilog(Searched, v) /\ (Sought = "strlen" => Space(v) = "register")
<1> DEFINE f == Searched
<1>1. v # NoVn /\ f.live \subseteq Op /\ \A op \in Op \ f.live : f.out[op] = NoVn
  BY VnAssumption, LoopFacts
<1>2. Search!DefAddrs(v) = DefAddr(f, v) /\ DefAddr(f, v) # {}
  BY <1>1 DEF Search!DefAddrs, DefAddr
<1>3. Search!IsDefinedInLoop(v) <=> DefinedInLoop(f, v)
  <2> DEFINE here == {op \in f.live : home[op] = LoopBlock /\ InAddresses(op)}
  <2>1. Search!IsDefinedInLoop(v) <=>
          IF v \in CsrVn THEN v \in VlVn ELSE \E op \in here : f.out[op] = v
    BY DEF Search!IsDefinedInLoop
  <2> QED BY <2>1 DEF DefinedInLoop
<1> QED BY <1>2, <1>3 DEF Search!Selected, InEpilog

(* Where a transform takes a result in one step, or gives up, it does what *)
(* the search of EpilogResult comes to in many: what EpilogResult assumes  *)
(* holds of every function whose loop matches, the candidates are its      *)
(* Results, and the search may be cut off if and only if a root has        *)
(* TooMany dependents.                                                     *)
THEOREM ResultsAreSearched ==
  ASSUME Searched \in Loops, Sought \in {"strlen", "strcmp"}, Match(Searched) = Sought
  PROVE  /\ Search!EpilogAssumption
         /\ Candidates(Searched, Sought) = Search!Results
         /\ \A i \in 1..2 :
              CutOff(Found(Searched, Sought)[i]) <=> Search!TooMany(Search!Roots[i])
<1> DEFINE f == Searched
           one == Search!Roots[1]
           two == Search!Roots[2]
           stops == Search!StopSet
<1>1. Found(f, Sought) = <<Dependents(f, one, stops), Dependents(f, two, stops)>>
  BY DEF Found, Search!Roots, Search!StopSet, Pointer1
<1>2. \A root : Search!Dependents(root) = Dependents(f, root, stops)
  BY SameDependents
<1>3. \A root : /\ Dependents(f, root, stops) \subseteq Vn
                /\ \A v \in Dependents(f, root, stops) : \E op \in f.live : f.out[op] = v
  BY DependentsAreLeast
<1> HIDE DEF one, two, stops
<1>4. \A v \in Dependents(f, one, stops) \cap Dependents(f, two, stops) :
        Search!Selected(v) <=>
          InEpilog(f, v) /\ (Sought = "strlen" => Space(v) = "register")
  BY <1>3, SameSelection
<1>5. Search!Results = {v \in Dependents(f, one, stops) \cap Dependents(f, two, stops) :
                          Search!Selected(v)}
  BY <1>2 DEF Search!Results, one, two
<1>6. Candidates(f, Sought) =
        {v \in Vn \cap Dependents(f, one, stops) \cap Dependents(f, two, stops) :
           InEpilog(f, v) /\ (Sought = "strlen" => Space(v) = "register")}
  BY <1>1 DEF Candidates
<1>7. Candidates(f, Sought) = Search!Results
  BY <1>3, <1>4, <1>5, <1>6
<1>8. \A i \in 1..2 : CutOff(Found(f, Sought)[i]) <=> Search!TooMany(Search!Roots[i])
  <2>1. CutOff(Dependents(f, one, stops)) <=> Search!TooMany(one)
    BY <1>2, SameCounting DEF CutOff, Search!TooMany
  <2>2. CutOff(Dependents(f, two, stops)) <=> Search!TooMany(two)
    BY <1>2, SameCounting DEF CutOff, Search!TooMany
  <2> QED BY <1>1, <2>1, <2>2 DEF one, two
<1> QED BY <1>7, <1>8, SearchAssumed

=============================================================================
