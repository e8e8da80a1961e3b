--------------------------- MODULE FunctionEditor ---------------------------
(***************************************************************************)
(* FunctionEditor::simplifyBlocks (framework.cc): what a loop transform    *)
(* does to the function once it has become irreversible.  The listed ops   *)
(* are unlinked, the loop edge and an enclosing do..while go, blocks are   *)
(* purged of ops nobody reads, the surviving readers of deleted ops are    *)
(* repaired, and Inspector::auditMultiequals trims what is left over.      *)
(*                                                                         *)
(* deletionSet, uniqueOpsToDelete and descendentsToReview are std::sets of *)
(* pointers: they are iterated in an order the program does not choose, so *)
(* any element may be next.                                                *)
(***************************************************************************)
EXTENDS Pcode

CONSTANTS
  Block,      \* basic blocks
  LoopBlock,  \* the block whose loop is being replaced
  NoOp,       \* no op is under review
  RegisterVn, \* Varnodes of the register space
  code,       \* opcode of each op
  home,       \* basic block of each op while it is live
  Jobs,       \* the calls of simplifyBlocks that are considered
  Given       \* the function and the edit lists each of them gets

OpCodes == {"MULTIEQUAL", "CALL", "OTHER"}

(* What simplifyBlocks is called with: the function's ops, the in-edges of *)
(* its blocks, opsToDelete, the blocks to purge, and whether the loop is   *)
(* wrapped in a do..while that a list block holds.                         *)
EditJobs ==
  [ins: InputSeqs, out: Outputs, live: SUBSET Op, edges: [Block -> Seq(Block)],
   del: SUBSET Op, epilog: Seq(Block), related: Seq(Block), wrapped: BOOLEAN]

(* A function Ghidra hands over is in SSA form, its deleted ops are not    *)
(* linked, and every Varnode that is read has a definition.                *)
WellFormed(f) ==
  /\ f.del \subseteq f.live
  /\ \A op \in Op \ f.live : f.ins[op] = <<>> /\ f.out[op] = NoVn
  /\ IsSSA(f.out)
  /\ \A op \in Op : \A vn \in Reads(f.ins, op) : ~IsStale(f.out, vn)

ASSUME EditorAssumption ==
  /\ LoopBlock \in Block
  /\ NoOp \notin Op
  /\ RegisterVn \subseteq Vn
  /\ RegisterVn \cap PoolVn = {}
  /\ code \in [Op -> OpCodes]
  /\ home \in [Op -> Block]
  /\ Given \in [Jobs -> EditJobs]
  /\ \A j \in Jobs : WellFormed(Given[j])

VARIABLES
  job,    \* the call under way
  ins, out, live,
  edges,  \* in-edges of each block
  review, \* descendentsToReview
  fixed,  \* descendentsFixed
  todo,   \* what is left of the set the code iterates over
  blocks, \* blocks still to be purged
  cur,    \* the op whose slots are being walked
  slot,   \* the slot reached in it
  pc

fn == Given[job]  \* the function as simplifyBlocks found it
graph == <<ins, out, live>>
walk == <<cur, slot>>
vars == <<job, ins, out, live, edges, review, fixed, todo, blocks, cur, slot, pc>>

PCs == {"delete", "trim", "purge", "review", "audit", "done", "aborted"}

TypeOK ==
  /\ job \in Jobs
  /\ ins \in InputSeqs
  /\ out \in Outputs
  /\ live \in SUBSET Op
  /\ edges \in [Block -> Seq(Block)]
  /\ review \in SUBSET Op
  /\ fixed \in SUBSET Op
  /\ todo \in SUBSET Op
  /\ blocks \in Seq(Block)
  /\ cur \in Op \cup {NoOp}
  /\ slot \in Nat \ {0}
  /\ pc \in PCs

Init ==
  /\ job \in Jobs
  /\ ins = fn.ins /\ out = fn.out /\ live = fn.live /\ edges = fn.edges
  /\ review = {} /\ fixed = {}
  /\ todo = fn.del
  /\ blocks = fn.epilog \o <<LoopBlock>> \o fn.related
  /\ cur = NoOp /\ slot = 1
  /\ pc = "delete"

-----------------------------------------------------------------------------
(* Deleting ops. *)

(* Mutant: deleteOp does not erase the op it unlinks. *)
ReviewedKeepsOp(op) == review \cup Readers(ins, out[op])

(* What deleteOp adds to and drops from the review set. *)
Reviewed(op) == (review \cup Readers(ins, out[op])) \ {op}

(* FunctionEditor::deleteOp *)
DeleteOp(op) ==
  /\ review' = Reviewed(op)
  /\ ins' = UnlinkedIns(ins, op)
  /\ out' = UnlinkedOut(out, op)
  /\ live' = live \ {op}

(* Every op handed over for deletion goes. *)
DeleteListed ==
  /\ pc = "delete"
  /\ \E op \in todo :
       /\ DeleteOp(op)
       /\ todo' = todo \ {op}
  /\ UNCHANGED <<job, edges, fixed, blocks, walk, pc>>

IsPhi(op) == op \in live /\ code[op] = "MULTIEQUAL"

IsFirst(s, e, i) ==
  /\ i \in DOMAIN s
  /\ s[i] = e
  /\ \A j \in DOMAIN s : j < i => s[j] # e

(* The loop's edge to itself goes.  The do..while around it, when there is *)
(* one, is removed next, together with one self-reference of each phi.     *)
RemoveLoopEdge ==
  /\ pc = "delete"
  /\ todo = {}
  /\ \E i \in DOMAIN edges[LoopBlock] :
       /\ IsFirst(edges[LoopBlock], LoopBlock, i)
       /\ edges' = [edges EXCEPT ![LoopBlock] = RemoveAt(@, i)]
  /\ IF fn.wrapped
     THEN /\ pc' = "trim"
          /\ todo' = {op \in Op : IsPhi(op) /\ home[op] = LoopBlock}
     ELSE /\ pc' = "purge"
          /\ UNCHANGED todo
  /\ UNCHANGED <<job, graph, review, fixed, blocks, walk>>

(* Mutant: the first input is trimmed, whatever it is. *)
TrimPhiFirstSlot ==
  /\ pc = "trim"
  /\ \E op \in todo :
       /\ todo' = todo \ {op}
       /\ ins' = IF out[op] \in Reads(ins, op) THEN SlotRemoved(ins, op, 1) ELSE ins
  /\ UNCHANGED <<job, out, live, edges, review, fixed, blocks, walk, pc>>

(* removeDoWhileWrapperBlock: a phi of the loop block loses its first      *)
(* self-referential input, if it has one.                                  *)
TrimPhi ==
  /\ pc = "trim"
  /\ \E op \in todo :
       /\ todo' = todo \ {op}
       /\ IF out[op] \in Reads(ins, op)
          THEN \E i \in DOMAIN ins[op] :
                 /\ IsFirst(ins[op], out[op], i)
                 /\ ins' = SlotRemoved(ins, op, i)
          ELSE UNCHANGED ins
  /\ UNCHANGED <<job, out, live, edges, review, fixed, blocks, walk, pc>>

TrimDone ==
  /\ pc = "trim"
  /\ todo = {}
  /\ pc' = "purge"
  /\ UNCHANGED <<job, graph, edges, review, fixed, todo, blocks, walk>>

(* Mutant: readers in other blocks are overlooked. *)
UnreadInBlock(blk) ==
  {op \in live : /\ home[op] = blk
                 /\ out[op] # NoVn
                 /\ \A r \in Readers(ins, out[op]) : home[r] # blk}

(* removeUnusedOps: ops of a block whose output nobody reads. *)
Unread(blk) ==
  {op \in live : home[op] = blk /\ out[op] # NoVn /\ Readers(ins, out[op]) = {}}

ScanBlock ==
  /\ pc = "purge"
  /\ todo = {}
  /\ blocks # <<>>
  /\ todo' = Unread(Head(blocks))
  /\ blocks' = IF todo' = {} THEN Tail(blocks) ELSE blocks
  /\ UNCHANGED <<job, graph, edges, review, fixed, walk, pc>>

(* Mutant: deletionSet is not cleared between two scans. *)
DeleteUnreadAgain ==
  /\ pc = "purge"
  /\ \E op \in todo :
       /\ DeleteOp(op)
       /\ todo' \in {todo, todo \ {op}}
  /\ UNCHANGED <<job, edges, fixed, blocks, walk, pc>>

DeleteUnread ==
  /\ pc = "purge"
  /\ \E op \in todo :
       /\ DeleteOp(op)
       /\ todo' = todo \ {op}
  /\ UNCHANGED <<job, edges, fixed, blocks, walk, pc>>

-----------------------------------------------------------------------------
(* Repairing the readers of what was deleted. *)

StartReview ==
  /\ pc = "purge"
  /\ todo = {}
  /\ blocks = <<>>
  /\ todo' = review
  /\ pc' = "review"
  /\ UNCHANGED <<job, graph, edges, review, fixed, blocks, walk>>

(* Mutant: the slot of the next op starts one too low. *)
ReviewOpFromMinusOne ==
  /\ pc = "review"
  /\ cur = NoOp
  /\ \E op \in todo :
       /\ todo' = todo \ {op}
       /\ cur' = IF code[op] \in {"MULTIEQUAL", "CALL"} THEN op ELSE NoOp
  /\ slot' = 0
  /\ UNCHANGED <<job, graph, edges, review, fixed, blocks, pc>>

(* Only the slots of phis and of calls are looked at. *)
ReviewOp ==
  /\ pc = "review"
  /\ cur = NoOp
  /\ \E op \in todo :
       /\ todo' = todo \ {op}
       /\ cur' = IF code[op] \in {"MULTIEQUAL", "CALL"} THEN op ELSE NoOp
  /\ slot' = 1
  /\ UNCHANGED <<job, graph, edges, review, fixed, blocks, pc>>

AtSlot(opcode) ==
  /\ pc = "review"
  /\ cur # NoOp
  /\ code[cur] = opcode
  /\ slot <= Len(ins[cur])

StalePhiSlot == IsFree(out, ins[cur][slot]) /\ ins[cur][slot] \in RegisterVn

KeepPhiSlot ==
  /\ AtSlot("MULTIEQUAL")
  /\ ~StalePhiSlot
  /\ slot' = slot + 1
  /\ UNCHANGED <<job, graph, edges, review, fixed, todo, blocks, cur, pc>>

(* The other slot of a two-input phi, read after the stale one is gone. *)
GoodSlot == IF slot = 1 THEN 2 ELSE 1

(* A two-input phi gets its other input twice.  When the stale input was   *)
(* the first one, getIn(1) is past the end of the shortened input vector:  *)
(* unchecked, the old element is still there.                              *)
DuplicatePhiSlot ==
  /\ AtSlot("MULTIEQUAL")
  /\ StalePhiSlot
  /\ Len(ins[cur]) = 2
  /\ ins' = SlotInserted(SlotRemoved(ins, cur, slot), cur, slot, ins[cur][GoodSlot])
  /\ slot' = slot + 1
  /\ fixed' = fixed \cup {cur}
  /\ UNCHANGED <<job, out, live, edges, review, todo, blocks, cur, pc>>

(* A build with library assertions stops there instead. *)
AbortOnSlot ==
  /\ AtSlot("MULTIEQUAL")
  /\ StalePhiSlot
  /\ Len(ins[cur]) = 2
  /\ GoodSlot > Len(RemoveAt(ins[cur], slot))
  /\ pc' = "aborted"
  /\ ins' = SlotRemoved(ins, cur, slot)
  /\ UNCHANGED <<job, out, live, edges, review, fixed, todo, blocks, walk>>

RemovePhiSlot ==
  /\ AtSlot("MULTIEQUAL")
  /\ StalePhiSlot
  /\ Len(ins[cur]) # 2
  /\ ins' = SlotRemoved(ins, cur, slot)
  /\ fixed' = fixed \cup {cur}
  /\ UNCHANGED <<job, out, live, edges, review, todo, blocks, walk, pc>>

(* Mutant: slot-- is done for a slot that is kept, too. *)
KeepCallSlotStay ==
  /\ AtSlot("CALL")
  /\ ~IsFree(out, ins[cur][slot])
  /\ UNCHANGED <<job, graph, edges, review, fixed, todo, blocks, walk, pc>>

KeepCallSlot ==
  /\ AtSlot("CALL")
  /\ ~IsFree(out, ins[cur][slot])
  /\ slot' = slot + 1
  /\ UNCHANGED <<job, graph, edges, review, fixed, todo, blocks, cur, pc>>

(* Mutant: slot-- is missing, the slot that moved down is skipped. *)
RemoveCallSlotSkip ==
  /\ AtSlot("CALL")
  /\ IsFree(out, ins[cur][slot])
  /\ ins' = SlotRemoved(ins, cur, slot)
  /\ slot' = slot + 1
  /\ fixed' = fixed \cup {cur}
  /\ UNCHANGED <<job, out, live, edges, review, todo, blocks, cur, pc>>

RemoveCallSlot ==
  /\ AtSlot("CALL")
  /\ IsFree(out, ins[cur][slot])
  /\ ins' = SlotRemoved(ins, cur, slot)
  /\ fixed' = fixed \cup {cur}
  /\ UNCHANGED <<job, out, live, edges, review, todo, blocks, walk, pc>>

(* Mutant: one slot more than there are in-edges is let through. *)
ExcessPhisOffByOne ==
  {op \in Op : IsPhi(op) /\ Len(ins[op]) > Len(edges[home[op]]) + 1}

ExcessPhis == {op \in Op : IsPhi(op) /\ Len(ins[op]) > Len(edges[home[op]])}

(* Repaired ops leave the review set, the rest is reported as an error.    *)
(* The audit then visits the phis with more slots than in-edges.           *)
FinishReview ==
  /\ pc = "review"
  /\ cur = NoOp
  /\ todo = {}
  /\ review' = review \ fixed
  /\ todo' = ExcessPhis
  /\ pc' = "audit"
  /\ UNCHANGED <<job, graph, edges, fixed, blocks, walk>>

-----------------------------------------------------------------------------
(* Inspector::auditMultiequals *)

AuditOp ==
  /\ pc = "audit"
  /\ cur = NoOp
  /\ \E op \in todo :
       /\ todo' = todo \ {op}
       /\ cur' = op
  /\ slot' = 1
  /\ UNCHANGED <<job, graph, edges, review, fixed, blocks, pc>>

(* Every self-reference of the phi is removed, however many are too many. *)
AuditSlot ==
  /\ pc = "audit"
  /\ cur # NoOp
  /\ slot <= Len(ins[cur])
  /\ IF ins[cur][slot] = out[cur]
     THEN ins' = SlotRemoved(ins, cur, slot) /\ UNCHANGED slot
     ELSE slot' = slot + 1 /\ UNCHANGED ins
  /\ UNCHANGED <<job, out, live, edges, review, fixed, todo, blocks, cur, pc>>

(* The last slot of the op under review or audit has been passed. *)
LeaveOp ==
  /\ pc \in {"review", "audit"}
  /\ cur # NoOp
  /\ slot > Len(ins[cur])
  /\ cur' = NoOp
  /\ UNCHANGED <<job, graph, edges, review, fixed, todo, blocks, slot, pc>>

FinishAudit ==
  /\ pc = "audit"
  /\ cur = NoOp
  /\ todo = {}
  /\ pc' = "done"
  /\ UNCHANGED <<job, graph, edges, review, fixed, todo, blocks, walk>>

-----------------------------------------------------------------------------
Next ==
  \/ DeleteListed \/ RemoveLoopEdge \/ TrimPhi \/ TrimDone
  \/ ScanBlock \/ DeleteUnread
  \/ StartReview \/ ReviewOp
  \/ KeepPhiSlot \/ DuplicatePhiSlot \/ AbortOnSlot \/ RemovePhiSlot
  \/ KeepCallSlot \/ RemoveCallSlot \/ FinishReview
  \/ AuditOp \/ AuditSlot \/ LeaveOp \/ FinishAudit

(* simplifyBlocks is one call on one thread: it runs until it returns. *)
Spec == Init /\ [][Next]_vars /\ WF_vars(Next)
-----------------------------------------------------------------------------
(* Properties. *)

Editing == {"delete", "trim", "purge"}
HasStaleRead(op) == \E vn \in Reads(ins, op) : IsStale(out, vn)

(* Until the review starts, descendentsToReview holds exactly the live ops *)
(* that read a Varnode whose writer was deleted: no reader is forgotten,   *)
(* and no deleted op is left in the set to be dereferenced later.          *)
ReviewExact ==
  pc \in Editing => review = {op \in live : HasStaleRead(op)}

(* No op is unlinked twice: what is queued for deletion, by the caller or  *)
(* by a scan for unread outputs, is still part of the function when its    *)
(* turn comes.                                                             *)
NoDoubleUnlink == pc \in {"delete", "purge"} => todo \subseteq live

(* The outputs found unread by a scan are still unread when their ops are  *)
(* deleted, one after the other: purging leaves no new stale reader.       *)
PurgeLeavesNoReader ==
  [][pc = "purge" /\ pc' = "purge" => review' \subseteq review]_vars

(* A reader of a deleted op is repaired or reported.  This is for every op *)
(* but a phi, whose repair may put the stale Varnode back.                 *)
NoSilentStaleRead ==
  pc = "done" =>
    \A op \in live : code[op] # "MULTIEQUAL" /\ HasStaleRead(op) => op \in review

(* A phi has a slot for each in-edge of its block.  One of the loop block  *)
(* that the loop does not change reads itself along the loop edge only.    *)
Fits(op) ==
  LET from == fn.edges[home[op]]
  IN /\ Len(fn.ins[op]) = Len(from)
     /\ home[op] = LoopBlock =>
          \A i \in DOMAIN from : fn.ins[op][i] = fn.out[op] <=> from[i] = LoopBlock

(* A phi that was as it should be, reported or not, does not read more     *)
(* Varnodes than its block has in-edges: the loop's slot has gone with the *)
(* loop edge, by whichever of the trim, the review and the audit.          *)
NoExcessSlots ==
  pc = "done" =>
    \A op \in live :
      code[op] = "MULTIEQUAL" /\ Fits(op) => Len(ins[op]) <= Len(edges[home[op]])

(* The inductive invariant these rest on.  What has been unlinked has no   *)
(* part in the function; what is queued by a scan has no reader; a call    *)
(* that has been repaired reads nothing free, up to the slot reached.      *)
GraphInv ==
  /\ IsSSA(out)
  /\ \A op \in Op \ live : ins[op] = <<>> /\ out[op] = NoVn

UnreadQueued == pc = "purge" => \A op \in todo : Readers(ins, out[op]) = {}

RepairedCalls ==
  /\ pc \in Editing => fixed = {} /\ cur = NoOp
  /\ \A op \in fixed : code[op] \in {"MULTIEQUAL", "CALL"}
  /\ pc = "review" =>
       /\ \A op \in fixed : code[op] = "CALL" /\ op # cur =>
            \A vn \in Reads(ins, op) : ~IsFree(out, vn)
       /\ cur # NoOp /\ code[cur] = "CALL" =>
            \A i \in 1..Len(ins[cur]) : i < slot => ~IsFree(out, ins[cur][i])
  /\ pc = "audit" =>
       /\ \A op \in todo : code[op] = "MULTIEQUAL"
       /\ cur # NoOp => code[cur] = "MULTIEQUAL"

StaleReadsListed ==
  pc \notin Editing =>
    \A op \in live : code[op] # "MULTIEQUAL" /\ HasStaleRead(op) => op \in review

IInv ==
  /\ TypeOK
  /\ GraphInv
  /\ ReviewExact
  /\ NoDoubleUnlink
  /\ UnreadQueued
  /\ RepairedCalls
  /\ StaleReadsListed

(* Whatever is done to a phi of two inputs, the Varnode that comes along   *)
(* an edge that remains stays on that edge, unless its writer was deleted. *)
EdgeInputsKept ==
  pc = "done" =>
    \A op \in live :
      code[op] = "MULTIEQUAL" /\ Fits(op) /\ Len(fn.ins[op]) = 2 /\ IsInjective(fn.edges[home[op]]) =>
        \A i \in DOMAIN edges[home[op]], j \in DOMAIN fn.ins[op] :
          /\ edges[home[op]][i] = fn.edges[home[op]][j]
          /\ ~IsStale(out, fn.ins[op][j])
          => ins[op][i] = fn.ins[op][j]

(* What is left undefined by deleting the ops handed over. *)
Undone == {fn.out[op] : op \in fn.del}

(* What was not handed over for deletion, and is read, is left as it was:  *)
(* a phi, or a call that reads what is undone, loses inputs at most, and   *)
(* nothing but what is undone may be read undefined.                       *)
RestKept ==
  pc = "done" =>
    /\ live \subseteq fn.live \ fn.del
    /\ \A op \in fn.live \ (fn.del \cup live) : fn.out[op] # NoVn
    /\ \A op \in live :
         /\ out[op] = fn.out[op]
         /\ Reads(ins, op) \subseteq Reads(fn.ins, op)
         /\ \A vn \in Reads(ins, op) : IsStale(out, vn) => vn \in Undone
         /\ \/ ins[op] = fn.ins[op]
            \/ code[op] = "MULTIEQUAL"
            \/ code[op] = "CALL" /\ Reads(fn.ins, op) \cap Undone # {}

(* The review takes parameters away from a call, never its target. *)
CallTargetKept ==
  \A op \in live :
    code[op] = "CALL" => ins[op] # <<>> /\ Head(ins[op]) = Head(fn.ins[op])

(* simplifyBlocks returns, or the build's assertions stop it. *)
Returns == <>(pc \in {"done", "aborted"})
=============================================================================
