---------------------------- MODULE VectorSeries ----------------------------
(***************************************************************************)
(* VectorSeries (vector_ops.cc): outside of loops, the vector loads that a *)
(* vsetivli governs and the stores of what they loaded become calls of the *)
(* builtins vector_memcpy and vector_memset.                               *)
(*                                                                         *)
(* The module follows one basic block through Ghidra's rule pool, which    *)
(* applies RuleVectorTransform to every vsetivli of the block until a pass *)
(* changes nothing.  A meaning of the block's ops as RISC-V instructions   *)
(* and library calls says whether the block still does what it did.        *)
(***************************************************************************)
EXTENDS Integers, Sequences, SequencesExt, FiniteSetsExt

CONSTANTS
  Programs,  \* blocks, records [code, elsewhere]: a sequence of ops, and the
             \* vector Varnodes that another block reads
  VecVn,     \* vector Varnodes
  NoVn,      \* the output of a load that Ghidra has lost track of
  Cells,     \* size of the memory, in bytes
  Limit      \* TRANSFORM_LIMIT_NONLOOPS

(* The fields that an op has, by its kind *)
OpType(c) ==
  /\ c.kind \in {"vset", "vseti"} => {c.avl, c.multiplier, c.elementSize} \subseteq Nat
  /\ c.kind \in {"load", "imm"} => c.v \in VecVn \cup {NoVn}
  /\ c.kind \in {"store", "other"} => c.v \in VecVn
  /\ c.kind = "other" => c.w \in VecVn
  /\ c.kind \in {"load", "store"} => c.p \in Nat \ {0} /\ c.width \in Nat
  /\ c.kind \in {"memcpy", "memset"} => c.dst \in Nat \ {0} /\ c.n \in Nat

(* c defines the vector Varnode v, c reads it *)
Writes(c, v) == \/ c.kind \in {"load", "imm"} /\ c.v = v
                \/ c.kind = "other" /\ c.w = v
Reads(c, v) == c.kind \in {"store", "other"} /\ c.v = v

(* SSA form: a Varnode has one defining op, and it comes before its readers. *)
SSA(ops) ==
  \A i, j \in DOMAIN ops : \A v \in VecVn :
    Writes(ops[i], v) => /\ Writes(ops[j], v) => i = j
                         /\ Reads(ops[j], v) => i < j

ASSUME SeriesAssumption ==
  /\ NoVn \notin VecVn
  /\ Cells \in Nat /\ Limit \in Nat
  /\ \A p \in Programs :
       /\ p.elsewhere \subseteq VecVn
       /\ p.code \in Seq(ToSet(p.code)) /\ p.code # <<>>
       /\ \A i \in DOMAIN p.code : OpType(p.code[i])
       /\ SSA(p.code)

VARIABLES
  prog,        \* the program, as it was
  code,        \* the PcodeOps, new ones behind those of the program
  block,       \* the ops of the block, in order
  trigger,     \* position in prog.code of the op the pool has come to
  numBytes,
  loadSet,     \* loads that match has not come to
  load,        \* loadOp, 0 if there is none
  visited,     \* descendants of load that match has looked at
  pcodesToBeBuilt,
  deleteSet,
  numTransformedStores,
  count,       \* transformCountNonLoop
  performed,   \* has a rule changed something in this pass of the pool
  pc

queues == <<loadSet, load, visited, pcodesToBeBuilt, deleteSet>>
vars == <<prog, code, block, trigger, numBytes, queues, numTransformedStores,
          count, performed, pc>>

OpId == 1..Len(code)
Is(op, kinds) == code[op].kind \in kinds
NumOps == Len(prog.code)

(* The ops of the block that read a vector Varnode, its descend list as    *)
(* far as it lies in the block; the list's order is not the program's.     *)
ReadersIn(b, v) == {op \in ToSet(b) : Is(op, {"store", "other"}) /\ code[op].v = v}

HasReaders(b, v) == ReadersIn(b, v) # {} \/ v \in prog.elsewhere

PositionOf(b, op) == CHOOSE i \in DOMAIN b : b[i] = op

TypeOK ==
  /\ prog.elsewhere \in SUBSET VecVn
  /\ block \in Seq(OpId)
  /\ trigger \in 1..(NumOps + 1)
  /\ numBytes \in Nat
  /\ loadSet \in SUBSET OpId
  /\ load \in OpId \cup {0}
  /\ visited \in SUBSET OpId
  /\ pcodesToBeBuilt \in Seq((OpId \ 1..NumOps) \X (1..NumOps))
  /\ deleteSet \in Seq(1..NumOps)
  /\ numTransformedStores \in Nat
  /\ count \in Nat
  /\ performed \in BOOLEAN
  /\ pc \in {"pool", "loads", "readers", "build", "delete", "settled"}

Init ==
  /\ prog \in Programs
  /\ code = prog.code
  /\ block = [i \in 1..Len(prog.code) |-> i]
  /\ trigger = 1
  /\ numBytes = 0
  /\ loadSet = {} /\ load = 0 /\ visited = {}
  /\ pcodesToBeBuilt = <<>> /\ deleteSet = <<>>
  /\ numTransformedStores = 0
  /\ count = 0
  /\ performed = FALSE
  /\ pc = "pool"

-----------------------------------------------------------------------------
(* The constructor *)

(* Mutant: another vset instruction does not end the scan. *)
GovernedToEnd(op) ==
  {o \in ToSet(block) : Is(o, {"load", "imm"}) /\ PositionOf(block, o) > PositionOf(block, op)}

(* The loads behind op, up to the next vset instruction. *)
Governed(op) ==
  {o \in ToSet(block) :
     /\ Is(o, {"load", "imm"})
     /\ PositionOf(block, o) > PositionOf(block, op)
     /\ \A i \in PositionOf(block, op) + 1..PositionOf(block, o) : ~Is(block[i], {"vset", "vseti"})}

(* The pool's next op, if RuleVectorTransform::applyOp hands it to the     *)
(* series matcher; the limit stops a series from being collected.          *)
ApplyVseti ==
  /\ pc = "pool"
  /\ trigger <= NumOps
  /\ Is(trigger, {"vseti"})
  /\ IF count >= Limit
     THEN loadSet' = {} /\ UNCHANGED numBytes
     ELSE /\ loadSet' = Governed(trigger)
          /\ numBytes' = code[trigger].avl * code[trigger].multiplier * code[trigger].elementSize
  /\ numTransformedStores' = 0
  /\ pc' = "loads"
  /\ UNCHANGED <<prog, code, block, trigger, load, visited, pcodesToBeBuilt, deleteSet,
                 count, performed>>

PassOver ==
  /\ pc = "pool"
  /\ trigger <= NumOps
  /\ ~Is(trigger, {"vseti"})
  /\ trigger' = trigger + 1
  /\ UNCHANGED <<prog, code, block, numBytes, queues, numTransformedStores, count,
                 performed, pc>>

(* The pool begins again when a rule has reported a change. *)
PassDone ==
  /\ pc = "pool"
  /\ trigger > NumOps
  /\ IF performed
     THEN trigger' = 1 /\ UNCHANGED pc
     ELSE pc' = "settled" /\ UNCHANGED trigger
  /\ performed' = FALSE
  /\ UNCHANGED <<prog, code, block, numBytes, queues, numTransformedStores, count>>

-----------------------------------------------------------------------------
(* match *)

(* The loads come in the order of the block. *)
NextLoad ==
  /\ pc = "loads"
  /\ \E op \in loadSet :
       /\ \A o \in loadSet : PositionOf(block, op) <= PositionOf(block, o)
       /\ loadSet' = loadSet \ {op}
       /\ IF code[op].v = NoVn
          THEN UNCHANGED <<load, visited, pc>>
          ELSE load' = op /\ visited' = {} /\ pc' = "readers"
  /\ UNCHANGED <<prog, code, block, trigger, numBytes, pcodesToBeBuilt, deleteSet,
                 numTransformedStores, count, performed>>

Unvisited == ReadersIn(block, code[load].v) \ visited

(* The call that takes a store's place: insertVoidCallOther *)
Builtin(store) ==
  IF Is(load, {"imm"})
  THEN [kind |-> "memset", dst |-> code[store].p, x |-> code[load].x, n |-> numBytes]
  ELSE [kind |-> "memcpy", dst |-> code[store].p, src |-> code[load].p, n |-> numBytes]

(* Mutant: the new op is queued for deletion, not the old. *)
TransformStoreDeletingNew ==
  /\ pc = "readers"
  /\ \E op \in Unvisited :
       /\ Is(op, {"store"})
       /\ visited' = visited \cup {op}
       /\ code' = Append(code, Builtin(op))
       /\ pcodesToBeBuilt' = Append(pcodesToBeBuilt, <<Len(code) + 1, op>>)
       /\ deleteSet' = Append(deleteSet, Len(code) + 1)
  /\ numTransformedStores' = numTransformedStores + 1
  /\ count' = count + 1
  /\ UNCHANGED <<prog, block, trigger, numBytes, loadSet, load, performed, pc>>

TransformStore ==
  /\ pc = "readers"
  /\ \E op \in Unvisited :
       /\ Is(op, {"store"})
       /\ visited' = visited \cup {op}
       /\ code' = Append(code, Builtin(op))
       /\ pcodesToBeBuilt' = Append(pcodesToBeBuilt, <<Len(code) + 1, op>>)
       /\ deleteSet' = Append(deleteSet, op)
  /\ numTransformedStores' = numTransformedStores + 1
  /\ count' = count + 1
  /\ UNCHANGED <<prog, block, trigger, numBytes, loadSet, load, performed, pc>>

(* The search ends at the first reader that is not a store: the load       *)
(* cannot go.                                                              *)
MeetOtherReader ==
  /\ pc = "readers"
  /\ \E op \in Unvisited : Is(op, {"other"})
  /\ pc' = "build"
  /\ UNCHANGED <<prog, code, block, trigger, numBytes, queues, numTransformedStores, count, performed>>

ReadersDone ==
  /\ pc = "readers"
  /\ Unvisited = {}
  /\ deleteSet' = Append(deleteSet, load)
  /\ pc' = "build"
  /\ UNCHANGED <<prog, code, block, trigger, numBytes, loadSet, load, visited,
                 pcodesToBeBuilt, numTransformedStores, count, performed>>

(* Mutant: the calls are put where the load was. *)
InsertBeforeLoad(b, pair) == InsertAt(b, PositionOf(b, load), pair[1])

(* Funcdata::opInsertBefore *)
InsertBefore(b, pair) == InsertAt(b, PositionOf(b, pair[2]), pair[1])

BuildNext ==
  /\ pc = "build"
  /\ pcodesToBeBuilt # <<>>
  /\ block' = InsertBefore(block, Head(pcodesToBeBuilt))
  /\ pcodesToBeBuilt' = Tail(pcodesToBeBuilt)
  /\ UNCHANGED <<prog, code, trigger, numBytes, loadSet, load, visited, deleteSet,
                 numTransformedStores, count, performed, pc>>

BuildDone ==
  /\ pc = "build"
  /\ pcodesToBeBuilt = <<>>
  /\ load' = 0
  /\ pc' = "loads"
  /\ UNCHANGED <<prog, code, block, trigger, numBytes, loadSet, visited, pcodesToBeBuilt,
                 deleteSet, numTransformedStores, count, performed>>

LoadsDone ==
  /\ pc = "loads"
  /\ loadSet = {}
  /\ pc' = "delete"
  /\ UNCHANGED <<prog, code, block, trigger, numBytes, queues, numTransformedStores, count, performed>>

(* Mutant: other blocks are not asked. *)
DeletableHere(op) ==
  Is(op, {"store"}) \/ ReadersIn(block, code[op].v) = {}

(* A store has no output; a load must have lost all readers. *)
Deletable(op) == Is(op, {"store"}) \/ ~HasReaders(block, code[op].v)

DeleteNext ==
  /\ pc = "delete"
  /\ deleteSet # <<>>
  /\ deleteSet' = Tail(deleteSet)
  /\ block' = IF Deletable(Head(deleteSet)) THEN RemoveFirst(block, Head(deleteSet)) ELSE block
  /\ UNCHANGED <<prog, code, trigger, numBytes, loadSet, load, visited, pcodesToBeBuilt,
                 numTransformedStores, count, performed, pc>>

(* Mutant: a change is reported whenever a load was looked at. *)
ReturnAlwaysPerformed ==
  /\ pc = "delete"
  /\ deleteSet = <<>>
  /\ performed' = TRUE
  /\ trigger' = trigger + 1
  /\ pc' = "pool"
  /\ UNCHANGED <<prog, code, block, numBytes, queues, numTransformedStores, count>>

Return ==
  /\ pc = "delete"
  /\ deleteSet = <<>>
  /\ performed' = (performed \/ numTransformedStores # 0)
  /\ trigger' = trigger + 1
  /\ pc' = "pool"
  /\ UNCHANGED <<prog, code, block, numBytes, queues, numTransformedStores, count>>

Pool == ApplyVseti \/ PassOver \/ PassDone
Match == \/ NextLoad \/ TransformStore \/ MeetOtherReader \/ ReadersDone
         \/ BuildNext \/ BuildDone \/ LoadsDone \/ DeleteNext \/ Return

Next == Pool \/ Match

(* One thread: the pool runs until it has settled. *)
Spec == Init /\ [][Next]_vars /\ WF_vars(Next)
-----------------------------------------------------------------------------
(* The meaning of a block: the memory it leaves and the vector values it   *)
(* hands to ops that are not stores.  Memory cells begin with values of    *)
(* their own, and a register's bytes beyond those loaded are unknown.  A   *)
(* load or store moves n elements of the width that its opcode names, an   *)
(* immediate fills n of the size that is set.                              *)

Unknown == 0
Bytes == 1..Cells

(* the n cells from p on *)
Span(p, n) == p..(p + n - 1)

Start == [mem  |-> [a \in Bytes |-> 10 * a],
          reg  |-> [v \in VecVn |-> [i \in Bytes |-> Unknown]],
          n    |-> 0, size |-> 1,
          seen |-> [i \in 1..NumOps |-> <<>>]]

(* the memory with the first n bytes of data stored at p *)
Stored(mem, p, n, data) ==
  [a \in Bytes |-> IF a \in Span(p, n) THEN data[a - p + 1] ELSE mem[a]]

(* the n bytes at p *)
At(mem, p, n) ==
  [i \in Bytes |-> IF i <= n /\ p + i - 1 \in Bytes THEN mem[p + i - 1] ELSE Unknown]

(* vmv.v.i writes whole elements, little end first: x and then zeros. *)
Elements(x, size, n) ==
  [i \in Bytes |-> IF i > n THEN Unknown ELSE IF (i - 1) % size = 0 THEN x ELSE 0]

(* what some other vector operation makes of its operand *)
Operated(data) == [i \in Bytes |-> data[i] + 1]

Run(s, op) ==
  LET c == code[op]
  IN CASE c.kind \in {"vset", "vseti"} ->
            [s EXCEPT !.n = c.avl, !.size = c.elementSize]
       [] c.kind = "load" /\ c.v # NoVn ->
            [s EXCEPT !.reg[c.v] = At(s.mem, c.p, s.n * c.width)]
       [] c.kind = "imm" /\ c.v # NoVn ->
            [s EXCEPT !.reg[c.v] = Elements(c.x, s.size, s.n * s.size)]
       [] c.kind = "store" ->
            [s EXCEPT !.mem = Stored(s.mem, c.p, s.n * c.width, s.reg[c.v])]
       [] c.kind = "other" -> [s EXCEPT !.seen[op] = s.reg[c.v],
                                        !.reg[c.w] = Operated(s.reg[c.v])]
       [] c.kind = "memcpy" ->
            [s EXCEPT !.mem = Stored(s.mem, c.dst, c.n, At(s.mem, c.src, c.n))]
       [] c.kind = "memset" ->
            [s EXCEPT !.mem = Stored(s.mem, c.dst, c.n, [i \in Bytes |-> c.x])]
       [] OTHER -> s

(* the states a run of b goes through, from 0 *)
States(b) ==
  LET After[i \in 0..Len(b)] == IF i = 0 THEN Start ELSE Run(After[i - 1], b[i])
  IN After

Meaning(b) ==
  LET end == States(b)[Len(b)]
  IN <<end.mem, end.seen, [v \in prog.elsewhere |-> end.reg[v]]>>

Original == [i \in 1..NumOps |-> i]

(* The vset instruction that i runs under, 0 if there is none in the block *)
SettingOf(i) ==
  LET sets == {j \in 1..i : Is(j, {"vset", "vseti"})}
  IN IF sets = {} THEN 0 ELSE Max(sets)

(* The cells that an op writes when the vector length is set to n elements *)
Target(op, n) ==
  IF Is(op, {"store"}) THEN Span(code[op].p, n * code[op].width)
  ELSE Span(code[op].dst, code[op].n)

(* What the transform takes for granted of a load under a vsetivli and a   *)
(* store of its register: the store runs under the same vsetivli, which    *)
(* uses one register; both move elements of the size that it sets; an      *)
(* immediate's bytes are all alike; and nothing is stored over the source  *)
(* in between.                                                             *)
PlainPair(i, j) ==
  LET set == code[SettingOf(i)]
  IN /\ SettingOf(j) = SettingOf(i)
     /\ set.multiplier = 1
     /\ Is(i, {"load"}) => code[i].width = set.elementSize
     /\ code[j].width = set.elementSize
     /\ Is(i, {"imm"}) => set.elementSize = 1 \/ code[i].x = 0
     /\ Is(i, {"load"}) =>
          \A k \in (i + 1)..(j - 1) :
            Is(k, {"store", "memcpy", "memset"}) =>
              Span(code[i].p, set.avl * set.elementSize) \cap Target(k, set.avl) = {}

Plain ==
  \A i, j \in 1..NumOps :
    /\ Is(i, {"load", "imm"}) /\ Is(j, {"store"}) /\ code[i].v = code[j].v
    /\ SettingOf(i) # 0
    /\ Is(SettingOf(i), {"vseti"})
    => PlainPair(i, j)
-----------------------------------------------------------------------------
(* Properties. *)

(* Between two rules of the pool, the block has the effect on memory that  *)
(* it had, and ops that remain see the same vector values, provided that   *)
(* the loads and stores are as plain as the transform takes them to be.    *)
SameEffectWhenPlain ==
  pc \in {"pool", "settled"} /\ Plain => Meaning(block) = Meaning(Original)

(* No op, here or in another block, reads a register whose load is gone.   *)
ReadLoadsKept ==
  \A i \in 1..NumOps :
    Is(i, {"load", "imm"}) /\ HasReaders(block, code[i].v) => i \in ToSet(block)

(* A store is replaced by one call where it was: what writes memory, here  *)
(* at the positions Writing, does so in the order and at the addresses     *)
(* that the program had, nothing twice and nothing left out.               *)
Writing(b) == {i \in DOMAIN b : Is(b[i], {"store", "memcpy", "memset"})}

WriteAddress(op) == IF Is(op, {"store"}) THEN code[op].p ELSE code[op].dst

WritesInOrder ==
  pc \in {"pool", "settled"} =>
    \E was \in Bijection(Writing(block), Writing(Original)) :
      \A i \in Writing(block) :
        /\ WriteAddress(block[i]) = WriteAddress(Original[was[i]])
        /\ \A j \in Writing(block) : i < j => was[i] < was[j]

(* The rule pool comes to rest. *)
Settles == <>(pc = "settled")

(* The calls that replace loads and stores are what these implemented.     *)
SameEffect == pc \in {"pool", "settled"} => Meaning(block) = Meaning(Original)
=============================================================================
