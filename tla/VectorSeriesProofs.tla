-------------------------- MODULE VectorSeriesProofs --------------------------
(***************************************************************************)
(* What VectorSeries guarantees for every block, whatever its loads,       *)
(* stores and vset instructions are: no load is deleted that an op, in the *)
(* block or in another one, still reads, each call writes where and in     *)
(* which order the store did whose place it takes, and a block of plain    *)
(* loads and stores has the effect that it had.                            *)
(***************************************************************************)
EXTENDS VectorSeries, SequenceFacts

-----------------------------------------------------------------------------
(* The inductive invariant. *)

Builtins == {"memset", "memcpy"}

(* The program's ops stay as they are; what is added are builtin calls.    *)
CodeInv ==
  /\ prog \in Programs
  /\ \E S : code \in Seq(S)
  /\ Len(prog.code) \in Nat /\ Len(code) \in Nat /\ Len(prog.code) <= Len(code)
  /\ \A i \in 1..NumOps : code[i] = prog.code[i]
  /\ \A i \in OpId \ 1..NumOps : Is(i, Builtins)

(* Loads collected are ops of the program, and a call waits to be put in   *)
(* front of a store that is still in the block.                            *)
QueueInv ==
  /\ loadSet \subseteq 1..NumOps
  /\ load \in 0..NumOps
  /\ pc \in {"readers", "build"} => load # 0
  /\ \A pair \in ToSet(pcodesToBeBuilt) : pair[2] \in ToSet(block)
  /\ pc \notin {"readers", "build"} => pcodesToBeBuilt = <<>>
  /\ pc \notin {"pool", "settled"} => trigger <= NumOps

IInv == TypeOK /\ CodeInv /\ QueueInv /\ ReadLoadsKept

-----------------------------------------------------------------------------
(* A program is a sequence of ops. *)
LEMMA ProgramType ==
  ASSUME NEW p \in Programs
  PROVE  /\ p.code \in Seq(ToSet(p.code)) /\ Len(p.code) \in Nat
         /\ DOMAIN p.code = 1..Len(p.code)
         /\ p.elsewhere \in SUBSET VecVn
<1>1. p.code \in Seq(ToSet(p.code)) /\ p.elsewhere \in SUBSET VecVn
  BY SeriesAssumption
<1> QED BY <1>1, LenProperties

(* All ops are in the block, the loads among them. *)
LEMMA InitInv == Init => IInv
<1> SUFFICES ASSUME Init PROVE IInv
  OBVIOUS
<1> DEFINE n == Len(prog.code)
<1>1. /\ prog \in Programs /\ code = prog.code /\ code \in Seq(ToSet(prog.code))
      /\ n \in Nat /\ n >= 1 /\ prog.elsewhere \in SUBSET VecVn
      /\ block = [i \in 1..n |-> i] /\ ToSet(<<>>) = {}
  <2>1. prog \in Programs /\ code = prog.code /\ block = [i \in 1..n |-> i]
    BY DEF Init
  <2>2. /\ prog.code \in Seq(ToSet(prog.code)) /\ n \in Nat
        /\ prog.elsewhere \in SUBSET VecVn /\ prog.code # <<>>
    BY <2>1, ProgramType, SeriesAssumption
  <2>3. n >= 1
    BY <2>2, EmptySeq
  <2>4. ToSet(<<>>) = {}
    BY DEF ToSet
  <2> QED BY <2>1, <2>2, <2>3, <2>4
<1>2. block \in Seq(1..n) /\ ToSet(block) = 1..n
  <2>1. block \in [1..n -> 1..n]
    BY <1>1
  <2>2. block \in Seq(1..n)
    BY <1>1, <2>1, SeqDef
  <2> QED BY <1>1, <2>2 DEF ToSet
<1>3. TypeOK
  <2>1. 1 \in 1..(NumOps + 1) /\ OpId = 1..n /\ NumOps = n
    BY <1>1 DEF NumOps, OpId
  <2>2. <<>> \in Seq((OpId \ 1..NumOps) \X (1..NumOps)) /\ <<>> \in Seq(1..NumOps)
    OBVIOUS
  <2>3. /\ trigger = 1 /\ numBytes = 0 /\ loadSet = {} /\ load = 0 /\ visited = {}
        /\ pcodesToBeBuilt = <<>> /\ deleteSet = <<>> /\ numTransformedStores = 0
        /\ count = 0 /\ performed = FALSE /\ pc = "pool"
    BY DEF Init
  <2> QED BY <1>1, <1>2, <2>1, <2>2, <2>3 DEF TypeOK
<1>4. CodeInv
  BY <1>1 DEF CodeInv, NumOps, OpId
<1>5. QueueInv
  BY <1>1 DEF Init, QueueInv, NumOps
<1>6. ReadLoadsKept
  BY <1>1, <1>2 DEF ReadLoadsKept, NumOps
<1> QED BY <1>3, <1>4, <1>5, <1>6 DEF IInv

(* The ops of the program, with what SeriesAssumption says of them *)
LEMMA ProgramOps ==
  ASSUME IInv
  PROVE  /\ NumOps \in Nat /\ Cells \in Nat /\ NoVn \notin VecVn
         /\ prog.elsewhere \subseteq VecVn
         /\ \A i \in 1..NumOps : OpType(code[i])
         /\ \A i, j \in 1..NumOps : \A v \in VecVn :
              Writes(code[i], v) => /\ Writes(code[j], v) => i = j
                                    /\ Reads(code[j], v) => i < j
<1>1. prog \in Programs /\ NumOps \in Nat /\ \A i \in 1..NumOps : code[i] = prog.code[i]
  BY DEF IInv, CodeInv, NumOps
<1>2. DOMAIN prog.code = 1..NumOps
  BY <1>1, ProgramType DEF NumOps
<1>3. /\ Cells \in Nat /\ NoVn \notin VecVn /\ prog.elsewhere \subseteq VecVn
      /\ \A i \in DOMAIN prog.code : OpType(prog.code[i])
      /\ SSA(prog.code)
  BY <1>1, SeriesAssumption
<1>4. \A i \in 1..NumOps : OpType(code[i])
  BY <1>1, <1>2, <1>3
<1>5. \A i, j \in 1..NumOps : \A v \in VecVn :
        Writes(code[i], v) => /\ Writes(code[j], v) => i = j
                              /\ Reads(code[j], v) => i < j
  BY <1>1, <1>2, <1>3 DEF SSA
<1> QED BY <1>1, <1>3, <1>4, <1>5

(* Most steps neither change the ops nor the block. *)
LEMMA SameBlock ==
  ASSUME IInv, UNCHANGED <<prog, code, block>>
  PROVE  CodeInv' /\ ReadLoadsKept' /\ OpId' = OpId /\ NumOps' = NumOps
BY DEF IInv, CodeInv, ReadLoadsKept, OpId, NumOps, Is, HasReaders, ReadersIn

(* The constructor collects ops of the program: builtin calls are no loads. *)
LEMMA PoolStep == IInv /\ Pool => IInv'
<1> SUFFICES ASSUME IInv, Pool PROVE IInv'
  OBVIOUS
<1>1. /\ UNCHANGED <<prog, code, block, load, visited, pcodesToBeBuilt, deleteSet, count>>
      /\ pc = "pool" /\ pc' \in {"pool", "loads", "settled"}
  BY DEF Pool, ApplyVseti, PassOver, PassDone, queues
<1>2. CodeInv' /\ ReadLoadsKept' /\ OpId' = OpId /\ NumOps' = NumOps /\ NumOps \in Nat
  BY <1>1, SameBlock DEF IInv, CodeInv, NumOps
<1>3. loadSet' \subseteq 1..NumOps /\ loadSet' \subseteq OpId
  <2>1. loadSet \subseteq 1..NumOps /\ loadSet \subseteq OpId /\ block \in Seq(OpId)
    BY DEF IInv, TypeOK, QueueInv
  <2>2. ASSUME ApplyVseti, NEW o \in Governed(trigger)
        PROVE  o \in 1..NumOps /\ o \in OpId
    <3>1. o \in ToSet(block) /\ Is(o, {"load", "imm"})
      BY <2>2 DEF Governed
    <3>2. o \in OpId
      BY <2>1, <3>1, ElementsOf
    <3> QED BY <3>1, <3>2 DEF IInv, CodeInv, Is, Builtins
  <2> QED BY <2>1, <2>2 DEF Pool, ApplyVseti, PassOver, PassDone, queues
<1>4. trigger' \in 1..(NumOps + 1) /\ numBytes' \in Nat
  <2>1. CASE ApplyVseti
    <3>1. trigger \in 1..NumOps /\ Is(trigger, {"vseti"}) /\ trigger' = trigger
      BY <1>2, <2>1 DEF ApplyVseti, IInv, TypeOK
    <3>2. code[trigger] = prog.code[trigger] /\ prog \in Programs
      BY <3>1 DEF IInv, CodeInv
    <3>3. trigger \in DOMAIN prog.code
      BY <3>1, <3>2, ProgramType DEF NumOps
    <3>4. code[trigger].avl * code[trigger].multiplier * code[trigger].elementSize \in Nat
      <4>1. OpType(code[trigger]) /\ code[trigger].kind = "vseti"
        BY <3>1, <3>2, <3>3, SeriesAssumption DEF Is
      <4>2. /\ code[trigger].avl \in Nat /\ code[trigger].multiplier \in Nat
            /\ code[trigger].elementSize \in Nat
        BY <4>1 DEF OpType
      <4> QED BY <4>2
    <3> QED BY <2>1, <3>1, <3>4 DEF ApplyVseti, IInv, TypeOK
  <2>2. CASE PassOver
    BY <1>2, <2>2 DEF PassOver, IInv, TypeOK
  <2>3. CASE PassDone
    BY <1>2, <2>3 DEF PassDone, IInv, TypeOK
  <2> QED BY <2>1, <2>2, <2>3 DEF Pool
<1>5. numTransformedStores' \in Nat /\ performed' \in BOOLEAN
  <2>1. numTransformedStores' \in {numTransformedStores, 0} /\ performed' \in {performed, FALSE}
    BY DEF Pool, ApplyVseti, PassOver, PassDone
  <2>2. numTransformedStores \in Nat /\ performed \in BOOLEAN
    BY DEF IInv, TypeOK
  <2>3. numTransformedStores' \in Nat
    BY <2>1, <2>2
  <2>4. performed' \in BOOLEAN
    BY <2>1, <2>2, Zenon
  <2> QED BY <2>3, <2>4
<1>6. TypeOK'
  BY <1>1, <1>2, <1>3, <1>4, <1>5 DEF IInv, TypeOK
<1>7. QueueInv'
  <2>1. pc' = "loads" => trigger' <= NumOps
    BY <1>1 DEF Pool, ApplyVseti, PassOver, PassDone
  <2> QED BY <1>1, <1>2, <1>3, <2>1 DEF IInv, QueueInv
<1> QED BY <1>2, <1>6, <1>7 DEF IInv

(* match takes one of the loads collected. *)
LEMMA NextLoadStep == IInv /\ NextLoad => IInv'
<1> SUFFICES ASSUME IInv, NextLoad PROVE IInv'
  OBVIOUS
<1>1. /\ UNCHANGED <<prog, code, block, trigger, numBytes, pcodesToBeBuilt, deleteSet,
                     numTransformedStores, count, performed>>
      /\ pc = "loads"
  BY DEF NextLoad
<1>2. PICK op \in loadSet :
        /\ loadSet' = loadSet \ {op}
        /\ \/ UNCHANGED <<load, visited, pc>>
           \/ load' = op /\ visited' = {} /\ pc' = "readers"
  BY DEF NextLoad
<1>3. CodeInv' /\ ReadLoadsKept' /\ OpId' = OpId /\ NumOps' = NumOps
  BY <1>1, SameBlock
<1>4. op \in 1..NumOps /\ op \in OpId /\ op # 0 /\ NumOps \in Nat
  BY DEF IInv, TypeOK, QueueInv, CodeInv, NumOps
<1>5. TypeOK'
  BY <1>1, <1>2, <1>3, <1>4 DEF IInv, TypeOK
<1>6. QueueInv'
  BY <1>1, <1>2, <1>3, <1>4 DEF IInv, QueueInv
<1> QED BY <1>3, <1>5, <1>6 DEF IInv

(* The new call is no op of the block yet, and reads no register. *)
LEMMA TransformStep == IInv /\ TransformStore => IInv'
<1> SUFFICES ASSUME IInv, TransformStore PROVE IInv'
  OBVIOUS
<1> DEFINE n == Len(code)
<1>1. /\ UNCHANGED <<prog, block, trigger, numBytes, loadSet, load, performed, pc>>
      /\ pc = "readers"
      /\ numTransformedStores' = numTransformedStores + 1 /\ count' = count + 1
  BY DEF TransformStore
<1>2. PICK op \in Unvisited :
        /\ Is(op, {"store"})
        /\ visited' = visited \cup {op}
        /\ code' = Append(code, Builtin(op))
        /\ pcodesToBeBuilt' = Append(pcodesToBeBuilt, <<n + 1, op>>)
        /\ deleteSet' = Append(deleteSet, op)
  BY DEF TransformStore
<1>3. /\ NumOps \in Nat /\ n \in Nat /\ NumOps <= n /\ block \in Seq(OpId) /\ OpId = 1..n
      /\ NumOps' = NumOps
  BY <1>1 DEF IInv, TypeOK, CodeInv, OpId, NumOps
<1>4. op \in ToSet(block) /\ op \in OpId /\ op \in 1..NumOps
  <2>1. op \in ToSet(block)
    BY <1>2 DEF Unvisited, ReadersIn
  <2>2. op \in OpId
    BY <1>3, <2>1, ElementsOf
  <2> QED BY <1>2, <2>1, <2>2 DEF IInv, CodeInv, Is, Builtins
<1>5. /\ \E S : code' \in Seq(S)
      /\ Len(code') = n + 1 /\ code'[n + 1] = Builtin(op)
      /\ \A i \in 1..n : code'[i] = code[i]
  <2>1. PICK S : code \in Seq(S)
    BY DEF IInv, CodeInv
  <2>2. code \in Seq(S \cup {Builtin(op)})
    BY <2>1, SeqMonotonic
  <2> QED BY <1>2, <2>2, AppendProperties
<1>6. /\ OpId' = 1..(n + 1) /\ OpId \subseteq OpId' /\ n + 1 \in OpId'
      /\ OpId' \ 1..NumOps = (OpId \ 1..NumOps) \cup {n + 1}
  BY <1>3, <1>5 DEF OpId
<1>7. Builtin(op).kind \in Builtins
  BY DEF Builtin, Builtins
<1>8. CodeInv'
  <2>1. \A i \in 1..NumOps : code'[i] = prog'.code[i]
    BY <1>1, <1>3, <1>5 DEF IInv, CodeInv
  <2>2. \A i \in OpId' \ 1..NumOps : code'[i].kind \in Builtins
    BY <1>3, <1>5, <1>6, <1>7 DEF IInv, CodeInv, Is
  <2>3. NumOps' = NumOps /\ Len(prog'.code) = NumOps
    BY <1>1 DEF NumOps
  <2> QED BY <1>1, <1>3, <1>5, <2>1, <2>2, <2>3 DEF IInv, CodeInv, Is
<1>9. TypeOK'
  <2>1. block \in Seq(OpId')
    BY <1>3, <1>6, SeqMonotonic
  <2>2. pcodesToBeBuilt' \in Seq((OpId' \ 1..NumOps) \X (1..NumOps))
    <3> DEFINE P == (OpId' \ 1..NumOps) \X (1..NumOps)
    <3>1. (OpId \ 1..NumOps) \X (1..NumOps) \subseteq P
      BY <1>6
    <3>2. pcodesToBeBuilt \in Seq(P)
      BY <3>1, SeqMonotonic DEF IInv, TypeOK
    <3>3. n + 1 \notin 1..NumOps
      BY <1>3
    <3>4. <<n + 1, op>> \in P
      BY <1>4, <1>6, <3>3
    <3> HIDE DEF P
    <3>5. Append(pcodesToBeBuilt, <<n + 1, op>>) \in Seq(P)
      BY <3>2, <3>4, AppendProperties
    <3> QED BY <1>2, <3>5 DEF P
  <2>3. deleteSet' \in Seq(1..NumOps)
    BY <1>2, <1>4, AppendProperties DEF IInv, TypeOK
  <2>4. visited' \in SUBSET OpId' /\ loadSet' \in SUBSET OpId' /\ load' \in OpId' \cup {0}
    BY <1>1, <1>2, <1>4, <1>6 DEF IInv, TypeOK
  <2>5. numTransformedStores' \in Nat /\ count' \in Nat
    BY <1>1 DEF IInv, TypeOK
  <2> QED BY <1>1, <1>3, <2>1, <2>2, <2>3, <2>4, <2>5 DEF IInv, TypeOK
<1>10. QueueInv'
  <2>1. ToSet(pcodesToBeBuilt') = ToSet(pcodesToBeBuilt) \cup {<<n + 1, op>>}
    BY <1>2 DEF ToSet
  <2>2. \A pair \in ToSet(pcodesToBeBuilt') : pair[2] \in ToSet(block')
    BY <1>1, <1>4, <2>1 DEF IInv, QueueInv
  <2> QED BY <1>1, <1>3, <2>2 DEF IInv, QueueInv
<1>11. ReadLoadsKept'
  <2>1. \A o \in ToSet(block) : code'[o] = code[o]
    BY <1>3, <1>5, ElementsOf
  <2>2. \A i \in 1..NumOps : code'[i] = code[i]
    BY <1>3, <1>5
  <2>3. \A v : HasReaders(block, v)' => HasReaders(block, v)
    BY <1>1, <2>1 DEF HasReaders, ReadersIn, Is
  <2> QED BY <1>1, <1>3, <2>2, <2>3 DEF IInv, ReadLoadsKept, Is
<1> QED BY <1>8, <1>9, <1>10, <1>11 DEF IInv

(* The load of which all readers are stores waits for deletion. *)
LEMMA ReadersStep == IInv /\ (MeetOtherReader \/ ReadersDone) => IInv'
<1> SUFFICES ASSUME IInv, MeetOtherReader \/ ReadersDone PROVE IInv'
  OBVIOUS
<1>1. /\ UNCHANGED <<prog, code, block, trigger, numBytes, loadSet, load, visited,
                     pcodesToBeBuilt, numTransformedStores, count, performed>>
      /\ pc = "readers" /\ pc' = "build"
  BY DEF MeetOtherReader, ReadersDone, queues
<1>2. CodeInv' /\ ReadLoadsKept' /\ OpId' = OpId /\ NumOps' = NumOps /\ NumOps \in Nat
  BY <1>1, SameBlock DEF IInv, CodeInv, NumOps
<1>3. load \in 1..NumOps
  BY <1>1, <1>2 DEF IInv, QueueInv
<1>4. deleteSet' \in Seq(1..NumOps)
  <2>1. deleteSet \in Seq(1..NumOps)
    BY DEF IInv, TypeOK
  <2>2. deleteSet' = deleteSet \/ deleteSet' = Append(deleteSet, load)
    BY DEF MeetOtherReader, ReadersDone, queues
  <2>3. Append(deleteSet, load) \in Seq(1..NumOps)
    BY <1>3, <2>1, AppendProperties
  <2> QED BY <2>1, <2>2, <2>3
<1>5. TypeOK'
  BY <1>1, <1>2, <1>4 DEF IInv, TypeOK
<1>6. QueueInv'
  BY <1>1, <1>2 DEF IInv, QueueInv
<1> QED BY <1>2, <1>5, <1>6 DEF IInv

(* Inserting a builtin call adds no reader of a vector register. *)
LEMMA BuildStep == IInv /\ BuildNext => IInv'
<1> SUFFICES ASSUME IInv, BuildNext PROVE IInv'
  OBVIOUS
<1> DEFINE pair == Head(pcodesToBeBuilt)
           P == (OpId \ 1..NumOps) \X (1..NumOps)
<1>1. /\ UNCHANGED <<prog, code, trigger, numBytes, loadSet, load, visited, deleteSet,
                     numTransformedStores, count, performed, pc>>
      /\ pc = "build" /\ pcodesToBeBuilt # <<>>
      /\ block' = InsertBefore(block, pair) /\ pcodesToBeBuilt' = Tail(pcodesToBeBuilt)
  BY DEF BuildNext
<1>2. OpId' = OpId /\ NumOps' = NumOps
  BY <1>1 DEF OpId, NumOps
<1>3. /\ pair \in P /\ pcodesToBeBuilt' \in Seq(P)
      /\ ToSet(pcodesToBeBuilt) = {pair} \cup ToSet(pcodesToBeBuilt')
  <2>1. pcodesToBeBuilt \in Seq(P)
    BY DEF IInv, TypeOK
  <2> HIDE DEF P
  <2> QED BY <1>1, <2>1, HeadTailElements
<1> HIDE DEF pair
<1>4. pair[1] \in OpId \ 1..NumOps /\ pair[2] \in ToSet(block)
  BY <1>3 DEF IInv, QueueInv
<1>5. block' \in Seq(OpId) /\ ToSet(block') = ToSet(block) \cup {pair[1]}
  <2>1. block \in Seq(OpId)
    BY DEF IInv, TypeOK
  <2>2. PICK k \in 1..Len(block) : block[k] = pair[2]
    BY <1>4, <2>1, ElementsOf
  <2>3. /\ PositionOf(block, pair[2]) \in 1..Len(block)
        /\ Len(block) \in Nat /\ DOMAIN block = 1..Len(block)
    BY <2>1, <2>2, ElementsOf DEF PositionOf
  <2>4. PositionOf(block, pair[2]) \in 1..(Len(block) + 1)
    BY <2>3
  <2> QED BY <1>1, <1>4, <2>1, <2>4, InsertAtFacts DEF InsertBefore
<1>6. TypeOK'
  BY <1>1, <1>2, <1>3, <1>5 DEF IInv, TypeOK
<1>7. CodeInv'
  BY <1>1, <1>2 DEF IInv, CodeInv, Is
<1>8. QueueInv'
  BY <1>1, <1>2, <1>3, <1>5 DEF IInv, QueueInv
<1>9. ReadLoadsKept'
  <2>1. ~Is(pair[1], {"store", "other"})
    BY <1>4 DEF IInv, CodeInv, Is, Builtins
  <2>2. \A v : HasReaders(block, v)' => HasReaders(block, v)
    BY <1>1, <1>5, <2>1 DEF HasReaders, ReadersIn, Is
  <2> QED BY <1>1, <1>2, <1>5, <2>2 DEF IInv, ReadLoadsKept, Is
<1> QED BY <1>6, <1>7, <1>8, <1>9 DEF IInv

(* Nothing waits to be inserted when the next load is looked for. *)
LEMMA DoneStep == IInv /\ (BuildDone \/ LoadsDone \/ Return) => IInv'
<1> SUFFICES ASSUME IInv, BuildDone \/ LoadsDone \/ Return PROVE IInv'
  OBVIOUS
<1>1. /\ UNCHANGED <<prog, code, block, numBytes, loadSet, visited, pcodesToBeBuilt, deleteSet,
                     numTransformedStores, count>>
      /\ load' \in {load, 0} /\ pc' \in {"loads", "delete", "pool"}
      /\ pcodesToBeBuilt = <<>>
  BY DEF BuildDone, LoadsDone, Return, queues, IInv, QueueInv
<1>2. CodeInv' /\ ReadLoadsKept' /\ OpId' = OpId /\ NumOps' = NumOps /\ NumOps \in Nat
  BY <1>1, SameBlock DEF IInv, CodeInv, NumOps
<1>3. performed' \in BOOLEAN
  BY DEF BuildDone, LoadsDone, Return, IInv, TypeOK
<1>4. trigger' \in 1..(NumOps + 1) /\ (pc' # "pool" => trigger' <= NumOps)
  <2>1. trigger \in 1..(NumOps + 1) /\ trigger <= NumOps
    BY DEF BuildDone, LoadsDone, Return, IInv, TypeOK, QueueInv
  <2>2. trigger' = trigger \/ (trigger' = trigger + 1 /\ pc' = "pool")
    BY DEF BuildDone, LoadsDone, Return
  <2> QED BY <1>2, <2>1, <2>2
<1>5. TypeOK'
  BY <1>1, <1>2, <1>3, <1>4 DEF IInv, TypeOK
<1>6. QueueInv'
  BY <1>1, <1>2, <1>4 DEF IInv, QueueInv
<1> QED BY <1>2, <1>5, <1>6 DEF IInv

(* Only an op that nothing reads, or that has no output, leaves the block: *)
(* the load of a register that is still read is neither.                   *)
LEMMA DeleteStep == IInv /\ DeleteNext => IInv'
<1> SUFFICES ASSUME IInv, DeleteNext PROVE IInv'
  OBVIOUS
<1> DEFINE op == Head(deleteSet)
<1>1. /\ UNCHANGED <<prog, code, trigger, numBytes, loadSet, load, visited, pcodesToBeBuilt,
                     numTransformedStores, count, performed, pc>>
      /\ pc = "delete" /\ deleteSet # <<>> /\ deleteSet' = Tail(deleteSet)
      /\ block' = IF Deletable(op) THEN RemoveFirst(block, op) ELSE block
  BY DEF DeleteNext
<1>2. OpId' = OpId /\ NumOps' = NumOps
  BY <1>1 DEF OpId, NumOps
<1>3. deleteSet' \in Seq(1..NumOps)
  <2>1. deleteSet \in Seq(1..NumOps)
    BY DEF IInv, TypeOK
  <2> QED BY <1>1, <2>1, HeadTailElements
<1> HIDE DEF op
<1>4. /\ block' \in Seq(OpId) /\ ToSet(block') \subseteq ToSet(block)
      /\ \A x \in ToSet(block) : x # op \/ ~Deletable(op) => x \in ToSet(block')
  <2>1. block \in Seq(OpId)
    BY DEF IInv, TypeOK
  <2> QED BY <1>1, <2>1, RemoveFirstFacts
<1>5. TypeOK'
  BY <1>1, <1>2, <1>3, <1>4 DEF IInv, TypeOK
<1>6. CodeInv'
  BY <1>1, <1>2 DEF IInv, CodeInv, Is
<1>7. QueueInv'
  <2>1. pcodesToBeBuilt' = <<>> /\ ToSet(<<>>) = {}
    BY <1>1 DEF IInv, QueueInv, ToSet
  <2> QED BY <1>1, <1>2, <2>1 DEF IInv, QueueInv
<1>8. ReadLoadsKept'
  <2>1. \A v : HasReaders(block, v)' => HasReaders(block, v)
    BY <1>1, <1>4 DEF HasReaders, ReadersIn, Is
  <2>2. SUFFICES ASSUME NEW i \in 1..NumOps, Is(i, {"load", "imm"}), HasReaders(block, code[i].v)
                 PROVE  i \in ToSet(block')
    BY <1>1, <1>2, <2>1 DEF ReadLoadsKept, Is
  <2>3. i \in ToSet(block)
    BY <2>2 DEF IInv, ReadLoadsKept
  <2>4. i # op \/ ~Deletable(op)
    BY <2>2 DEF Deletable, Is
  <2> QED BY <1>4, <2>3, <2>4
<1> QED BY <1>5, <1>6, <1>7, <1>8 DEF IInv

LEMMA StutterStep == IInv /\ UNCHANGED vars => IInv'
<1> SUFFICES ASSUME IInv, UNCHANGED vars PROVE IInv'
  OBVIOUS
<1>1. CodeInv' /\ ReadLoadsKept' /\ OpId' = OpId /\ NumOps' = NumOps
  BY SameBlock DEF vars
<1>2. TypeOK' /\ QueueInv'
  BY <1>1 DEF IInv, TypeOK, QueueInv, vars, queues
<1> QED BY <1>1, <1>2 DEF IInv

-----------------------------------------------------------------------------
(* Where the calls are.  The second part of the inductive invariant finds  *)
(* for every call the store it stands for, which no variable remembers     *)
(* once the call is in the block.                                          *)

Calls == OpId \ 1..NumOps
Pending == {pair[1] : pair \in ToSet(pcodesToBeBuilt)}

(* home[n] is the store that the call n stands for, an op of the program   *)
(* is its own.                                                             *)
Homes(home) ==
  /\ \A i \in 1..NumOps : home[i] = i
  /\ \A n \in Calls : /\ home[n] \in 1..NumOps /\ Is(home[n], {"store"})
                      /\ code[n].dst = code[home[n]].p
  /\ \A n, k \in Calls : home[n] = home[k] => n = k

(* The block keeps the program's order, a call in front of its store. *)
Before(home, n, k) == home[n] < home[k] \/ (home[n] = home[k] /\ n > k)
InOrder(home) ==
  \A i, j \in DOMAIN block : i < j => Before(home, block[i], block[j])

(* Every call waits to be put in front of its store, or is in the block;   *)
(* its store is gone or will be.                                           *)
Waiting(home) ==
  /\ \A pair \in ToSet(pcodesToBeBuilt) :
       pair[1] \notin ToSet(block) /\ home[pair[1]] = pair[2]
  /\ \A i, j \in DOMAIN pcodesToBeBuilt :
       pcodesToBeBuilt[i][1] = pcodesToBeBuilt[j][1] => i = j
Accounted(home) ==
  /\ \A n \in Calls : /\ n \in ToSet(block) \cup Pending
                      /\ home[n] \in ToSet(block) => home[n] \in ToSet(deleteSet)
  /\ \A s \in 1..NumOps : Is(s, {"store", "memcpy", "memset"}) =>
       s \in ToSet(block) \/ \E n \in Calls : n \in ToSet(block) /\ home[n] = s
  /\ \A s \in ToSet(deleteSet) : Is(s, {"store"}) => \E n \in Calls : home[n] = s

(* The op s is the last vset instruction in front of l, a vsetivli.        *)
Settings == {"vset", "vseti"}
Governs(s, l) ==
  s \in 1..l /\ Is(s, {"vseti"}) /\ \A j \in (s + 1)..l : ~Is(j, Settings)

(* The bytes that match takes a vsetivli to set *)
Width(s) == code[s].avl * code[s].multiplier * code[s].elementSize

(* The call n stands for the store j: it moves what a load governed by a   *)
(* vsetivli loaded, and as many bytes as match takes that to be.           *)
Carries(n, j) ==
  \E l, s \in 1..NumOps :
    /\ Is(l, {"load", "imm"}) /\ code[l].v = code[j].v /\ Governs(s, l)
    /\ code[n] = IF Is(l, {"imm"})
                 THEN [kind |-> "memset", dst |-> code[j].p, x |-> code[l].x, n |-> Width(s)]
                 ELSE [kind |-> "memcpy", dst |-> code[j].p, src |-> code[l].p, n |-> Width(s)]
Origins(home) == \A n \in Calls : Carries(n, home[n])

HomesInv ==
  \E home : Homes(home) /\ InOrder(home) /\ Waiting(home) /\ Accounted(home) /\ Origins(home)

(* A store waiting to be deleted reads no register that match has still    *)
(* to look at.                                                             *)
LoadInv ==
  /\ pc \in {"pool", "settled"} => deleteSet = <<>>
  /\ \A l \in loadSet : Is(l, {"load", "imm"})
  /\ pc \in {"readers", "build"} =>
       load \notin loadSet /\ Is(load, {"load", "imm"}) /\ code[load].v # NoVn
  /\ \A s \in ToSet(deleteSet) : Is(s, {"store", "load", "imm"})
  /\ \A s \in ToSet(deleteSet) : Is(s, {"store"}) =>
       /\ \A l \in loadSet : code[l].v # NoVn => code[l].v # code[s].v
       /\ pc = "readers" /\ code[load].v = code[s].v => s \in visited

OrderInv == LoadInv /\ HomesInv

(* Only loads and stores leave the block, and what match works on is       *)
(* governed by the op the pool has come to.                                *)
Collected(l) == Governs(trigger, l) /\ numBytes = Width(trigger)

SeriesInv ==
  /\ \A i \in 1..NumOps : Is(i, {"load", "imm", "store"}) \/ i \in ToSet(block)
  /\ \A l \in loadSet : Collected(l)
  /\ pc \in {"readers", "build"} => Collected(load)
  /\ pc \notin {"loads", "readers", "build"} => loadSet = {}

(* The program's ops and the calls stay what they are. *)
LEMMA OpsKept ==
  ASSUME IInv, NumOps' = NumOps, \A i \in OpId : code'[i] = code[i]
  PROVE  /\ \A l \in 1..NumOps : \A s :
              Governs(s, l) => Governs(s, l)' /\ Width(s)' = Width(s) /\ s \in 1..NumOps
         /\ \A n \in Calls : \A j \in 1..NumOps : Carries(n, j) => Carries(n, j)'
<1>1. /\ NumOps \in Nat /\ \A i \in 1..NumOps : i \in OpId
      /\ \A n \in Calls : n \in OpId
  BY DEF IInv, CodeInv, OpId, NumOps, Calls
<1>2. \A i \in OpId : \A kinds : Is(i, kinds)' <=> Is(i, kinds)
  BY DEF Is
<1>3. ASSUME NEW l \in 1..NumOps, NEW s, Governs(s, l)
      PROVE  Governs(s, l)' /\ Width(s)' = Width(s) /\ s \in 1..NumOps
  <2>1. s \in 1..NumOps /\ \A j \in (s + 1)..l : j \in 1..NumOps
    BY <1>1, <1>3 DEF Governs
  <2>2. Governs(s, l)'
    BY <1>1, <1>2, <1>3, <2>1 DEF Governs
  <2>3. Width(s)' = Width(s)
    BY <1>1, <2>1 DEF Width
  <2> QED BY <2>1, <2>2, <2>3
<1>4. ASSUME NEW n \in Calls, NEW j \in 1..NumOps, Carries(n, j)
      PROVE  Carries(n, j)'
  <2>1. PICK l \in 1..NumOps, s \in 1..NumOps :
          /\ Is(l, {"load", "imm"}) /\ code[l].v = code[j].v /\ Governs(s, l)
          /\ code[n] = IF Is(l, {"imm"})
                       THEN [kind |-> "memset", dst |-> code[j].p, x |-> code[l].x, n |-> Width(s)]
                       ELSE [kind |-> "memcpy", dst |-> code[j].p, src |-> code[l].p, n |-> Width(s)]
    BY <1>4 DEF Carries
  <2>2. Governs(s, l)' /\ Width(s)' = Width(s)
    BY <1>3, <2>1
  <2>3. code'[l] = code[l] /\ code'[j] = code[j] /\ code'[n] = code[n]
    BY <1>1
  <2>4. Is(l, {"load", "imm"})' /\ Is(l, {"imm"})' = Is(l, {"imm"})
    BY <2>1, <2>3 DEF Is
  <2> QED BY <2>1, <2>2, <2>3, <2>4 DEF Carries
<1> QED BY <1>3, <1>4

(* The types the proofs about the order rely on *)
LEMMA OrderTypes ==
  ASSUME IInv
  PROVE  /\ NumOps \in Nat /\ Len(code) \in Nat /\ NumOps <= Len(code) /\ OpId = 1..Len(code)
         /\ block \in Seq(OpId) /\ DOMAIN block = 1..Len(block) /\ Len(block) \in Nat
         /\ \A i \in DOMAIN block : block[i] \in OpId /\ block[i] \in ToSet(block)
         /\ \A o \in ToSet(block) : o \in OpId /\ \E i \in DOMAIN block : block[i] = o
         /\ deleteSet \in Seq(1..NumOps) /\ ToSet(deleteSet) \subseteq 1..NumOps
         /\ pcodesToBeBuilt \in Seq(Calls \X (1..NumOps))
<1>1. block \in Seq(OpId) /\ deleteSet \in Seq(1..NumOps) /\ OpId = 1..Len(code)
  BY DEF IInv, TypeOK, OpId
<1>2. NumOps \in Nat /\ Len(code) \in Nat /\ NumOps <= Len(code)
  BY DEF IInv, CodeInv, NumOps
<1>3. /\ DOMAIN block = 1..Len(block) /\ Len(block) \in Nat
      /\ \A i \in DOMAIN block : block[i] \in OpId /\ block[i] \in ToSet(block)
      /\ \A o \in ToSet(block) : o \in OpId /\ \E i \in DOMAIN block : block[i] = o
  <2>1. /\ Len(block) \in Nat /\ DOMAIN block = 1..Len(block)
        /\ \A i \in 1..Len(block) : block[i] \in OpId /\ block[i] \in ToSet(block)
        /\ \A o \in ToSet(block) : \E i \in 1..Len(block) : block[i] = o
        /\ ToSet(block) \subseteq OpId
    BY <1>1, ElementsOf
  <2> QED BY <2>1
<1>4. ToSet(deleteSet) \subseteq 1..NumOps
  BY <1>1, ElementsOf
<1>5. pcodesToBeBuilt \in Seq(Calls \X (1..NumOps))
  BY DEF IInv, TypeOK, Calls
<1> QED BY <1>1, <1>2, <1>3, <1>4, <1>5

LEMMA OrderInit == Init => OrderInv
<1> SUFFICES ASSUME Init PROVE OrderInv
  OBVIOUS
<1>1. IInv
  BY InitInv
<1>2. /\ code = prog.code /\ block = [i \in 1..NumOps |-> i] /\ pc = "pool"
      /\ pcodesToBeBuilt = <<>> /\ deleteSet = <<>> /\ loadSet = {} /\ ToSet(<<>>) = {}
  BY DEF Init, NumOps, ToSet
<1>3. OpId = 1..NumOps /\ NumOps \in Nat /\ Calls = {} /\ DOMAIN pcodesToBeBuilt = {}
  BY <1>1, <1>2, OrderTypes DEF OpId, NumOps, Calls
<1>4. LoadInv
  BY <1>2 DEF LoadInv
<1> DEFINE home == [i \in OpId |-> i]
<1>5. Homes(home)
  BY <1>3 DEF Homes
<1>6. InOrder(home)
  BY <1>2, <1>3 DEF InOrder, Before
<1>7. Waiting(home)
  BY <1>2, <1>3 DEF Waiting
<1>8. ToSet(block) = 1..NumOps
  BY <1>2 DEF ToSet
<1>9. Accounted(home)
  BY <1>2, <1>3, <1>8 DEF Accounted
<1>10. Origins(home)
  BY <1>3 DEF Origins
<1> QED BY <1>4, <1>5, <1>6, <1>7, <1>9, <1>10 DEF OrderInv, HomesInv

(* Most steps do not touch the block, the ops or what waits to be built,   *)
(* and queue no store for deletion.                                        *)
LEMMA SameOrder ==
  ASSUME IInv, HomesInv, UNCHANGED <<prog, code, block, pcodesToBeBuilt>>,
         ToSet(deleteSet) \subseteq ToSet(deleteSet'),
         \A s \in ToSet(deleteSet') : s \in ToSet(deleteSet) \/ ~Is(s, {"store"})
  PROVE  HomesInv'
<1>1. PICK home : Homes(home) /\ InOrder(home) /\ Waiting(home) /\ Accounted(home) /\ Origins(home)
  BY DEF HomesInv
<1>2. OpId' = OpId /\ NumOps' = NumOps /\ Calls' = Calls /\ Pending' = Pending
  BY DEF OpId, NumOps, Calls, Pending
<1>3. \A s, kinds : Is(s, kinds)' = Is(s, kinds)
  BY DEF Is
<1>4. Homes(home)'
  BY <1>1, <1>2, <1>3 DEF Homes
<1>5. InOrder(home)' /\ Waiting(home)'
  BY <1>1 DEF InOrder, Waiting
<1>6. Accounted(home)'
  BY <1>1, <1>2, <1>3 DEF Accounted
<1>7. Origins(home)'
  BY <1>1, <1>2, OpsKept DEF Origins, Homes
<1> QED BY <1>4, <1>5, <1>6, <1>7 DEF HomesInv

(* Between two rules of the pool nothing waits. *)
LEMMA OrderPool == IInv /\ OrderInv /\ Pool => OrderInv'
<1> SUFFICES ASSUME IInv, OrderInv, Pool PROVE OrderInv'
  OBVIOUS
<1>1. /\ UNCHANGED <<prog, code, block, load, pcodesToBeBuilt, deleteSet>>
      /\ pc = "pool" /\ pc' \in {"pool", "loads", "settled"}
  BY DEF Pool, ApplyVseti, PassOver, PassDone, queues
<1>2. deleteSet = <<>> /\ ToSet(<<>>) = {}
  BY <1>1 DEF OrderInv, LoadInv, ToSet
<1>3. HomesInv'
  BY <1>1, SameOrder DEF OrderInv
<1>4. \A l \in loadSet' : Is(l, {"load", "imm"})
  BY DEF Pool, ApplyVseti, PassOver, PassDone, queues, Governed, OrderInv, LoadInv
<1>5. LoadInv'
  BY <1>1, <1>2, <1>4 DEF LoadInv, Is
<1> QED BY <1>3, <1>5 DEF OrderInv

(* No store that reads the load's register has been queued yet. *)
LEMMA OrderNextLoad == IInv /\ OrderInv /\ NextLoad => OrderInv'
<1> SUFFICES ASSUME IInv, OrderInv, NextLoad PROVE OrderInv'
  OBVIOUS
<1>1. /\ UNCHANGED <<prog, code, block, pcodesToBeBuilt, deleteSet>>
      /\ pc = "loads"
  BY DEF NextLoad
<1>2. PICK op \in loadSet :
        /\ loadSet' = loadSet \ {op}
        /\ IF code[op].v = NoVn
           THEN UNCHANGED <<load, visited, pc>>
           ELSE load' = op /\ visited' = {} /\ pc' = "readers"
  BY DEF NextLoad
<1>3. HomesInv'
  BY <1>1, SameOrder DEF OrderInv
<1>4. LoadInv'
  BY <1>1, <1>2 DEF OrderInv, LoadInv, Is
<1> QED BY <1>3, <1>4 DEF OrderInv

LEMMA OrderReaders == IInv /\ OrderInv /\ (MeetOtherReader \/ ReadersDone) => OrderInv'
<1> SUFFICES ASSUME IInv, OrderInv, MeetOtherReader \/ ReadersDone PROVE OrderInv'
  OBVIOUS
<1>1. /\ UNCHANGED <<prog, code, block, loadSet, load, visited, pcodesToBeBuilt>>
      /\ pc = "readers" /\ pc' = "build"
  BY DEF MeetOtherReader, ReadersDone, queues
<1>2. Is(load, {"load", "imm"})
  BY <1>1 DEF OrderInv, LoadInv
<1>3. ToSet(deleteSet') \in {ToSet(deleteSet), ToSet(deleteSet) \cup {load}}
  <2>1. deleteSet' = deleteSet \/ deleteSet' = Append(deleteSet, load)
    BY DEF MeetOtherReader, ReadersDone, queues
  <2>2. ToSet(Append(deleteSet, load)) = ToSet(deleteSet) \cup {load}
    BY DEF ToSet
  <2> QED BY <2>1, <2>2
<1>4. HomesInv'
  <2>1. ToSet(deleteSet) \subseteq ToSet(deleteSet')
    BY <1>3
  <2>2. \A s \in ToSet(deleteSet') : s \in ToSet(deleteSet) \/ ~Is(s, {"store"})
    BY <1>2, <1>3 DEF Is
  <2>3. HomesInv
    BY DEF OrderInv
  <2> QED BY <1>1, <2>1, <2>2, <2>3, SameOrder
<1>5. LoadInv'
  BY <1>1, <1>2, <1>3 DEF OrderInv, LoadInv, Is
<1> QED BY <1>4, <1>5 DEF OrderInv

LEMMA OrderDone ==
  IInv /\ OrderInv /\ (BuildDone \/ LoadsDone \/ Return \/ UNCHANGED vars) => OrderInv'
<1> SUFFICES ASSUME IInv, OrderInv, BuildDone \/ LoadsDone \/ Return \/ UNCHANGED vars
             PROVE  OrderInv'
  OBVIOUS
<1>1. /\ UNCHANGED <<prog, code, block, pcodesToBeBuilt, deleteSet, loadSet, visited>>
      /\ \/ pc' \in {"loads", "delete"}
         \/ pc' = "pool" /\ deleteSet = <<>>
         \/ UNCHANGED <<pc, load>>
  BY DEF BuildDone, LoadsDone, Return, queues, vars
<1>2. HomesInv'
  BY <1>1, SameOrder DEF OrderInv
<1>3. LoadInv'
  BY <1>1 DEF OrderInv, LoadInv, Is
<1> QED BY <1>2, <1>3 DEF OrderInv

(* The order of the block is the program's: what lies between the op the   *)
(* pool has come to and a load in the block does so in the program.        *)
LEMMA GovernedByTrigger ==
  ASSUME IInv, OrderInv, SeriesInv, trigger \in 1..NumOps, Is(trigger, {"vseti"}),
         NEW o \in Governed(trigger)
  PROVE  Governs(trigger, o)
<1>1. PICK home : Homes(home) /\ InOrder(home)
  BY DEF OrderInv, HomesInv
<1>2. /\ o \in ToSet(block) /\ Is(o, {"load", "imm"})
      /\ PositionOf(block, o) > PositionOf(block, trigger)
      /\ \A i \in PositionOf(block, trigger) + 1..PositionOf(block, o) : ~Is(block[i], Settings)
  BY DEF Governed, Settings
<1>3. o \in 1..NumOps
  <2>1. o \in OpId
    BY <1>2, OrderTypes
  <2> QED BY <1>2, <2>1 DEF IInv, CodeInv, Is, Builtins
<1>4. \A i \in 1..NumOps : Is(i, Settings) => i \in ToSet(block)
  BY DEF SeriesInv, Is, Settings
<1>5. PICK p : p = PositionOf(block, trigger) /\ p \in 1..Len(block) /\ block[p] = trigger
  <2>1. trigger \in ToSet(block)
    BY <1>4 DEF Is, Settings
  <2> QED BY <2>1, OrderTypes DEF PositionOf
<1>6. PICK q : q = PositionOf(block, o) /\ q \in 1..Len(block) /\ block[q] = o
  BY <1>2, OrderTypes DEF PositionOf
<1>7. /\ NumOps \in Nat /\ Len(block) \in Nat /\ \A i \in 1..NumOps : home[i] = i
      /\ \A i, j \in 1..Len(block) : i < j => Before(home, block[i], block[j])
  BY <1>1, OrderTypes DEF Homes, InOrder
<1>8. trigger < o
  <2>1. Before(home, trigger, o)
    BY <1>2, <1>5, <1>6, <1>7
  <2> QED BY <1>3, <1>7, <2>1 DEF Before
<1>9. ASSUME NEW j \in (trigger + 1)..o, Is(j, Settings)
      PROVE  FALSE
  <2>1. j \in 1..NumOps /\ trigger < j /\ j < o
    <3>1. j # o
      BY <1>2, <1>9 DEF Is, Settings
    <3> QED BY <1>3, <1>7, <1>8, <3>1
  <2>2. PICK r \in 1..Len(block) : block[r] = j
    BY <1>4, <1>9, <2>1, OrderTypes
  <2>3. ~(r < p) /\ r # p
    <3>1. r < p => Before(home, j, trigger)
      BY <1>5, <1>7, <2>2
    <3> QED BY <1>5, <1>7, <2>1, <2>2, <3>1 DEF Before
  <2>4. ~(q < r) /\ r # q
    <3>1. q < r => Before(home, o, j)
      BY <1>6, <1>7, <2>2
    <3> QED BY <1>3, <1>6, <1>7, <2>1, <2>2, <3>1 DEF Before
  <2>5. r \in p + 1..q
    BY <1>5, <1>6, <1>7, <2>3, <2>4
  <2> QED BY <1>2, <1>5, <1>6, <1>9, <2>2, <2>5
<1> QED BY <1>3, <1>7, <1>8, <1>9 DEF Governs

LEMMA SeriesInit == Init => SeriesInv
<1> SUFFICES ASSUME Init PROVE SeriesInv
  OBVIOUS
<1>1. block = [i \in 1..NumOps |-> i] /\ loadSet = {} /\ pc = "pool"
  BY DEF Init, NumOps
<1>2. \A i \in 1..NumOps : i \in ToSet(block)
  BY <1>1 DEF ToSet
<1> QED BY <1>1, <1>2 DEF SeriesInv

LEMMA SeriesPool == IInv /\ OrderInv /\ SeriesInv /\ Pool => SeriesInv'
<1> SUFFICES ASSUME IInv, OrderInv, SeriesInv, Pool PROVE SeriesInv'
  OBVIOUS
<1>1. UNCHANGED <<prog, code, block>> /\ pc = "pool" /\ pc' \in {"pool", "loads", "settled"}
  BY DEF Pool, ApplyVseti, PassOver, PassDone
<1>2. loadSet = {} /\ NumOps' = NumOps
  BY <1>1 DEF SeriesInv, NumOps
<1>3. loadSet' = {} \/ (ApplyVseti /\ pc' = "loads" /\ loadSet' = Governed(trigger))
  BY <1>2 DEF Pool, ApplyVseti, PassOver, PassDone, queues
<1>4. ASSUME ApplyVseti, loadSet' = Governed(trigger), NEW l \in loadSet'
      PROVE  Collected(l)'
  <2>1. trigger \in 1..NumOps /\ Is(trigger, {"vseti"}) /\ trigger' = trigger
    BY <1>4 DEF ApplyVseti, IInv, TypeOK
  <2>2. Governs(trigger, l)
    BY <1>4, <2>1, GovernedByTrigger
  <2>3. numBytes' = Width(trigger)
    BY <1>2, <1>4 DEF ApplyVseti, Width
  <2> QED BY <1>1, <2>1, <2>2, <2>3 DEF Collected, Governs, Width, Is
<1>5. \A i \in 1..NumOps : (Is(i, {"load", "imm", "store"}) \/ i \in ToSet(block))'
  BY <1>1 DEF SeriesInv, Is
<1> QED BY <1>1, <1>2, <1>3, <1>4, <1>5 DEF SeriesInv

(* Most steps of match change none of what is said of the loads. *)
LEMMA SeriesSame ==
  ASSUME IInv, SeriesInv, UNCHANGED <<prog, trigger, numBytes>>, NumOps' = NumOps,
         \A i \in OpId : code'[i] = code[i], loadSet' \subseteq loadSet,
         \A i \in 1..NumOps : i \in ToSet(block') \/ Is(i, {"load", "imm", "store"}),
         pc' \in {"readers", "build"} =>
           load' \in loadSet \/ (pc \in {"readers", "build"} /\ load' = load),
         pc' \notin {"loads", "readers", "build"} => loadSet = {}
  PROVE  SeriesInv'
<1>1. NumOps \in Nat /\ (\A i \in 1..NumOps : i \in OpId) /\ loadSet \subseteq 1..NumOps
  BY DEF IInv, CodeInv, QueueInv, OpId, NumOps
<1>2. ASSUME NEW l \in 1..NumOps, Collected(l)
      PROVE  Collected(l)'
  <2>1. PICK t : t = trigger
    OBVIOUS
  <2>2. Governs(t, l) /\ numBytes = Width(t)
    BY <1>2, <2>1 DEF Collected
  <2>3. Governs(t, l)' /\ Width(t)' = Width(t)
    BY <2>2, OpsKept
  <2> QED BY <2>1, <2>2, <2>3 DEF Collected
<1>3. \A i \in 1..NumOps : (Is(i, {"load", "imm", "store"}) \/ i \in ToSet(block))'
  BY <1>1 DEF Is
<1>4. \A l \in loadSet' : Collected(l)'
  BY <1>1, <1>2 DEF SeriesInv
<1>5. ASSUME pc' \in {"readers", "build"}
      PROVE  Collected(load)'
  <2>1. PICK l : l = load'
    OBVIOUS
  <2>2. l \in 1..NumOps /\ Collected(l)
    <3>1. CASE load' \in loadSet
      BY <1>1, <2>1, <3>1 DEF SeriesInv
    <3>2. CASE load' \notin loadSet
      BY <1>1, <1>5, <2>1, <3>2 DEF SeriesInv, IInv, QueueInv
    <3> QED BY <3>1, <3>2
  <2>3. Collected(l)'
    BY <1>2, <2>2
  <2> QED BY <2>1, <2>3
<1> QED BY <1>3, <1>4, <1>5 DEF SeriesInv

LEMMA SeriesMatch == IInv /\ OrderInv /\ SeriesInv /\ Match => SeriesInv'
<1> SUFFICES ASSUME IInv, OrderInv, SeriesInv, Match PROVE SeriesInv'
  OBVIOUS
<1>1. prog' = prog /\ NumOps' = NumOps /\ (\A i \in OpId : code'[i] = code[i])
  <2>1. CASE TransformStore
    <3>1. PICK S : code \in Seq(S)
      BY DEF IInv, CodeInv
    <3>2. PICK e : code' = Append(code, e) /\ prog' = prog
      BY <2>1 DEF TransformStore
    <3>3. code \in Seq(S \cup {e}) /\ e \in S \cup {e}
      BY <3>1, SeqMonotonic
    <3>4. \A i \in 1..Len(code) : code'[i] = code[i]
      BY <3>2, <3>3, AppendProperties
    <3> QED BY <3>2, <3>4 DEF OpId, NumOps
  <2>2. CASE ~TransformStore
    BY <2>2 DEF Match, NextLoad, MeetOtherReader, ReadersDone, BuildNext, BuildDone,
       LoadsDone, DeleteNext, Return, NumOps
  <2> QED BY <2>1, <2>2
<1>2. \A i \in 1..NumOps : i \in ToSet(block) \/ Is(i, {"load", "imm", "store"})
  BY DEF SeriesInv
<1>3. CASE NextLoad
  <2>1. PICK op \in loadSet :
          /\ loadSet' = loadSet \ {op}
          /\ pc' = pc \/ load' = op
    BY <1>3 DEF NextLoad
  <2>2. UNCHANGED <<block, trigger, numBytes>> /\ pc = "loads" /\ pc' \in {"loads", "readers"}
    BY <1>3 DEF NextLoad
  <2> QED BY <1>1, <1>2, <2>1, <2>2, SeriesSame
<1>4. CASE TransformStore \/ MeetOtherReader \/ ReadersDone
  <2>1. /\ UNCHANGED <<block, trigger, numBytes, loadSet, load>> /\ pc = "readers"
        /\ pc' \in {"readers", "build"}
    BY <1>4 DEF TransformStore, MeetOtherReader, ReadersDone, queues
  <2> QED BY <1>1, <1>2, <2>1, SeriesSame
<1>5. CASE BuildNext
  <2>1. UNCHANGED <<trigger, numBytes, loadSet, load, pc>> /\ pc = "build"
    BY <1>5 DEF BuildNext
  <2>2. ToSet(block) \subseteq ToSet(block')
    <3>1. /\ pcodesToBeBuilt \in Seq(Calls \X (1..NumOps)) /\ pcodesToBeBuilt # <<>>
          /\ block' = InsertBefore(block, Head(pcodesToBeBuilt))
      BY <1>5, OrderTypes DEF BuildNext
    <3>2. /\ Head(pcodesToBeBuilt) \in Calls \X (1..NumOps)
          /\ Head(pcodesToBeBuilt) \in ToSet(pcodesToBeBuilt)
      <4> DEFINE P == Calls \X (1..NumOps)
      <4> HIDE DEF P
      <4>1. pcodesToBeBuilt \in Seq(P)
        BY <3>1 DEF P
      <4>2. /\ Head(pcodesToBeBuilt) \in P
            /\ ToSet(pcodesToBeBuilt) = {Head(pcodesToBeBuilt)} \cup ToSet(Tail(pcodesToBeBuilt))
        BY <3>1, <4>1, HeadTailElements
      <4> QED BY <4>2 DEF P
    <3>3. PICK n \in Calls, t \in ToSet(block) :
            block' = InsertAt(block, PositionOf(block, t), n)
      BY <3>1, <3>2 DEF InsertBefore, IInv, QueueInv
    <3>4. /\ block \in Seq(OpId) /\ n \in OpId /\ Len(block) \in Nat
          /\ PositionOf(block, t) \in 1..Len(block)
      BY OrderTypes DEF PositionOf, Calls
    <3>5. PositionOf(block, t) \in 1..(Len(block) + 1)
      BY <3>4
    <3> QED BY <3>3, <3>4, <3>5, InsertAtFacts
  <2> QED BY <1>1, <1>2, <2>1, <2>2, SeriesSame
<1>6. CASE BuildDone \/ LoadsDone
  <2>1. /\ UNCHANGED <<block, trigger, numBytes, loadSet>>
        /\ pc' = "loads" \/ (pc' = "delete" /\ loadSet = {})
    BY <1>6 DEF BuildDone, LoadsDone, queues
  <2> QED BY <1>1, <1>2, <2>1, SeriesSame
<1>7. CASE DeleteNext
  <2>1. UNCHANGED <<trigger, numBytes, loadSet>> /\ pc = "delete" /\ pc' = "delete"
    BY <1>7 DEF DeleteNext
  <2>2. Is(Head(deleteSet), {"load", "imm", "store"})
    <3>1. deleteSet \in Seq(1..NumOps) /\ deleteSet # <<>>
      BY <1>7, OrderTypes DEF DeleteNext
    <3>2. Head(deleteSet) \in ToSet(deleteSet)
      BY <3>1, HeadTailElements
    <3> QED BY <3>2 DEF OrderInv, LoadInv, Is
  <2>3. \A i \in 1..NumOps : i \in ToSet(block') \/ Is(i, {"load", "imm", "store"})
    <3>1. block' \in {block, RemoveFirst(block, Head(deleteSet))}
      BY <1>7 DEF DeleteNext
    <3>2. \A i \in ToSet(block) : i # Head(deleteSet) => i \in ToSet(block')
      BY <3>1, OrderTypes, RemoveFirstFacts
    <3> QED BY <1>2, <2>2, <3>2
  <2> QED BY <1>1, <2>1, <2>3, SeriesSame DEF SeriesInv
<1>8. CASE Return
  <2>1. UNCHANGED <<code, block, loadSet>> /\ pc = "delete" /\ pc' = "pool"
    BY <1>8 DEF Return, queues
  <2>2. loadSet' = {}
    BY <2>1 DEF SeriesInv
  <2> QED BY <1>1, <1>2, <2>1, <2>2 DEF SeriesInv, Is
<1> QED BY <1>3, <1>4, <1>5, <1>6, <1>7, <1>8 DEF Match

LEMMA SeriesStep == IInv /\ OrderInv /\ SeriesInv /\ [Next]_vars => SeriesInv'
<1>1. ASSUME IInv, SeriesInv, UNCHANGED vars PROVE SeriesInv'
  <2>1. UNCHANGED <<prog, code, block, trigger, numBytes, loadSet, load, pc>>
    BY <1>1 DEF vars, queues
  <2> QED BY <1>1, <2>1 DEF SeriesInv, Collected, Governs, Width, Is, NumOps
<1> QED BY <1>1, SeriesPool, SeriesMatch DEF Next

(* A store that is still to be looked at stands for no call yet: the load  *)
(* that other calls' stores read is another one, as a register is loaded   *)
(* by one op.                                                              *)
LEMMA OrderTransform == IInv /\ OrderInv /\ SeriesInv /\ TransformStore => OrderInv'
<1> SUFFICES ASSUME IInv, OrderInv, SeriesInv, TransformStore PROVE OrderInv'
  OBVIOUS
<1> DEFINE n == Len(code)
<1>1. /\ UNCHANGED <<prog, block, loadSet, load, pc>>
      /\ pc = "readers"
  BY DEF TransformStore
<1>2. PICK op \in Unvisited :
        /\ Is(op, {"store"})
        /\ visited' = visited \cup {op}
        /\ code' = Append(code, Builtin(op))
        /\ pcodesToBeBuilt' = Append(pcodesToBeBuilt, <<n + 1, op>>)
        /\ deleteSet' = Append(deleteSet, op)
  BY DEF TransformStore
<1>3. /\ NumOps \in Nat /\ n \in Nat /\ NumOps <= n /\ OpId = 1..n /\ NumOps' = NumOps
      /\ Calls = (NumOps + 1)..n
  BY <1>1, OrderTypes DEF NumOps, Calls
<1>4. op \in ToSet(block) /\ op \in 1..NumOps /\ code[op].v = code[load].v /\ op \notin visited
  <2>1. op \in ToSet(block) /\ code[op].v = code[load].v /\ op \notin visited
    BY <1>2 DEF Unvisited, ReadersIn
  <2>2. op \in OpId
    BY <2>1, OrderTypes
  <2> QED BY <1>2, <2>1, <2>2 DEF IInv, CodeInv, Is, Builtins
<1>5. /\ Len(code') = n + 1 /\ code'[n + 1] = Builtin(op)
      /\ \A i \in 1..n : code'[i] = code[i]
  <2>1. PICK S : code \in Seq(S)
    BY DEF IInv, CodeInv
  <2>2. code \in Seq(S \cup {Builtin(op)})
    BY <2>1, SeqMonotonic
  <2> QED BY <1>2, <2>2, AppendProperties
<1>6. OpId' = 1..(n + 1) /\ Calls' = Calls \cup {n + 1}
  BY <1>3, <1>5 DEF OpId, Calls
<1>7. Builtin(op).dst = code[op].p
  BY DEF Builtin
<1>8. ToSet(deleteSet') = ToSet(deleteSet) \cup {op}
  <2>1. ToSet(Append(deleteSet, op)) = ToSet(deleteSet) \cup {op}
    BY DEF ToSet
  <2> QED BY <1>2, <2>1
<1>9. \A i \in 1..n : \A kinds : Is(i, kinds)' = Is(i, kinds)
  BY <1>5 DEF Is
<1>10. load \in 1..NumOps /\ Is(load, {"load", "imm"}) /\ code[load].v # NoVn /\ load \notin loadSet
       /\ loadSet \subseteq 1..NumOps
  BY <1>1, <1>3 DEF IInv, QueueInv, OrderInv, LoadInv
<1>11. LoadInv'
  <2>1. \A l \in loadSet : code[l].v # code[op].v
    <3> SUFFICES ASSUME NEW l \in loadSet, code[l].v = code[op].v PROVE FALSE
      OBVIOUS
    <3>1. l # load /\ l \in 1..NumOps /\ Is(l, {"load", "imm"}) /\ code[l].v = code[load].v
      BY <1>4, <1>10 DEF OrderInv, LoadInv
    <3>2. OpType(code[load]) /\ code[load].v \in VecVn
      BY <1>10, ProgramOps DEF OpType, Is
    <3>3. Writes(code[l], code[load].v) /\ Writes(code[load], code[load].v)
      BY <1>10, <3>1 DEF Writes, Is
    <3> QED BY <1>10, <3>1, <3>2, <3>3, ProgramOps
  <2>2. /\ \A l \in loadSet : l \in 1..n
        /\ \A d \in ToSet(deleteSet') : d \in 1..n
        /\ load \in 1..n
    BY <1>3, <1>4, <1>8, <1>10, OrderTypes
  <2>3. \A l \in loadSet' : Is(l, {"load", "imm"})'
    BY <1>1, <1>9, <2>2 DEF OrderInv, LoadInv
  <2>4. /\ load' \notin loadSet' /\ Is(load, {"load", "imm"})' /\ code'[load].v # NoVn
    BY <1>1, <1>5, <1>9, <1>10, <2>2
  <2>5. \A d \in ToSet(deleteSet') : Is(d, {"store", "load", "imm"})'
    <3>1. \A d \in ToSet(deleteSet) : Is(d, {"store", "load", "imm"})
      BY DEF OrderInv, LoadInv
    <3>2. Is(op, {"store", "load", "imm"})
      BY <1>2 DEF Is
    <3> QED BY <1>8, <1>9, <2>2, <3>1, <3>2
  <2>6. ASSUME NEW d \in ToSet(deleteSet'), Is(d, {"store"})'
        PROVE  /\ \A l \in loadSet' : code'[l].v # NoVn => code'[l].v # code'[d].v
               /\ code'[load].v = code'[d].v => d \in visited'
    <3>1. code'[d] = code[d] /\ code'[load] = code[load] /\ \A l \in loadSet : code'[l] = code[l]
      BY <1>5, <2>2
    <3>2. CASE d = op
      BY <1>1, <1>2, <2>1, <3>1, <3>2
    <3>3. CASE d # op
      <4>1. d \in ToSet(deleteSet) /\ Is(d, {"store"})
        BY <1>8, <1>9, <2>2, <2>6, <3>3
      <4> QED BY <1>1, <1>2, <3>1, <4>1 DEF OrderInv, LoadInv
    <3> QED BY <3>2, <3>3
  <2> QED BY <1>1, <2>3, <2>4, <2>5, <2>6 DEF LoadInv, Is
<1>12. PICK home : Homes(home) /\ InOrder(home) /\ Waiting(home) /\ Accounted(home) /\ Origins(home)
  BY DEF OrderInv, HomesInv
<1>13. PICK home2 : home2[n + 1] = op /\ \A i \in 1..n : home2[i] = home[i]
  <2> WITNESS [i \in 1..(n + 1) |-> IF i = n + 1 THEN op ELSE home[i]]
  <2> QED BY <1>3
<1> HIDE DEF n
<1>14. \A k \in Calls : home[k] # op
  <2> SUFFICES ASSUME NEW k \in Calls, home[k] = op PROVE FALSE
    OBVIOUS
  <2>1. op \in ToSet(deleteSet)
    BY <1>4, <1>12 DEF Accounted
  <2> QED BY <1>1, <1>2, <1>4, <2>1 DEF OrderInv, LoadInv
<1>15. Homes(home2)'
  <2>1. \A i \in 1..NumOps : home2[i] = i
    BY <1>3, <1>12, <1>13 DEF Homes
  <2>2. ASSUME NEW k \in Calls'
        PROVE  /\ home2[k] \in 1..NumOps /\ Is(home2[k], {"store"})'
               /\ code'[k].dst = code'[home2[k]].p
    <3>1. CASE k = n + 1
      BY <1>2, <1>3, <1>4, <1>5, <1>7, <1>9, <1>13, <3>1
    <3>2. CASE k # n + 1
      <4>1. k \in Calls /\ k \in 1..n
        BY <1>3, <1>6, <3>2
      <4>2. home2[k] = home[k] /\ home[k] \in 1..NumOps /\ home[k] \in 1..n
            /\ Is(home[k], {"store"}) /\ code[k].dst = code[home[k]].p
        BY <1>3, <1>12, <1>13, <4>1 DEF Homes
      <4> QED BY <1>5, <1>9, <4>1, <4>2
    <3> QED BY <3>1, <3>2
  <2>3. ASSUME NEW k \in Calls', NEW l \in Calls', home2[k] = home2[l]
        PROVE  k = l
    <3>1. \A i \in Calls : i \in 1..n /\ home2[i] = home[i]
      BY <1>3, <1>13
    <3> QED BY <1>6, <1>12, <1>13, <1>14, <2>3, <3>1 DEF Homes
  <2> QED BY <1>3, <2>1, <2>2, <2>3 DEF Homes
<1>16. InOrder(home2)'
  <2>1. \A i \in DOMAIN block : home2[block[i]] = home[block[i]]
    BY <1>3, <1>13, OrderTypes
  <2> QED BY <1>1, <1>12, <2>1 DEF InOrder, Before
<1>17. n + 1 \notin ToSet(block)
  BY <1>3, OrderTypes
<1>18. /\ Len(pcodesToBeBuilt) \in Nat /\ DOMAIN pcodesToBeBuilt = 1..Len(pcodesToBeBuilt)
       /\ DOMAIN pcodesToBeBuilt' = 1..(Len(pcodesToBeBuilt) + 1)
       /\ pcodesToBeBuilt'[Len(pcodesToBeBuilt) + 1] = <<n + 1, op>>
       /\ \A i \in DOMAIN pcodesToBeBuilt :
            /\ pcodesToBeBuilt'[i] = pcodesToBeBuilt[i]
            /\ pcodesToBeBuilt[i] \in ToSet(pcodesToBeBuilt)
       /\ \A pair \in ToSet(pcodesToBeBuilt) : pair[1] \in Calls
       /\ ToSet(pcodesToBeBuilt') = ToSet(pcodesToBeBuilt) \cup {<<n + 1, op>>}
  <2> DEFINE P == Calls \X (1..NumOps)
             q == pcodesToBeBuilt
  <2>1. q \in Seq(P)
    BY OrderTypes
  <2>2. \A pair \in P : pair[1] \in Calls
    OBVIOUS
  <2> HIDE DEF P
  <2>3. /\ Len(q) \in Nat /\ DOMAIN q = 1..Len(q) /\ ToSet(q) \subseteq P
        /\ \A i \in 1..Len(q) : q[i] \in ToSet(q)
    BY <2>1, ElementsOf
  <2>4. ToSet(q') = ToSet(q) \cup {<<n + 1, op>>}
    BY <1>2 DEF ToSet, n
  <2>5. q' = Append(q, <<n + 1, op>>)
    BY <1>2 DEF n
  <2>6. /\ DOMAIN q' = 1..(Len(q) + 1) /\ q'[Len(q) + 1] = <<n + 1, op>>
        /\ \A i \in 1..Len(q) : q'[i] = q[i]
    BY <2>3, <2>5
  <2> QED BY <2>2, <2>3, <2>4, <2>6
<1>19. Waiting(home2)'
  <2>1. ASSUME NEW pair \in ToSet(pcodesToBeBuilt')
        PROVE  pair[1] \notin ToSet(block) /\ home2[pair[1]] = pair[2]
    <3>1. CASE pair = <<n + 1, op>>
      BY <1>13, <1>17, <3>1
    <3>2. CASE pair # <<n + 1, op>>
      <4>1. pair \in ToSet(pcodesToBeBuilt) /\ pair[1] \in 1..n
        BY <1>3, <1>18, <3>2
      <4> QED BY <1>12, <1>13, <4>1 DEF Waiting
    <3> QED BY <3>1, <3>2
  <2>2. ASSUME NEW i \in DOMAIN pcodesToBeBuilt', NEW j \in DOMAIN pcodesToBeBuilt',
               pcodesToBeBuilt'[i][1] = pcodesToBeBuilt'[j][1]
        PROVE  i = j
    <3>1. \A k \in DOMAIN pcodesToBeBuilt : pcodesToBeBuilt'[k][1] # n + 1
      BY <1>3, <1>18
    <3>2. pcodesToBeBuilt'[Len(pcodesToBeBuilt) + 1][1] = n + 1
      BY <1>18
    <3>3. \A k \in DOMAIN pcodesToBeBuilt' :
             k \in DOMAIN pcodesToBeBuilt \/ k = Len(pcodesToBeBuilt) + 1
      BY <1>18
    <3>4. CASE i \in DOMAIN pcodesToBeBuilt /\ j \in DOMAIN pcodesToBeBuilt
      BY <1>12, <1>18, <2>2, <3>4 DEF Waiting
    <3> QED BY <2>2, <3>1, <3>2, <3>3, <3>4
  <2> QED BY <1>1, <2>1, <2>2 DEF Waiting
<1>20. Accounted(home2)'
  <2>1. Pending \subseteq Pending' /\ n + 1 \in Pending'
    <3>1. <<n + 1, op>> \in ToSet(pcodesToBeBuilt') /\ <<n + 1, op>>[1] = n + 1
      BY <1>18
    <3>2. ToSet(pcodesToBeBuilt) \subseteq ToSet(pcodesToBeBuilt')
      BY <1>18
    <3>3. Pending' = {pair[1] : pair \in ToSet(pcodesToBeBuilt')}
      BY DEF Pending
    <3> QED BY <3>1, <3>2, <3>3 DEF Pending
  <2>2. \A k \in Calls : k \in 1..n /\ home2[k] = home[k]
    BY <1>3, <1>13
  <2>3. \A k \in Calls' : /\ k \in ToSet(block) \cup Pending'
                          /\ home2[k] \in ToSet(block) => home2[k] \in ToSet(deleteSet')
    BY <1>6, <1>8, <1>12, <1>13, <2>1, <2>2 DEF Accounted
  <2>4. ASSUME NEW d \in 1..NumOps, Is(d, {"store", "memcpy", "memset"})'
        PROVE  d \in ToSet(block) \/ \E k \in Calls' : k \in ToSet(block) /\ home2[k] = d
    <3>1. Is(d, {"store", "memcpy", "memset"})
      BY <1>3, <1>9, <2>4
    <3> QED BY <1>6, <1>12, <2>2, <3>1 DEF Accounted
  <2>5. ASSUME NEW d \in ToSet(deleteSet'), Is(d, {"store"})'
        PROVE  \E k \in Calls' : home2[k] = d
    <3>1. CASE d = op
      BY <1>6, <1>13, <3>1
    <3>2. CASE d # op
      <4>1. d \in ToSet(deleteSet) /\ d \in 1..n
        BY <1>3, <1>8, <3>2, OrderTypes
      <4>2. Is(d, {"store"})
        BY <1>9, <2>5, <4>1
      <4> QED BY <1>6, <1>12, <2>2, <4>1, <4>2 DEF Accounted
    <3> QED BY <3>1, <3>2
  <2> QED BY <1>1, <1>3, <2>3, <2>4, <2>5 DEF Accounted
<1>21. Origins(home2)'
  <2>1. \A i \in OpId : code'[i] = code[i]
    BY <1>3, <1>5
  <2>2. ASSUME NEW k \in Calls
        PROVE  Carries(k, home2[k])'
    <3>1. k \in 1..n /\ home2[k] = home[k] /\ home[k] \in 1..NumOps
      BY <1>3, <1>12, <1>13 DEF Homes
    <3> QED BY <1>3, <1>12, <2>1, <3>1, OpsKept DEF Origins
  <2>3. ASSUME NEW k, k = n + 1
        PROVE  Carries(k, op)'
    <3>1. PICK l \in 1..NumOps, t \in 1..NumOps : l = load /\ t = trigger
      BY <1>1, <1>3, <1>10 DEF IInv, QueueInv, TypeOK
    <3>2. Governs(t, l) /\ numBytes = Width(t)
      BY <1>1, <3>1 DEF SeriesInv, Collected
    <3>3. Governs(t, l)' /\ Width(t)' = Width(t)
      BY <1>3, <2>1, <3>2, OpsKept
    <3>4. code'[l] = code[l] /\ code'[op] = code[op] /\ code'[k] = Builtin(op)
      BY <1>3, <1>4, <1>5, <2>3
    <3>5. /\ Is(l, {"load", "imm"})' /\ Is(l, {"imm"})' = Is(l, {"imm"})
          /\ code'[l].v = code'[op].v
      BY <1>4, <1>10, <3>1, <3>4 DEF Is
    <3>6. code'[k] = IF Is(l, {"imm"})
            THEN [kind |-> "memset", dst |-> code[op].p, x |-> code[l].x, n |-> Width(t)]
            ELSE [kind |-> "memcpy", dst |-> code[op].p, src |-> code[l].p, n |-> Width(t)]
      BY <3>1, <3>2, <3>4 DEF Builtin
    <3> QED BY <1>3, <3>3, <3>4, <3>5, <3>6 DEF Carries
  <2>4. ASSUME NEW k \in Calls'
        PROVE  Carries(k, home2[k])'
    <3>1. k \in Calls \/ (k = n + 1 /\ home2[k] = op)
      BY <1>6, <1>13
    <3> QED BY <2>2, <2>3, <3>1
  <2> QED BY <2>4 DEF Origins
<1>22. HomesInv'
  BY <1>15, <1>16, <1>19, <1>20, <1>21 DEF HomesInv
<1> QED BY <1>11, <1>22 DEF OrderInv

(* The call comes directly in front of its store, so that what else is in  *)
(* the block is before both or behind both.                                *)
LEMMA OrderBuild == IInv /\ OrderInv /\ BuildNext => OrderInv'
<1> SUFFICES ASSUME IInv, OrderInv, BuildNext PROVE OrderInv'
  OBVIOUS
<1> DEFINE P == Calls \X (1..NumOps)
           q == pcodesToBeBuilt
<1>1. /\ UNCHANGED <<prog, code, loadSet, load, visited, deleteSet, pc>>
      /\ pc = "build" /\ q # <<>>
      /\ block' = InsertBefore(block, Head(q)) /\ q' = Tail(q)
  BY DEF BuildNext
<1>2. OpId' = OpId /\ NumOps' = NumOps /\ Calls' = Calls
  BY <1>1 DEF OpId, NumOps, Calls
<1>3. \A s, kinds : Is(s, kinds)' = Is(s, kinds)
  BY <1>1 DEF Is
<1>4. LoadInv'
  BY <1>1, <1>3 DEF OrderInv, LoadInv
<1>5. PICK home : Homes(home) /\ InOrder(home) /\ Waiting(home) /\ Accounted(home) /\ Origins(home)
  BY DEF OrderInv, HomesInv
<1>6. PICK pair \in P : pair = Head(q)
  <2>1. q \in Seq(P)
    BY OrderTypes
  <2> HIDE DEF P
  <2> QED BY <1>1, <2>1, HeadTailElements
<1>7. /\ ToSet(q) = {pair} \cup ToSet(q')
      /\ Len(q) \in Nat /\ DOMAIN q = 1..Len(q) /\ DOMAIN q' = 1..(Len(q) - 1)
      /\ q[1] = pair /\ \A i \in 1..(Len(q) - 1) : q'[i] = q[i + 1]
      /\ Len(q) >= 1
      /\ \A other \in ToSet(q') : \E i \in 1..(Len(q) - 1) : q'[i] = other
  <2>1. q \in Seq(P)
    BY OrderTypes
  <2> HIDE DEF P
  <2>2. ToSet(q) = {pair} \cup ToSet(q') /\ q' \in Seq(P)
    BY <1>1, <1>6, <2>1, HeadTailElements
  <2>3. /\ Len(q) \in Nat /\ Len(q) >= 1 /\ Len(q') = Len(q) - 1 /\ q[1] = pair
        /\ \A i \in 1..Len(q') : q'[i] = q[i + 1]
    BY <1>1, <1>6, <2>1, HeadTailProperties
  <2>4. DOMAIN q = 1..Len(q) /\ DOMAIN q' = 1..Len(q')
    BY <2>1, <2>2, LenProperties
  <2>5. \A other \in ToSet(q') : \E i \in 1..Len(q') : q'[i] = other
    BY <2>2, ElementsOf
  <2> QED BY <2>2, <2>3, <2>4, <2>5
<1> DEFINE n == pair[1]
           s == pair[2]
<1>8. n \in Calls /\ n \in OpId /\ s \in 1..NumOps /\ n > NumOps
  BY <1>6, OrderTypes DEF Calls
<1>9. n \notin ToSet(block) /\ home[n] = s /\ s \in ToSet(block)
  BY <1>5, <1>7 DEF Waiting, IInv, QueueInv
<1> DEFINE p == PositionOf(block, s)
           k == Len(block)
<1>10. p \in 1..k /\ block[p] = s
  <2>1. \E i \in DOMAIN block : block[i] = s
    BY <1>9, OrderTypes
  <2> QED BY <2>1, OrderTypes DEF PositionOf
<1>11. /\ block' = InsertAt(block, p, n)
       /\ ToSet(block') = ToSet(block) \cup {n} /\ DOMAIN block' = 1..(k + 1)
       /\ \A j \in 1..(k + 1) :
            block'[j] = IF j < p THEN block[j] ELSE IF j = p THEN n ELSE block[j - 1]
  <2>1. block' = InsertAt(block, p, n)
    BY <1>1, <1>6 DEF InsertBefore
  <2>2. block \in Seq(OpId) /\ p \in 1..(k + 1) /\ n \in OpId
    BY <1>8, <1>10, OrderTypes
  <2> HIDE DEF p, n
  <2>3. /\ InsertAt(block, p, n) \in Seq(OpId) /\ Len(InsertAt(block, p, n)) = k + 1
        /\ ToSet(InsertAt(block, p, n)) = ToSet(block) \cup {n}
        /\ \A j \in 1..(k + 1) :
             InsertAt(block, p, n)[j] = IF j < p THEN block[j] ELSE IF j = p THEN n ELSE block[j - 1]
    BY <2>2, InsertAtFacts
  <2> QED BY <2>1, <2>3, LenProperties
<1> HIDE DEF n, s, p, k
<1>12. Homes(home)'
  BY <1>1, <1>2, <1>3, <1>5 DEF Homes
<1>13. /\ NumOps \in Nat /\ k \in Nat
       /\ \A i \in 1..k : block[i] \in Nat /\ home[block[i]] \in 1..NumOps
       /\ s \in Nat /\ n \in Nat /\ home[s] = s
  <2>1. ASSUME NEW i \in 1..k PROVE home[block[i]] \in 1..NumOps
    <3>1. block[i] \in OpId
      BY OrderTypes DEF k
    <3> QED BY <1>5, <3>1 DEF Homes, Calls
  <2> QED BY <1>5, <1>8, <2>1, OrderTypes DEF k, Homes
<1>14. ASSUME NEW i \in 1..k, i < p PROVE home[block[i]] < s
  <2>1. Before(home, block[i], s)
    BY <1>5, <1>10, <1>14, OrderTypes DEF InOrder, k
  <2>2. CASE home[block[i]] = s /\ block[i] > s
    <3>1. block[i] \in OpId /\ block[i] \in ToSet(block)
      BY OrderTypes DEF k
    <3>2. block[i] \in Calls
      BY <1>5, <2>2, <3>1, <1>13 DEF Homes, Calls
    <3> QED BY <1>5, <1>8, <1>9, <2>2, <3>1, <3>2 DEF Homes
  <2> QED BY <1>13, <2>1, <2>2 DEF Before
<1>15. ASSUME NEW i \in 1..k, i > p PROVE s < home[block[i]]
  <2>1. Before(home, s, block[i])
    BY <1>5, <1>10, <1>15, OrderTypes DEF InOrder, k
  <2>2. CASE home[block[i]] = s /\ s > block[i]
    <3>1. block[i] \in 1..NumOps
      BY <1>8, <1>13, <2>2, OrderTypes DEF k
    <3> QED BY <1>5, <1>13, <2>2, <3>1 DEF Homes
  <2> QED BY <1>13, <2>1, <2>2 DEF Before
<1>16. InOrder(home)'
  <2> SUFFICES ASSUME NEW i \in 1..(k + 1), NEW j \in 1..(k + 1), i < j
               PROVE  Before(home, block'[i], block'[j])
    BY <1>11 DEF InOrder, Before
  <2>1. \A x, y \in 1..k : x < y => Before(home, block[x], block[y])
    BY <1>5, OrderTypes DEF InOrder, k
  <2>2. i \in Nat /\ j \in Nat /\ p \in Nat /\ k \in Nat /\ p >= 1 /\ p <= k
    BY <1>10, <1>13
  <2>3. CASE j < p
    <3>1. i \in 1..k /\ j \in 1..k /\ block'[i] = block[i] /\ block'[j] = block[j]
      BY <1>11, <2>2, <2>3
    <3> QED BY <2>1, <3>1
  <2>4. CASE j = p
    <3>1. i \in 1..k /\ i < p /\ block'[i] = block[i] /\ block'[j] = n
      BY <1>11, <2>2, <2>4
    <3> QED BY <1>9, <1>14, <3>1 DEF Before, n, s
  <2>5. CASE i = p /\ j = p + 1
    <3>1. block'[i] = n /\ block'[j] = s
      BY <1>10, <1>11, <2>2, <2>5
    <3>2. home[n] = home[s] /\ n > s
      BY <1>8, <1>9, <1>13 DEF n, s
    <3> QED BY <3>1, <3>2 DEF Before
  <2>6. CASE i = p /\ j > p + 1
    <3>1. j - 1 \in 1..k /\ j - 1 > p /\ block'[i] = n /\ block'[j] = block[j - 1]
      BY <1>11, <2>2, <2>6
    <3> QED BY <1>9, <1>15, <3>1 DEF Before, n, s
  <2>7. CASE i < p /\ j > p
    <3>1. i \in 1..k /\ j - 1 \in 1..k /\ i < j - 1
      BY <2>2, <2>7
    <3>2. block'[i] = block[i] /\ block'[j] = block[j - 1]
      BY <1>11, <2>2, <2>7
    <3> QED BY <2>1, <3>1, <3>2
  <2>8. CASE i > p
    <3>1. i - 1 \in 1..k /\ j - 1 \in 1..k /\ i - 1 < j - 1
      BY <2>2, <2>8
    <3>2. block'[i] = block[i - 1] /\ block'[j] = block[j - 1]
      BY <1>11, <2>2, <2>8
    <3> QED BY <2>1, <3>1, <3>2
  <2> QED BY <2>2, <2>3, <2>4, <2>5, <2>6, <2>7, <2>8
<1>17. Waiting(home)'
  <2>1. ASSUME NEW i \in 1..(Len(q) - 1) PROVE q'[i][1] # n
    <3>1. i + 1 \in 1..Len(q) /\ 1 \in 1..Len(q) /\ i + 1 # 1 /\ q'[i] = q[i + 1]
      BY <1>7
    <3> QED BY <1>5, <1>7, <3>1 DEF Waiting, n
  <2>2. ASSUME NEW other \in ToSet(q')
        PROVE  other[1] \notin ToSet(block') /\ home[other[1]] = other[2]
    <3>1. other[1] # n
      BY <1>7, <2>1
    <3> QED BY <1>5, <1>7, <1>11, <3>1 DEF Waiting
  <2>3. ASSUME NEW i \in DOMAIN q', NEW j \in DOMAIN q', q'[i][1] = q'[j][1]
        PROVE  i = j
    <3>1. /\ i \in 1..(Len(q) - 1) /\ j \in 1..(Len(q) - 1)
          /\ i + 1 \in DOMAIN q /\ j + 1 \in DOMAIN q
          /\ q'[i] = q[i + 1] /\ q'[j] = q[j + 1]
      BY <1>7
    <3>2. i + 1 = j + 1
      BY <1>5, <2>3, <3>1 DEF Waiting
    <3> QED BY <3>1, <3>2
  <2> QED BY <2>2, <2>3 DEF Waiting
<1>18. Accounted(home)'
  <2>1. Pending \subseteq Pending' \cup {n}
    BY <1>7 DEF Pending, n
  <2>2. \A o \in Calls : home[o] \in 1..NumOps
    BY <1>5 DEF Homes
  <2>3. n \notin 1..NumOps
    BY <1>8 DEF n, Calls
  <2>4. \A o \in Calls : /\ o \in ToSet(block') \cup Pending'
                         /\ home[o] \in ToSet(block') => home[o] \in ToSet(deleteSet')
    BY <1>1, <1>5, <1>11, <2>1, <2>2, <2>3 DEF Accounted
  <2>5. \A d \in 1..NumOps : Is(d, {"store", "memcpy", "memset"}) =>
          d \in ToSet(block') \/ \E o \in Calls : o \in ToSet(block') /\ home[o] = d
    BY <1>5, <1>11 DEF Accounted
  <2>6. \A d \in ToSet(deleteSet') : Is(d, {"store"}) => \E o \in Calls : home[o] = d
    BY <1>1, <1>5 DEF Accounted
  <2>7. \A d : /\ Is(d, {"store", "memcpy", "memset"})' = Is(d, {"store", "memcpy", "memset"})
              /\ Is(d, {"store"})' = Is(d, {"store"})
    BY <1>3
  <2> QED BY <1>2, <2>4, <2>5, <2>6, <2>7 DEF Accounted
<1>19. Origins(home)'
  BY <1>1, <1>2, <1>5, OpsKept DEF Origins, Homes
<1>20. HomesInv'
  BY <1>12, <1>16, <1>17, <1>18, <1>19 DEF HomesInv
<1> QED BY <1>4, <1>20 DEF OrderInv

(* A store leaves the block when its call is there. *)
LEMMA OrderDelete == IInv /\ OrderInv /\ DeleteNext => OrderInv'
<1> SUFFICES ASSUME IInv, OrderInv, DeleteNext PROVE OrderInv'
  OBVIOUS
<1>1. /\ UNCHANGED <<prog, code, loadSet, load, visited, pcodesToBeBuilt, pc>>
      /\ pc = "delete" /\ deleteSet # <<>> /\ deleteSet' = Tail(deleteSet)
  BY DEF DeleteNext
<1>2. OpId' = OpId /\ NumOps' = NumOps /\ Calls' = Calls /\ Pending' = Pending
  BY <1>1 DEF OpId, NumOps, Calls, Pending
<1>3. \A s, kinds : Is(s, kinds)' = Is(s, kinds)
  BY <1>1 DEF Is
<1>4. PICK home : Homes(home) /\ InOrder(home) /\ Waiting(home) /\ Accounted(home) /\ Origins(home)
  BY DEF OrderInv, HomesInv
<1>5. PICK op : op = Head(deleteSet) /\ ToSet(deleteSet) = {op} \cup ToSet(deleteSet')
  BY <1>1, OrderTypes, HeadTailElements
<1>6. LoadInv'
  BY <1>1, <1>3, <1>5 DEF OrderInv, LoadInv
<1>7. block' = IF Deletable(op) THEN RemoveFirst(block, op) ELSE block
  BY <1>5 DEF DeleteNext
<1>8. /\ NumOps \in Nat
      /\ \A i \in DOMAIN block : block[i] \in Nat /\ home[block[i]] \in Nat
  <2>1. ASSUME NEW i \in DOMAIN block PROVE block[i] \in Nat /\ home[block[i]] \in Nat
    <3>1. block[i] \in OpId
      BY OrderTypes
    <3> QED BY <1>4, <3>1, OrderTypes DEF Homes, Calls
  <2> QED BY <2>1, OrderTypes
<1>9. \A i, j \in 1..Len(block) : block[i] = block[j] => i = j
  <2> SUFFICES ASSUME NEW i \in 1..Len(block), NEW j \in 1..Len(block),
                      block[i] = block[j], i < j
               PROVE  FALSE
    BY OrderTypes
  <2>1. i \in DOMAIN block /\ j \in DOMAIN block
    BY OrderTypes
  <2>2. Before(home, block[i], block[i])
    BY <1>4, <2>1 DEF InOrder
  <2> QED BY <1>8, <2>1, <2>2 DEF Before
<1>10. /\ block' \in Seq(OpId) /\ ToSet(block') \subseteq ToSet(block)
       /\ \A x \in ToSet(block) : x # op \/ ~Deletable(op) => x \in ToSet(block')
       /\ Deletable(op) => op \notin ToSet(block')
  BY <1>7, <1>9, OrderTypes, RemoveFirstFacts, RemoveFirstOrder
<1>11. InOrder(home)'
  <2> SUFFICES ASSUME NEW i \in 1..Len(block'), NEW j \in 1..Len(block'), i < j
               PROVE  Before(home, block'[i], block'[j])
    BY <1>10, LenProperties DEF InOrder, Before
  <2>1. \A k, l \in 1..Len(block) : k < l => Before(home, block[k], block[l])
    BY <1>4, OrderTypes DEF InOrder
  <2>2. \E k, l \in 1..Len(block) : k < l /\ block[k] = block'[i] /\ block[l] = block'[j]
    <3>1. CASE Deletable(op)
      <4>1. block' = RemoveFirst(block, op) /\ block \in Seq(OpId)
        BY <1>7, <3>1, OrderTypes
      <4> QED BY <4>1, RemoveFirstPair
    <3>2. CASE ~Deletable(op)
      BY <1>7, <3>2
    <3> QED BY <3>1, <3>2
  <2> QED BY <2>1, <2>2
<1>12. Homes(home)'
  BY <1>1, <1>2, <1>3, <1>4 DEF Homes
<1>13. pcodesToBeBuilt = <<>> /\ ToSet(pcodesToBeBuilt) = {} /\ Pending = {}
  <2>1. pcodesToBeBuilt = <<>>
    BY <1>1 DEF IInv, QueueInv
  <2> QED BY <2>1 DEF ToSet, Pending
<1>14. Waiting(home)'
  BY <1>1, <1>4, <1>13 DEF Waiting
<1>15. \A n \in Calls : n \in ToSet(block) /\ n # op /\ n \in ToSet(block')
  <2>1. op \in 1..NumOps
    BY <1>5, OrderTypes
  <2> QED BY <1>4, <1>10, <1>13, <2>1 DEF Accounted, Calls
<1>16. Accounted(home)'
  <2>1. ASSUME NEW n \in Calls, home[n] \in ToSet(block')
        PROVE  home[n] \in ToSet(deleteSet')
    <3>1. home[n] \in ToSet(deleteSet) /\ Is(home[n], {"store"})
      BY <1>4, <1>10, <2>1 DEF Accounted, Homes
    <3>2. Deletable(home[n])
      BY <3>1 DEF Deletable
    <3> QED BY <1>5, <1>10, <2>1, <3>1, <3>2
  <2>2. ASSUME NEW d \in 1..NumOps, Is(d, {"store", "memcpy", "memset"})
        PROVE  d \in ToSet(block') \/ \E n \in Calls : n \in ToSet(block') /\ home[n] = d
    <3>1. CASE d # op
      BY <1>4, <1>10, <1>15, <2>2, <3>1 DEF Accounted
    <3>2. CASE d = op
      <4>1. Is(op, {"store", "load", "imm"}) /\ op \in ToSet(deleteSet)
        BY <1>5 DEF OrderInv, LoadInv
      <4>2. Is(op, {"store"})
        BY <2>2, <3>2, <4>1 DEF Is
      <4> QED BY <1>4, <1>15, <3>2, <4>1, <4>2 DEF Accounted
    <3> QED BY <3>1, <3>2
  <2>3. \A d \in ToSet(deleteSet') : Is(d, {"store"}) => \E n \in Calls : home[n] = d
    BY <1>4, <1>5 DEF Accounted
  <2>4. \A d : /\ Is(d, {"store", "memcpy", "memset"})' = Is(d, {"store", "memcpy", "memset"})
              /\ Is(d, {"store"})' = Is(d, {"store"})
    BY <1>3
  <2> QED BY <1>2, <1>15, <2>1, <2>2, <2>3, <2>4 DEF Accounted
<1>17. Origins(home)'
  BY <1>1, <1>2, <1>4, OpsKept DEF Origins, Homes
<1>18. HomesInv'
  BY <1>11, <1>12, <1>14, <1>16, <1>17 DEF HomesInv
<1> QED BY <1>6, <1>18 DEF OrderInv

(* Between two rules, every op of the program that writes memory is found  *)
(* in the block, itself or as its call, and never both.                    *)
LEMMA OrderGives == IInv /\ OrderInv => WritesInOrder
<1> SUFFICES ASSUME IInv, OrderInv, pc \in {"pool", "settled"}
             PROVE  \E was \in Bijection(Writing(block), Writing(Original)) :
                      \A i \in Writing(block) :
                        /\ WriteAddress(block[i]) = WriteAddress(Original[was[i]])
                        /\ \A j \in Writing(block) : i < j => was[i] < was[j]
  BY DEF WritesInOrder
<1> DEFINE kinds == {"store", "memcpy", "memset"}
           S == Writing(block)
           T == Writing(Original)
<1>1. PICK home : Homes(home) /\ InOrder(home) /\ Waiting(home) /\ Accounted(home) /\ Origins(home)
  BY DEF OrderInv, HomesInv
<1>2. deleteSet = <<>> /\ pcodesToBeBuilt = <<>> /\ ToSet(deleteSet) = {} /\ Pending = {}
  <2>1. deleteSet = <<>> /\ pcodesToBeBuilt = <<>>
    BY DEF OrderInv, LoadInv, IInv, QueueInv
  <2> QED BY <2>1 DEF ToSet, Pending
<1>3. T = {i \in 1..NumOps : Is(i, kinds)} /\ \A i \in 1..NumOps : Original[i] = i
  BY DEF Writing, Original
<1>4. S = {i \in DOMAIN block : Is(block[i], kinds)}
  BY DEF Writing
<1>5. \A n \in Calls : Is(n, kinds) /\ ~Is(n, {"store"})
  BY DEF IInv, CodeInv, Calls, Is, Builtins
<1> HIDE DEF S, T, kinds
<1> DEFINE was == [i \in S |-> home[block[i]]]
<1>6. \A i \in S :
        /\ block[i] \in OpId /\ block[i] \in ToSet(block) /\ Is(block[i], kinds)
        /\ was[i] = home[block[i]]
        /\ block[i] \in Calls \/ (block[i] \in 1..NumOps /\ home[block[i]] = block[i])
  <2> TAKE i \in S
  <2>1. block[i] \in OpId /\ block[i] \in ToSet(block) /\ Is(block[i], kinds)
    BY <1>4, OrderTypes
  <2>2. block[i] \in Calls \/ block[i] \in 1..NumOps
    BY <2>1 DEF Calls
  <2> QED BY <1>1, <2>1, <2>2 DEF Homes
<1> HIDE DEF was
<1>7. ASSUME NEW i \in S
      PROVE  was[i] \in T /\ WriteAddress(block[i]) = WriteAddress(was[i])
  <2>1. CASE block[i] \in Calls
    <3>1. was[i] \in 1..NumOps /\ Is(was[i], {"store"}) /\ code[block[i]].dst = code[was[i]].p
      BY <1>1, <1>6, <2>1 DEF Homes
    <3>2. Is(was[i], kinds)
      BY <3>1 DEF Is, kinds
    <3> QED BY <1>3, <1>5, <2>1, <3>1, <3>2 DEF WriteAddress
  <2>2. CASE block[i] \notin Calls
    BY <1>3, <1>6, <2>2
  <2> QED BY <2>1, <2>2
<1>8. ASSUME NEW i \in S, NEW j \in S, i < j
      PROVE  was[i] < was[j]
  <2>1. Before(home, block[i], block[j])
    BY <1>1, <1>4, <1>8 DEF InOrder
  <2>2. ASSUME home[block[i]] = home[block[j]], block[i] > block[j]
        PROVE  FALSE
    <3>1. \A n \in Calls : home[n] \notin ToSet(block)
      BY <1>1, <1>2 DEF Accounted
    <3>2. block[i] # block[j]
      BY <1>6, <2>2, OrderTypes
    <3> QED BY <1>1, <1>6, <2>2, <3>1, <3>2 DEF Homes
  <2> QED BY <1>6, <2>1, <2>2 DEF Before
<1>9. was \in [S -> T] /\ \A i, j \in S : was[i] = was[j] => i = j
  <2>1. was \in [S -> T]
    BY <1>7 DEF was
  <2>2. \A i \in S : i \in Nat /\ was[i] \in Nat
    BY <1>3, <1>4, <1>7, OrderTypes
  <2>3. ASSUME NEW i \in S, NEW j \in S, was[i] = was[j]
        PROVE  i = j
    BY <1>8, <2>2, <2>3
  <2> QED BY <2>1, <2>3
<1>10. ASSUME NEW t \in T
       PROVE  \E i \in S : was[i] = t
  <2>1. t \in 1..NumOps /\ Is(t, kinds) /\ home[t] = t
    BY <1>1, <1>3 DEF Homes
  <2>2. PICK o \in ToSet(block) : home[o] = t /\ Is(o, kinds)
    BY <1>1, <1>5, <2>1 DEF Accounted, kinds
  <2>3. PICK i \in DOMAIN block : block[i] = o
    BY OrderTypes
  <2> QED BY <1>4, <1>6, <2>2, <2>3
<1>11. was \in Bijection(S, T)
  <2>1. was \in Injection(S, T)
    BY <1>9 DEF Injection, IsInjective
  <2>2. was \in Surjection(S, T)
    BY <1>9, <1>10 DEF Surjection
  <2> QED BY <2>1, <2>2 DEF Bijection
<1>12. \A i \in S : /\ WriteAddress(block[i]) = WriteAddress(Original[was[i]])
                    /\ \A j \in S : i < j => was[i] < was[j]
  BY <1>3, <1>7, <1>8
<1> QED BY <1>11, <1>12 DEF S, T

-----------------------------------------------------------------------------
(* What the block does.  The run of the block is compared with that of the *)
(* program op by op, by induction over the program.                        *)

(* The run of n ops after Start, as States defines it for the whole block *)
IsRun(f, b, n) ==
  f = [i \in 0..n |-> IF i = 0 THEN Start ELSE Run(f[i - 1], b[i])]

LEMMA StatesFacts ==
  ASSUME NEW b, Len(b) \in Nat
  PROVE  /\ States(b)[0] = Start
         /\ \A i \in 1..Len(b) : States(b)[i] = Run(States(b)[i - 1], b[i])
<1> DEFINE n == Len(b)
           P == {k \in 0..n : \E f : IsRun(f, b, k)}
<1>1. 0 \in P
  <2>1. IsRun([i \in 0..0 |-> Start], b, 0)
    BY DEF IsRun
  <2> QED BY <2>1
<1>2. ASSUME NEW k \in 0..(n - 1), k \in P
      PROVE  k + 1 \in P
  <2>1. PICK f : IsRun(f, b, k)
    BY <1>2
  <2> DEFINE g == [i \in 0..(k + 1) |-> IF i = k + 1 THEN Run(f[k], b[k + 1]) ELSE f[i]]
  <2>2. ASSUME NEW i \in 0..(k + 1)
        PROVE  g[i] = IF i = 0 THEN Start ELSE Run(g[i - 1], b[i])
    <3>1. CASE i = k + 1
      <4>1. i # 0 /\ i - 1 = k /\ i - 1 \in 0..(k + 1) /\ i - 1 # k + 1
        BY <3>1
      <4>2. g[i] = Run(f[k], b[i]) /\ g[i - 1] = f[k]
        BY <3>1, <4>1
      <4> QED BY <4>1, <4>2
    <3>2. CASE i # k + 1
      <4>1. i \in 0..k /\ g[i] = f[i]
        BY <3>2
      <4>2. f[i] = IF i = 0 THEN Start ELSE Run(f[i - 1], b[i])
        BY <2>1, <4>1 DEF IsRun
      <4>3. i # 0 => i - 1 \in 0..(k + 1) /\ i - 1 # k + 1 /\ g[i - 1] = f[i - 1]
        BY <3>2
      <4> QED BY <4>1, <4>2, <4>3
    <3> QED BY <3>1, <3>2
  <2>3. IsRun(g, b, k + 1)
    <3>1. DOMAIN g = 0..(k + 1) /\ g = [i \in 0..(k + 1) |-> g[i]]
      OBVIOUS
    <3> HIDE DEF g
    <3> QED BY <2>2, <3>1 DEF IsRun
  <2>4. k + 1 \in 0..n
    OBVIOUS
  <2> QED BY <2>3, <2>4
<1>3. n \in P
  <2>1. \A i \in 0..n : i \in P
    <3> HIDE DEF P
    <3> QED BY <1>1, <1>2, RangeInduction
  <2> QED BY <2>1
<1>4. \E f : f = [i \in 0..n |-> IF i = 0 THEN Start ELSE Run(f[i - 1], b[i])]
  BY <1>3 DEF IsRun
<1>5. States(b) = [i \in 0..n |-> IF i = 0 THEN Start ELSE Run(States(b)[i - 1], b[i])]
  BY <1>4 DEF States
<1> QED BY <1>5

IsState(s) ==
  DOMAIN s = {"mem", "reg", "n", "size", "seen"} /\ DOMAIN s.reg = VecVn

(* t is the state that op makes of s, field by field. *)
Stepped(s, op, t) ==
  LET c == code[op]
  IN /\ t.n = IF c.kind \in Settings THEN c.avl ELSE s.n
     /\ t.size = IF c.kind \in Settings THEN c.elementSize ELSE s.size
     /\ t.mem = IF c.kind = "store" THEN Stored(s.mem, c.p, s.n * c.width, s.reg[c.v])
                ELSE IF c.kind = "memcpy" THEN Stored(s.mem, c.dst, c.n, At(s.mem, c.src, c.n))
                ELSE IF c.kind = "memset" THEN Stored(s.mem, c.dst, c.n, [i \in Bytes |-> c.x])
                ELSE s.mem
     /\ t.seen = IF c.kind = "other" THEN [s.seen EXCEPT ![op] = s.reg[c.v]] ELSE s.seen
     /\ \A v \in VecVn :
          t.reg[v] = IF c.kind = "load" /\ c.v = v THEN At(s.mem, c.p, s.n * c.width)
                     ELSE IF c.kind = "imm" /\ c.v = v THEN Elements(c.x, s.size, s.n * s.size)
                     ELSE IF c.kind = "other" /\ c.w = v THEN Operated(s.reg[c.v])
                     ELSE s.reg[v]

LEMMA RunFacts ==
  ASSUME NEW s, NEW op, IsState(s)
  PROVE  IsState(Run(s, op)) /\ Stepped(s, op, Run(s, op))
<1> SUFFICES ASSUME NEW t, t = Run(s, op)
             PROVE  IsState(t) /\ Stepped(s, op, t)
  OBVIOUS
<1> DEFINE c == code[op]
<1>0. NoVn \notin VecVn
  BY SeriesAssumption
<1>1. CASE c.kind \in Settings
  <2>1. t = [s EXCEPT !.n = c.avl, !.size = c.elementSize]
    BY <1>1 DEF Run, Settings
  <2>2. /\ DOMAIN t = {"mem", "reg", "n", "size", "seen"}
        /\ t.mem = s.mem
        /\ t.reg = s.reg
        /\ t.n = c.avl
        /\ t.size = c.elementSize
        /\ t.seen = s.seen
    BY <2>1 DEF IsState
  <2> QED BY <1>1, <2>2 DEF IsState, Settings, Stepped
<1>2. CASE c.kind = "load"
  <2>1. CASE c.v = NoVn
    <3>1. t = s
      BY <1>2, <2>1 DEF Run
    <3> QED BY <1>0, <1>2, <2>1, <3>1 DEF IsState, Settings, Stepped
  <2>2. CASE c.v # NoVn
    <3>1. t = [s EXCEPT !.reg[c.v] = At(s.mem, c.p, s.n * c.width)]
      BY <1>2, <2>2 DEF Run
    <3> QED BY <1>2, <2>2, <3>1 DEF IsState, Settings, Stepped
  <2> QED BY <2>1, <2>2
<1>3. CASE c.kind = "imm"
  <2>1. CASE c.v = NoVn
    <3>1. t = s
      BY <1>3, <2>1 DEF Run
    <3> QED BY <1>0, <1>3, <2>1, <3>1 DEF IsState, Settings, Stepped
  <2>2. CASE c.v # NoVn
    <3>1. t = [s EXCEPT !.reg[c.v] = Elements(c.x, s.size, s.n * s.size)]
      BY <1>3, <2>2 DEF Run
    <3> QED BY <1>3, <2>2, <3>1 DEF IsState, Settings, Stepped
  <2> QED BY <2>1, <2>2
<1>4. CASE c.kind = "store"
  <2>1. t = [s EXCEPT !.mem = Stored(s.mem, c.p, s.n * c.width, s.reg[c.v])]
    BY <1>4 DEF Run
  <2>2. /\ DOMAIN t = {"mem", "reg", "n", "size", "seen"}
        /\ t.mem = Stored(s.mem, c.p, s.n * c.width, s.reg[c.v])
        /\ t.reg = s.reg
        /\ t.n = s.n
        /\ t.size = s.size
        /\ t.seen = s.seen
    BY <2>1 DEF IsState
  <2> QED BY <1>4, <2>2 DEF IsState, Settings, Stepped
<1>5. CASE c.kind = "other"
  <2>1. t = [s EXCEPT !.seen[op] = s.reg[c.v], !.reg[c.w] = Operated(s.reg[c.v])]
    BY <1>5 DEF Run
  <2>2. /\ DOMAIN t = {"mem", "reg", "n", "size", "seen"}
        /\ t.mem = s.mem
        /\ t.reg = [s.reg EXCEPT ![c.w] = Operated(s.reg[c.v])]
        /\ t.n = s.n
        /\ t.size = s.size
        /\ t.seen = [s.seen EXCEPT ![op] = s.reg[c.v]]
    BY <2>1 DEF IsState
  <2> QED BY <1>5, <2>2 DEF IsState, Settings, Stepped
<1>6. CASE c.kind = "memcpy"
  <2>1. t = [s EXCEPT !.mem = Stored(s.mem, c.dst, c.n, At(s.mem, c.src, c.n))]
    BY <1>6 DEF Run
  <2>2. /\ DOMAIN t = {"mem", "reg", "n", "size", "seen"}
        /\ t.mem = Stored(s.mem, c.dst, c.n, At(s.mem, c.src, c.n))
        /\ t.reg = s.reg
        /\ t.n = s.n
        /\ t.size = s.size
        /\ t.seen = s.seen
    BY <2>1 DEF IsState
  <2> QED BY <1>6, <2>2 DEF IsState, Settings, Stepped
<1>7. CASE c.kind = "memset"
  <2>1. t = [s EXCEPT !.mem = Stored(s.mem, c.dst, c.n, [i \in Bytes |-> c.x])]
    BY <1>7 DEF Run
  <2>2. /\ DOMAIN t = {"mem", "reg", "n", "size", "seen"}
        /\ t.mem = Stored(s.mem, c.dst, c.n, [i \in Bytes |-> c.x])
        /\ t.reg = s.reg
        /\ t.n = s.n
        /\ t.size = s.size
        /\ t.seen = s.seen
    BY <2>1 DEF IsState
  <2> QED BY <1>7, <2>2 DEF IsState, Settings, Stepped
<1>8. CASE c.kind \notin {"vset", "vseti", "load", "imm", "store", "other", "memcpy", "memset"}
  <2>1. t = s
    BY <1>8 DEF Run
  <2>2. /\ DOMAIN t = {"mem", "reg", "n", "size", "seen"}
        /\ t.mem = s.mem
        /\ t.reg = s.reg
        /\ t.n = s.n
        /\ t.size = s.size
        /\ t.seen = s.seen
    BY <2>1 DEF IsState
  <2> QED BY <1>8, <2>2 DEF IsState, Settings, Stepped
<1>9. c.kind \in {"vset", "vseti", "load", "imm", "store", "other", "memcpy", "memset"}
        => c.kind \in Settings \/ c.kind \in {"load", "imm", "store", "other", "memcpy", "memset"}
  BY DEF Settings
<1> QED BY <1>1, <1>2, <1>3, <1>4, <1>5, <1>6, <1>7, <1>8, <1>9

(* The states of a run are states, each made of the one before by its op. *)
LEMMA TraceFacts ==
  ASSUME NEW b, Len(b) \in Nat
  PROVE  /\ States(b)[0] = Start
         /\ \A i \in 0..Len(b) : IsState(States(b)[i])
         /\ \A i \in 1..Len(b) : Stepped(States(b)[i - 1], b[i], States(b)[i])
<1> DEFINE f == States(b)
           P == {i \in 0..Len(b) : IsState(f[i])}
<1>1. f[0] = Start /\ \A i \in 1..Len(b) : f[i] = Run(f[i - 1], b[i])
  BY StatesFacts
<1> HIDE DEF f
<1>2. IsState(Start)
  BY DEF Start, IsState
<1>3. ASSUME NEW i \in 0..(Len(b) - 1), IsState(f[i])
      PROVE  IsState(f[i + 1])
  <2>1. i + 1 \in 1..Len(b) /\ (i + 1) - 1 = i
    OBVIOUS
  <2>2. f[i + 1] = Run(f[i], b[i + 1])
    BY <1>1, <2>1
  <2> QED BY <1>3, <2>2, RunFacts
<1>4. \A i \in 0..Len(b) : i \in P
  <2>1. 0 \in P
    BY <1>1, <1>2
  <2>2. \A i \in 0..(Len(b) - 1) : i \in P => i + 1 \in P
    BY <1>3
  <2> HIDE DEF P
  <2> QED BY <2>1, <2>2, RangeInduction
<1>5. ASSUME NEW i \in 1..Len(b)
      PROVE  Stepped(f[i - 1], b[i], f[i])
  <2>1. i - 1 \in 0..Len(b)
    OBVIOUS
  <2>2. IsState(f[i - 1])
    BY <1>4, <2>1
  <2> QED BY <1>1, <2>2, RunFacts
<1> QED BY <1>1, <1>4, <1>5 DEF f

(* The run of the program as it was *)
Trace == States(Original)

LEMMA ProgramTrace ==
  ASSUME IInv
  PROVE  /\ Trace[0] = Start /\ Len(Original) = NumOps
         /\ \A i \in 0..NumOps : IsState(Trace[i])
         /\ \A i \in 1..NumOps : Stepped(Trace[i - 1], i, Trace[i])
<1>1. NumOps \in Nat
  BY ProgramOps
<1>2. Len(Original) = NumOps /\ \A i \in 1..NumOps : Original[i] = i
  BY <1>1 DEF Original
<1> QED BY <1>1, <1>2, TraceFacts DEF Trace

-----------------------------------------------------------------------------
(* What is stored and read *)

LEMMA StoredElsewhere ==
  ASSUME NEW mem, NEW p, NEW n, NEW data, NEW a \in Bytes, a \notin Span(p, n)
  PROVE  Stored(mem, p, n, data)[a] = mem[a]
BY DEF Stored

(* Only the first n bytes of what is stored matter. *)
LEMMA StoredSame ==
  ASSUME NEW mem, NEW p \in Nat \ {0}, NEW n \in Nat, NEW data, NEW data2, Cells \in Nat,
         \A i \in Bytes : i <= n => data[i] = data2[i]
  PROVE  Stored(mem, p, n, data) = Stored(mem, p, n, data2)
<1>1. ASSUME NEW a \in Bytes, a \in Span(p, n)
      PROVE  data[a - p + 1] = data2[a - p + 1]
  <2>1. a - p + 1 \in Bytes /\ a - p + 1 <= n
    BY <1>1 DEF Bytes, Span
  <2> QED BY <2>1
<1> QED BY <1>1 DEF Stored

(* Reading depends on the cells read only. *)
LEMMA AtSame ==
  ASSUME NEW mem, NEW mem2, NEW p \in Nat \ {0}, NEW n \in Nat, Cells \in Nat,
         \A a \in Bytes : a \in Span(p, n) => mem[a] = mem2[a]
  PROVE  At(mem, p, n) = At(mem2, p, n)
<1>1. ASSUME NEW i \in Bytes, i <= n, p + i - 1 \in Bytes
      PROVE  mem[p + i - 1] = mem2[p + i - 1]
  <2>1. p + i - 1 \in Span(p, n)
    BY <1>1 DEF Bytes, Span
  <2> QED BY <1>1, <2>1
<1> QED BY <1>1 DEF At

-----------------------------------------------------------------------------
(* The vector length. *)

LEMMA SettingFacts ==
  ASSUME NEW l \in Nat, SettingOf(l) # 0
  PROVE  /\ SettingOf(l) \in 1..l /\ Is(SettingOf(l), Settings)
         /\ \A j \in (SettingOf(l) + 1)..l : ~Is(j, Settings)
<1> DEFINE sets == {j \in 1..l : Is(j, Settings)}
           m == Max(sets)
<1>1. SettingOf(l) = IF sets = {} THEN 0 ELSE m
  BY DEF SettingOf, Settings
<1>2. sets # {} /\ sets \in SUBSET (1..l)
  BY <1>1
<1>3. m \in sets /\ \A k \in sets : k <= m
  BY <1>2, MaxOf
<1> HIDE DEF m
<1> QED BY <1>1, <1>2, <1>3

LEMMA GovernsSetting ==
  ASSUME NEW l \in Nat, NEW s, Governs(s, l)
  PROVE  SettingOf(l) = s
<1>1. s \in 1..l /\ Is(s, Settings) /\ \A j \in (s + 1)..l : ~Is(j, Settings)
  BY DEF Governs, Is, Settings
<1>2. SettingOf(l) # 0
  <2> DEFINE sets == {j \in 1..l : Is(j, Settings)}
  <2>1. s \in sets
    BY <1>1
  <2>2. SettingOf(l) = Max(sets) /\ Max(sets) \in sets
    BY <2>1, MaxOf DEF SettingOf, Settings
  <2> QED BY <2>2
<1>3. /\ SettingOf(l) \in 1..l /\ Is(SettingOf(l), Settings)
      /\ \A j \in (SettingOf(l) + 1)..l : ~Is(j, Settings)
  BY <1>2, SettingFacts
<1>4. ~(s < SettingOf(l)) /\ ~(SettingOf(l) < s)
  BY <1>1, <1>3
<1> QED BY <1>1, <1>3, <1>4

(* Behind a vset instruction, length and size are its own up to the next.  *)
LEMMA LengthInForce ==
  ASSUME IInv, NEW s \in 1..NumOps, Is(s, Settings), NEW hi \in s..NumOps,
         \A j \in (s + 1)..hi : ~Is(j, Settings)
  PROVE  \A i \in s..hi : /\ Trace[i].n = code[s].avl
                          /\ Trace[i].size = code[s].elementSize
<1> DEFINE P == {i \in s..hi : /\ Trace[i].n = code[s].avl
                               /\ Trace[i].size = code[s].elementSize}
<1>1. NumOps \in Nat /\ s \in Nat /\ hi \in Nat
  BY ProgramOps
<1>2. s \in P
  <2>1. Stepped(Trace[s - 1], s, Trace[s])
    BY ProgramTrace
  <2> QED BY <1>1, <2>1 DEF Stepped, Is
<1>3. ASSUME NEW i \in s..(hi - 1), i \in P
      PROVE  i + 1 \in P
  <2>1. i + 1 \in 1..NumOps /\ (i + 1) - 1 = i /\ i + 1 \in (s + 1)..hi /\ i + 1 \in s..hi
    BY <1>1
  <2>2. Stepped(Trace[i], i + 1, Trace[i + 1])
    BY <2>1, ProgramTrace
  <2>3. Trace[i + 1].n = Trace[i].n /\ Trace[i + 1].size = Trace[i].size
    BY <2>1, <2>2 DEF Stepped, Is
  <2> QED BY <1>3, <2>1, <2>3
<1>4. \A i \in s..hi : i \in P
  <2> HIDE DEF P
  <2> QED BY <1>1, <1>2, <1>3, RangeInduction
<1> QED BY <1>4

(* In SSA form a register keeps what was loaded.  What a plain pair of load *)
(* and store moves is therefore, at the store, still what is at the source. *)
LEMMA Carried ==
  ASSUME IInv, NEW l \in 1..NumOps, NEW j \in 1..NumOps, NEW s \in 1..NumOps,
         Is(l, {"load", "imm"}), Is(j, {"store"}), code[l].v = code[j].v,
         Governs(s, l), PlainPair(l, j)
  PROVE  LET n == code[s].avl * code[s].elementSize
             t == Trace[j - 1]
         IN /\ n \in Nat /\ t.n * code[j].width = n /\ code[s].multiplier = 1
            /\ Is(l, {"load"}) => t.reg[code[j].v] = At(t.mem, code[l].p, n)
            /\ Is(l, {"imm"}) =>
                 \A i \in Bytes : i <= n => t.reg[code[j].v][i] = code[l].x
<1> DEFINE avl == code[s].avl
           size == code[s].elementSize
           n == avl * size
           v == code[j].v
<1>1. /\ NumOps \in Nat /\ Cells \in Nat /\ v \in VecVn /\ n \in Nat /\ l < j
      /\ l \in Nat /\ j \in Nat /\ s \in Nat /\ s >= 1 /\ s <= l
      /\ \A k \in 1..NumOps : Writes(code[k], v) => k = l
      /\ \A k \in 1..NumOps : OpType(code[k])
  <2>1. /\ NumOps \in Nat /\ Cells \in Nat
        /\ \A k \in 1..NumOps : OpType(code[k])
        /\ \A i, k \in 1..NumOps : \A u \in VecVn :
             Writes(code[i], u) => /\ Writes(code[k], u) => i = k
                                   /\ Reads(code[k], u) => i < k
    BY ProgramOps
  <2>2. v \in VecVn
    BY <2>1 DEF OpType, Is
  <2>3. Writes(code[l], v) /\ Reads(code[j], v)
    BY DEF Writes, Reads, Is
  <2>4. n \in Nat
    <3>1. code[s].avl \in Nat /\ code[s].elementSize \in Nat
      BY <2>1 DEF OpType, Is, Governs
    <3> QED BY <3>1
  <2> QED BY <2>1, <2>2, <2>3, <2>4 DEF Governs
<1>2. /\ SettingOf(l) = s /\ SettingOf(j) = s /\ code[s].multiplier = 1
      /\ Is(l, {"load"}) => code[l].width = size
      /\ code[j].width = size
      /\ Is(l, {"imm"}) => size = 1 \/ code[l].x = 0
      /\ Is(l, {"load"}) =>
           \A k \in (l + 1)..(j - 1) :
             Is(k, {"store", "memcpy", "memset"}) =>
               Span(code[l].p, n) \cap Target(k, avl) = {}
  <2>1. SettingOf(l) = s
    BY <1>1, GovernsSetting
  <2> QED BY <2>1 DEF PlainPair
<1>3. /\ Is(s, Settings) /\ \A k \in (s + 1)..j : ~Is(k, Settings)
      /\ \A i \in s..j : Trace[i].n = avl /\ Trace[i].size = size
  <2>1. Is(s, Settings) /\ \A k \in (s + 1)..j : ~Is(k, Settings)
    BY <1>1, <1>2, SettingFacts
  <2>2. j \in s..NumOps
    BY <1>1
  <2> QED BY <2>1, <2>2, LengthInForce
<1>4. \A i \in (l + 1)..(j - 1) : Trace[i].reg[v] = Trace[i - 1].reg[v]
  <2> SUFFICES ASSUME NEW i \in (l + 1)..(j - 1) PROVE Trace[i].reg[v] = Trace[i - 1].reg[v]
    OBVIOUS
  <2>1. i \in 1..NumOps /\ i # l
    BY <1>1
  <2>2. ~Writes(code[i], v) /\ Stepped(Trace[i - 1], i, Trace[i])
    BY <1>1, <2>1, ProgramTrace
  <2> QED BY <1>1, <2>2 DEF Writes, Stepped
<1>5. /\ Stepped(Trace[l - 1], l, Trace[l]) /\ Trace[l].n = Trace[l - 1].n
      /\ Trace[l].size = Trace[l - 1].size /\ Trace[l].mem = Trace[l - 1].mem
      /\ Trace[l].n = avl /\ Trace[l].size = size
  <2>1. Stepped(Trace[l - 1], l, Trace[l])
    BY ProgramTrace
  <2>2. l \in s..j
    BY <1>1
  <2> QED BY <1>3, <2>1, <2>2 DEF Stepped, Is, Settings
<1>6. Trace[l - 1].n = avl /\ Trace[l - 1].size = size /\ Trace[j - 1].n = avl
  BY <1>1, <1>3, <1>5
<1>7. Trace[l - 1].n * Trace[l - 1].size = n /\ Trace[j - 1].n * code[j].width = n
  BY <1>2, <1>6
<1> HIDE DEF n, v, size, avl
<1>8. CASE Is(l, {"load"})
  <2> DEFINE p == code[l].p
             P == {i \in l..(j - 1) : Trace[i].reg[v] = At(Trace[i].mem, p, n)}
  <2>1. p \in Nat \ {0}
    BY <1>1, <1>8 DEF OpType, Is
  <2>2. l \in P
    <3>1. Trace[l].reg[v] = At(Trace[l - 1].mem, p, Trace[l - 1].n * code[l].width)
      BY <1>1, <1>5, <1>8 DEF Stepped, Is, v
    <3>2. code[l].width = Trace[l - 1].size
      BY <1>2, <1>8, <1>6
    <3>3. Trace[l - 1].n * code[l].width = n
      BY <1>7, <3>2
    <3> HIDE DEF p
    <3>4. l \in l..(j - 1) /\ Trace[l].mem = Trace[l - 1].mem
      BY <1>1, <1>5
    <3> QED BY <3>1, <3>3, <3>4
  <2> HIDE DEF p
  <2>3. ASSUME NEW i \in l..((j - 1) - 1), i \in P
        PROVE  i + 1 \in P
    <3>1. /\ i + 1 \in (l + 1)..(j - 1) /\ (i + 1) - 1 = i /\ i + 1 \in 1..NumOps
          /\ i + 1 \in l..(j - 1) /\ i \in s..j
      BY <1>1
    <3>2. Stepped(Trace[i], i + 1, Trace[i + 1]) /\ Trace[i].n = avl
      BY <1>3, <3>1, ProgramTrace
    <3>3. ASSUME NEW a \in Bytes, a \in Span(p, n)
          PROVE  Trace[i].mem[a] = Trace[i + 1].mem[a]
      <4>1. CASE Is(i + 1, {"store", "memcpy", "memset"})
        <5>1. a \notin Target(i + 1, avl)
          BY <1>2, <1>8, <3>1, <3>3, <4>1 DEF p
        <5>2. PICK q, k, data : /\ Trace[i + 1].mem = Stored(Trace[i].mem, q, k, data)
                                /\ Target(i + 1, avl) = Span(q, k)
          BY <3>2, <4>1 DEF Stepped, Is, Target
        <5>3. Stored(Trace[i].mem, q, k, data)[a] = Trace[i].mem[a]
          BY <3>3, <5>1, <5>2, StoredElsewhere
        <5> QED BY <5>2, <5>3
      <4>2. CASE ~Is(i + 1, {"store", "memcpy", "memset"})
        BY <3>2, <4>2 DEF Stepped, Is
      <4> QED BY <4>1, <4>2
    <3>4. At(Trace[i].mem, p, n) = At(Trace[i + 1].mem, p, n)
      <4>1. \A a \in Bytes : a \in Span(p, n) => Trace[i].mem[a] = Trace[i + 1].mem[a]
        BY <3>3
      <4> QED BY <1>1, <2>1, <4>1, AtSame
    <3>5. Trace[i + 1].reg[v] = Trace[i].reg[v]
      BY <1>4, <3>1
    <3> QED BY <2>3, <3>1, <3>4, <3>5
  <2>4. j - 1 \in P
    <3>1. l \in Nat /\ j - 1 \in Nat /\ j - 1 \in l..(j - 1)
      BY <1>1
    <3> HIDE DEF P
    <3>2. \A i \in l..(j - 1) : i \in P
      BY <2>2, <2>3, <3>1, RangeInduction
    <3> QED BY <3>1, <3>2
  <2> QED BY <1>1, <1>2, <1>8, <1>7, <2>4 DEF p, n, v, Is, avl, size
<1>9. CASE Is(l, {"imm"})
  <2> DEFINE x == code[l].x
             P == {i \in l..(j - 1) : Trace[i].reg[v] = Elements(x, size, n)}
  <2>1. l \in P
    <3>1. Trace[l].reg[v] =
            Elements(x, Trace[l - 1].size, Trace[l - 1].n * Trace[l - 1].size)
      BY <1>1, <1>5, <1>9 DEF Stepped, Is, v
    <3> QED BY <1>1, <1>6, <1>7, <3>1
  <2>2. ASSUME NEW i \in l..((j - 1) - 1), i \in P
        PROVE  i + 1 \in P
    <3>1. i + 1 \in (l + 1)..(j - 1) /\ (i + 1) - 1 = i /\ i + 1 \in l..(j - 1)
      BY <1>1
    <3> QED BY <1>4, <2>2, <3>1
  <2>3. j - 1 \in P
    <3>1. l \in Nat /\ j - 1 \in Nat /\ j - 1 \in l..(j - 1)
      BY <1>1
    <3> HIDE DEF P
    <3>2. \A i \in l..(j - 1) : i \in P
      BY <2>1, <2>2, <3>1, RangeInduction
    <3> QED BY <3>1, <3>2
  <2>4. ASSUME NEW i \in Bytes, i <= n
        PROVE  Elements(x, size, n)[i] = x
    <3>1. ~(i > n)
      BY <1>1, <2>4 DEF Bytes
    <3>2. Elements(x, size, n)[i] = IF (i - 1) % size = 0 THEN x ELSE 0
      BY <3>1 DEF Elements
    <3>3. CASE size = 1
      <4>1. (i - 1) % 1 = 0
        BY <1>1 DEF Bytes
      <4> QED BY <3>2, <3>3, <4>1
    <3>4. CASE x = 0
      BY <3>2, <3>4
    <3> QED BY <1>2, <1>9, <3>3, <3>4
  <2> QED BY <1>1, <1>2, <1>9, <1>7, <2>3, <2>4 DEF n, v, Is, avl, size
<1> QED BY <1>8, <1>9 DEF Is

(* The call does to memory what the store did. *)
LEMMA CallLikeStore ==
  ASSUME IInv, Plain, NEW j \in 1..NumOps, Is(j, {"store"}), NEW n, Carries(n, j),
         NEW u, NEW t, u.mem = Trace[j - 1].mem, Stepped(u, n, t)
  PROVE  t.mem = Trace[j].mem
<1>1. PICK l \in 1..NumOps, s \in 1..NumOps :
        /\ Is(l, {"load", "imm"}) /\ code[l].v = code[j].v /\ Governs(s, l)
        /\ code[n] = IF Is(l, {"imm"})
                     THEN [kind |-> "memset", dst |-> code[j].p, x |-> code[l].x, n |-> Width(s)]
                     ELSE [kind |-> "memcpy", dst |-> code[j].p, src |-> code[l].p, n |-> Width(s)]
  BY DEF Carries
<1>2. NumOps \in Nat /\ Cells \in Nat /\ OpType(code[s]) /\ OpType(code[j])
  BY ProgramOps
<1>3. SettingOf(l) = s
  BY <1>1, <1>2, GovernsSetting
<1>4. PlainPair(l, j)
  <2>1. SettingOf(l) # 0 /\ Is(SettingOf(l), {"vseti"})
    BY <1>1, <1>2, <1>3 DEF Governs
  <2> QED BY <1>1, <2>1 DEF Plain
<1> DEFINE k == code[s].avl * code[s].elementSize
           p == code[j].p
           old == Trace[j - 1]
<1>5. /\ k \in Nat /\ old.n * code[j].width = k /\ code[s].multiplier = 1
      /\ Is(l, {"load"}) => old.reg[code[j].v] = At(old.mem, code[l].p, k)
      /\ Is(l, {"imm"}) => \A i \in Bytes : i <= k => old.reg[code[j].v][i] = code[l].x
  BY <1>1, <1>4, Carried
<1>6. Width(s) = k
  <2>1. code[s].avl \in Nat /\ code[s].elementSize \in Nat
    BY <1>1, <1>2 DEF OpType, Is, Governs
  <2> QED BY <1>5, <2>1 DEF Width
<1>7. p \in Nat \ {0}
  BY <1>2 DEF OpType, Is
<1>8. Trace[j].mem = Stored(old.mem, p, k, old.reg[code[j].v])
  <2>1. Stepped(old, j, Trace[j])
    BY ProgramTrace
  <2>2. Trace[j].mem = Stored(old.mem, p, old.n * code[j].width, old.reg[code[j].v])
    BY <2>1 DEF Stepped, Is
  <2> HIDE DEF k, p, old
  <2> QED BY <1>5, <2>2
<1> HIDE DEF k, p, old
<1>9. CASE Is(l, {"imm"})
  <2>1. t.mem = Stored(old.mem, p, k, [i \in Bytes |-> code[l].x])
    <3>1. /\ code[n].kind = "memset" /\ code[n].dst = p /\ code[n].x = code[l].x
          /\ code[n].n = k
      BY <1>1, <1>6, <1>9 DEF p
    <3>2. t.mem = Stored(u.mem, code[n].dst, code[n].n, [i \in Bytes |-> code[n].x])
      BY <3>1 DEF Stepped
    <3> QED BY <3>1, <3>2 DEF old
  <2>2. \A i \in Bytes : i <= k => old.reg[code[j].v][i] = [b \in Bytes |-> code[l].x][i]
    BY <1>5, <1>9
  <2> QED BY <1>2, <1>5, <1>7, <1>8, <2>1, <2>2, StoredSame
<1>10. CASE ~Is(l, {"imm"})
  <2>1. t.mem = Stored(old.mem, p, k, At(old.mem, code[l].p, k))
    <3>1. /\ code[n].kind = "memcpy" /\ code[n].dst = p /\ code[n].src = code[l].p
          /\ code[n].n = k
      BY <1>1, <1>6, <1>10 DEF p
    <3>2. t.mem = Stored(u.mem, code[n].dst, code[n].n, At(u.mem, code[n].src, code[n].n))
      BY <3>1 DEF Stepped
    <3> QED BY <3>1, <3>2 DEF old
  <2>2. Is(l, {"load"})
    BY <1>1, <1>10 DEF Is
  <2> QED BY <1>5, <1>8, <2>1, <2>2
<1> QED BY <1>9, <1>10

-----------------------------------------------------------------------------
(* Two runs side by side.  The registers of loads that are gone have lost  *)
(* their value in the run of the block; elsewhere the states agree.        *)

Lost == {code[l].v : l \in {i \in 1..NumOps : Is(i, {"load", "imm"}) /\ i \notin ToSet(block)}}

Agree(u, t) ==
  /\ u.mem = t.mem /\ u.n = t.n /\ u.size = t.size /\ u.seen = t.seen
  /\ \A v \in VecVn \ Lost : u.reg[v] = t.reg[v]

LEMMA LostUnread ==
  ASSUME IInv
  PROVE  /\ \A i \in ToSet(block) : Is(i, {"store", "other"}) => code[i].v \notin Lost
         /\ \A v \in prog.elsewhere : v \notin Lost
<1> SUFFICES ASSUME NEW l \in 1..NumOps, Is(l, {"load", "imm"}), l \notin ToSet(block)
             PROVE  ~HasReaders(block, code[l].v)
  BY DEF Lost, HasReaders, ReadersIn
<1> QED BY DEF IInv, ReadLoadsKept

(* An op that is still in the block finds what it reads. *)
LEMMA SameOp ==
  ASSUME IInv, NEW i \in 1..NumOps, i \in ToSet(block), NEW u, NEW t, NEW u2, NEW t2,
         Agree(u, t), Stepped(u, i, u2), Stepped(t, i, t2)
  PROVE  Agree(u2, t2)
<1> DEFINE c == code[i]
<1>1. OpType(c)
  BY ProgramOps
<1>2. c.kind \in {"store", "other"} => u.reg[c.v] = t.reg[c.v]
  <2> SUFFICES ASSUME c.kind \in {"store", "other"} PROVE c.v \in VecVn \ Lost
    BY DEF Agree
  <2>1. c.v \notin Lost
    BY LostUnread DEF Is
  <2> QED BY <1>1, <2>1 DEF OpType
<1>3. /\ u.mem = t.mem /\ u.n = t.n /\ u.size = t.size /\ u.seen = t.seen
      /\ \A v \in VecVn \ Lost : u.reg[v] = t.reg[v]
  BY DEF Agree
<1> HIDE DEF c
<1>4. u2.n = t2.n /\ u2.size = t2.size
  BY <1>3 DEF Stepped
<1>5. u2.mem = t2.mem
  BY <1>2, <1>3 DEF Stepped, c
<1>6. u2.seen = t2.seen
  BY <1>2, <1>3 DEF Stepped, c
<1>7. ASSUME NEW v \in VecVn \ Lost PROVE u2.reg[v] = t2.reg[v]
  BY <1>2, <1>3 DEF Stepped, c
<1> QED BY <1>4, <1>5, <1>6, <1>7 DEF Agree

(* A load that is gone is missed by nobody. *)
LEMMA GoneLoad ==
  ASSUME IInv, NEW i \in 1..NumOps, i \notin ToSet(block), Is(i, {"load", "imm"}),
         NEW u, NEW t, NEW t2, Agree(u, t), Stepped(t, i, t2)
  PROVE  Agree(u, t2)
<1>1. code[i].v \in Lost
  BY DEF Lost
<1>2. code[i].kind \in {"load", "imm"}
  BY DEF Is
<1>3. /\ t2.n = t.n /\ t2.size = t.size /\ t2.mem = t.mem /\ t2.seen = t.seen
  BY <1>2 DEF Stepped, Settings
<1>4. ASSUME NEW v \in VecVn \ Lost PROVE t2.reg[v] = t.reg[v]
  BY <1>1, <1>2, <1>4 DEF Stepped
<1> QED BY <1>3, <1>4 DEF Agree

LEMMA CallOp ==
  ASSUME IInv, Plain, NEW j \in 1..NumOps, Is(j, {"store"}), NEW n, Carries(n, j),
         NEW u, NEW u2, Agree(u, Trace[j - 1]), Stepped(u, n, u2)
  PROVE  Agree(u2, Trace[j])
<1>1. u.mem = Trace[j - 1].mem
  BY DEF Agree
<1>2. u2.mem = Trace[j].mem
  BY <1>1, CallLikeStore
<1>3. code[n].kind \in {"memset", "memcpy"}
  BY DEF Carries
<1>4. /\ u2.n = u.n /\ u2.size = u.size /\ u2.seen = u.seen
      /\ \A v \in VecVn : u2.reg[v] = u.reg[v]
  BY <1>3 DEF Stepped, Settings
<1>5. Stepped(Trace[j - 1], j, Trace[j])
  BY ProgramTrace
<1>6. /\ Trace[j].n = Trace[j - 1].n /\ Trace[j].size = Trace[j - 1].size
      /\ Trace[j].seen = Trace[j - 1].seen
      /\ \A v \in VecVn : Trace[j].reg[v] = Trace[j - 1].reg[v]
  BY <1>5 DEF Stepped, Settings, Is
<1> QED BY <1>2, <1>4, <1>6 DEF Agree

(* Every op of the block is one of the program's or a call at its store's  *)
(* place; what is not there is a load.  h gives the places.                *)
Places(h) ==
  /\ h \in [1..Len(block) -> 1..NumOps]
  /\ \A k, q \in 1..Len(block) : k < q => h[k] < h[q]
  /\ \A k \in 1..Len(block) :
       \/ block[k] = h[k]
       \/ Is(h[k], {"store"}) /\ Carries(block[k], h[k])
  /\ \A i \in 1..NumOps :
       (\E k \in 1..Len(block) : h[k] = i) \/ (Is(i, {"load", "imm"}) /\ i \notin ToSet(block))

LEMMA SideBySide ==
  ASSUME IInv, Plain, NEW h, Places(h)
  PROVE  Agree(States(block)[Len(block)], Trace[NumOps])
<1> DEFINE m == Len(block)
           U == States(block)
           Cut(i, k) == \A q \in 1..m : q <= k <=> h[q] <= i
           P == {i \in 0..NumOps : \A k \in 0..m : Cut(i, k) => Agree(U[k], Trace[i])}
<1>1. /\ NumOps \in Nat /\ m \in Nat
      /\ U[0] = Start /\ Trace[0] = Start
      /\ \A k \in 1..m : Stepped(U[k - 1], block[k], U[k]) /\ block[k] \in ToSet(block)
      /\ \A i \in 1..NumOps : Stepped(Trace[i - 1], i, Trace[i])
  BY OrderTypes, TraceFacts, ProgramTrace
<1>2. /\ \A k \in 1..m : h[k] \in 1..NumOps
      /\ \A k, q \in 1..m : k < q => h[k] < h[q]
  BY DEF Places
<1> HIDE DEF U, m
<1>3. 0 \in P
  <2> SUFFICES ASSUME NEW k \in 0..m, Cut(0, k) PROVE Agree(U[k], Trace[0])
    BY <1>1
  <2>1. k = 0
    <3> SUFFICES ASSUME k # 0 PROVE FALSE
      OBVIOUS
    <3>1. 1 \in 1..m /\ 1 <= k
      BY <1>1
    <3>2. h[1] <= 0 /\ h[1] \in 1..NumOps
      BY <1>2, <3>1
    <3> QED BY <1>1, <3>2
  <2> QED BY <1>1, <2>1 DEF Agree
<1>4. ASSUME NEW i \in 0..(NumOps - 1), i \in P
      PROVE  i + 1 \in P
  <2>1. i + 1 \in 1..NumOps /\ i + 1 \in 0..NumOps /\ (i + 1) - 1 = i /\ i \in Nat
    BY <1>1
  <2> SUFFICES ASSUME NEW k \in 0..m, Cut(i + 1, k) PROVE Agree(U[k], Trace[i + 1])
    BY <2>1
  <2>2. Stepped(Trace[i], i + 1, Trace[i + 1])
    BY <1>1, <2>1
  <2>3. CASE \E q \in 1..m : h[q] = i + 1
    <3>1. PICK q \in 1..m : h[q] = i + 1
      BY <2>3
    <3>2. q = k /\ k \in 1..m /\ k - 1 \in 0..m
      <4>1. q <= k
        BY <2>1, <3>1
      <4>2. k \in 1..m
        BY <1>1, <3>1, <4>1
      <4>3. ~(q < k)
        BY <1>2, <2>1, <3>1, <4>1, <4>2
      <4> QED BY <1>1, <4>1, <4>2, <4>3
    <3>3. Cut(i, k - 1)
      <4> SUFFICES ASSUME NEW r \in 1..m PROVE r <= k - 1 <=> h[r] <= i
        OBVIOUS
      <4>1. h[r] \in Nat /\ h[k] = i + 1 /\ r \in Nat /\ k \in Nat
        BY <1>1, <1>2, <3>1, <3>2
      <4>2. r <= k <=> h[r] <= i + 1
        OBVIOUS
      <4>3. r < k => h[r] < h[k]
        BY <1>2, <3>2
      <4> QED BY <2>1, <4>1, <4>2, <4>3
    <3>4. Agree(U[k - 1], Trace[i])
      BY <1>4, <3>2, <3>3
    <3>5. Stepped(U[k - 1], block[k], U[k]) /\ block[k] \in ToSet(block)
      BY <1>1, <3>2
    <3>6. CASE block[k] = i + 1
      BY <2>1, <2>2, <3>4, <3>5, <3>6, SameOp
    <3>7. CASE Is(i + 1, {"store"}) /\ Carries(block[k], i + 1)
      BY <2>1, <3>4, <3>5, <3>7, CallOp
    <3> QED BY <3>1, <3>2, <3>6, <3>7 DEF Places, m
  <2>4. CASE ~ \E q \in 1..m : h[q] = i + 1
    <3>1. Cut(i, k)
      <4> SUFFICES ASSUME NEW r \in 1..m PROVE r <= k <=> h[r] <= i
        OBVIOUS
      <4>1. h[r] \in Nat /\ h[r] # i + 1
        BY <1>1, <1>2, <2>4
      <4>2. r <= k <=> h[r] <= i + 1
        OBVIOUS
      <4> QED BY <2>1, <4>1, <4>2
    <3>2. Agree(U[k], Trace[i])
      BY <1>4, <3>1
    <3>3. Is(i + 1, {"load", "imm"}) /\ i + 1 \notin ToSet(block)
      BY <2>1, <2>4 DEF Places, m
    <3> QED BY <2>1, <2>2, <3>2, <3>3, GoneLoad
  <2> QED BY <2>3, <2>4
<1>5. NumOps \in P
  <2>1. \A i \in 0..(NumOps - 1) : i \in P => i + 1 \in P
    BY <1>4
  <2> HIDE DEF P
  <2>2. \A i \in 0..NumOps : i \in P
    BY <1>1, <1>3, <2>1, RangeInduction
  <2> QED BY <1>1, <2>2
<1>6. Cut(NumOps, m)
  BY <1>1, <1>2
<1>7. Agree(U[m], Trace[NumOps])
  <2>1. m \in 0..m
    BY <1>1
  <2> QED BY <1>5, <1>6, <2>1
<1> QED BY <1>7 DEF U, m

LEMMA SameMeaning ==
  ASSUME IInv, Plain, NEW h, Places(h)
  PROVE  Meaning(block) = Meaning(Original)
<1> DEFINE u == States(block)[Len(block)]
           t == Trace[NumOps]
<1>1. Agree(u, t)
  BY SideBySide
<1>2. \A v \in prog.elsewhere : v \in VecVn \ Lost
  BY LostUnread, ProgramOps
<1>3. [v \in prog.elsewhere |-> u.reg[v]] = [v \in prog.elsewhere |-> t.reg[v]]
  BY <1>1, <1>2 DEF Agree
<1>4. Meaning(block) = <<u.mem, u.seen, [v \in prog.elsewhere |-> u.reg[v]]>>
  BY DEF Meaning
<1>5. Meaning(Original) = <<t.mem, t.seen, [v \in prog.elsewhere |-> t.reg[v]]>>
  BY ProgramTrace DEF Meaning, Trace
<1> QED BY <1>1, <1>3, <1>4, <1>5 DEF Agree

(* Between two rules, each op of the block has its place in the program.   *)
LEMMA AtRest ==
  ASSUME IInv, OrderInv, SeriesInv, pc \in {"pool", "settled"}
  PROVE  \E h : Places(h)
<1>1. PICK home : Homes(home) /\ InOrder(home) /\ Waiting(home) /\ Accounted(home) /\ Origins(home)
  BY DEF OrderInv, HomesInv
<1>2. ToSet(deleteSet) = {} /\ Pending = {}
  <2>1. deleteSet = <<>> /\ pcodesToBeBuilt = <<>>
    BY DEF OrderInv, LoadInv, IInv, QueueInv
  <2> QED BY <2>1 DEF ToSet, Pending
<1> DEFINE m == Len(block)
           h == [k \in 1..m |-> home[block[k]]]
<1>3. ASSUME NEW k \in 1..m
      PROVE  /\ block[k] \in OpId /\ block[k] \in ToSet(block)
             /\ h[k] = home[block[k]] /\ h[k] \in 1..NumOps
             /\ \/ block[k] \in 1..NumOps /\ block[k] = h[k]
                \/ block[k] \in Calls /\ Is(h[k], {"store"}) /\ Carries(block[k], h[k])
  <2>1. block[k] \in OpId /\ block[k] \in ToSet(block) /\ h[k] = home[block[k]]
    BY OrderTypes
  <2>2. block[k] \in Calls \/ block[k] \in 1..NumOps
    BY <2>1 DEF Calls
  <2> HIDE DEF h
  <2> QED BY <1>1, <2>1, <2>2 DEF Homes, Origins
<1> HIDE DEF h
<1>4. ASSUME NEW k \in 1..m, NEW q \in 1..m, k < q
      PROVE  h[k] < h[q]
  <2>1. Before(home, block[k], block[q])
    BY <1>1, <1>4, OrderTypes DEF InOrder
  <2>2. ASSUME h[k] = h[q], block[k] > block[q]
        PROVE  FALSE
    <3>1. \A n \in Calls : home[n] \notin ToSet(block)
      BY <1>1, <1>2 DEF Accounted
    <3>2. block[k] \notin 1..NumOps \/ block[q] \notin 1..NumOps
      <4> SUFFICES ASSUME block[k] \in 1..NumOps, block[q] \in 1..NumOps PROVE FALSE
        OBVIOUS
      <4>1. block[k] = h[k] /\ block[q] = h[q]
        BY <1>3 DEF Calls
      <4> QED BY <2>2, <4>1, OrderTypes
    <3>3. block[k] \in Calls => h[k] \notin ToSet(block) /\ block[q] \in Calls
      BY <1>3, <2>2, <3>1
    <3>4. block[q] \in Calls => h[q] \notin ToSet(block) /\ block[k] \in Calls
      BY <1>3, <2>2, <3>1
    <3>5. block[k] \in Calls /\ block[q] \in Calls
      BY <1>3, <3>2, <3>3, <3>4
    <3>6. block[k] = block[q]
      BY <1>1, <1>3, <2>2, <3>5 DEF Homes
    <3> QED BY <1>3, <2>2, <3>6, OrderTypes
  <2>3. h[k] < h[q] \/ (h[k] = h[q] /\ block[k] > block[q])
    BY <1>3, <2>1 DEF Before
  <2> QED BY <2>2, <2>3
<1>5. ASSUME NEW i \in 1..NumOps
      PROVE  (\E k \in 1..m : h[k] = i) \/ (Is(i, {"load", "imm"}) /\ i \notin ToSet(block))
  <2>1. ASSUME NEW o \in ToSet(block), home[o] = i
        PROVE  \E k \in 1..m : h[k] = i
    <3>1. PICK k \in 1..m : block[k] = o
      BY OrderTypes
    <3> QED BY <1>3, <2>1, <3>1
  <2>2. CASE i \in ToSet(block)
    BY <1>1, <2>1, <2>2 DEF Homes
  <2>3. CASE i \notin ToSet(block) /\ Is(i, {"store"})
    <3>1. Is(i, {"store", "memcpy", "memset"})
      BY <2>3 DEF Is
    <3>2. \E n \in Calls : n \in ToSet(block) /\ home[n] = i
      BY <1>1, <2>3, <3>1 DEF Accounted
    <3> QED BY <2>1, <3>2
  <2>4. CASE i \notin ToSet(block) /\ ~Is(i, {"store"})
    BY <2>4 DEF SeriesInv, Is
  <2> QED BY <2>2, <2>3, <2>4
<1>6. h \in [1..m -> 1..NumOps]
  <2>1. h = [k \in 1..m |-> h[k]]
    BY DEF h
  <2> QED BY <1>3, <2>1
<1>7. Places(h)
  BY <1>3, <1>4, <1>5, <1>6 DEF Places
<1> QED BY <1>7

LEMMA EffectGives == IInv /\ OrderInv /\ SeriesInv => SameEffectWhenPlain
<1> SUFFICES ASSUME IInv, OrderInv, SeriesInv, pc \in {"pool", "settled"}, Plain
             PROVE  Meaning(block) = Meaning(Original)
  BY DEF SameEffectWhenPlain
<1> QED BY AtRest, SameMeaning

-----------------------------------------------------------------------------
(* Every state of every block the pool works on has the invariant. *)
THEOREM Invariance == Spec => []IInv
<1>1. IInv /\ [Next]_vars => IInv'
  BY PoolStep, NextLoadStep, TransformStep, ReadersStep, BuildStep, DoneStep, DeleteStep,
     StutterStep DEF Next, Match
<1> QED BY <1>1, InitInv, PTL DEF Spec

(* The matcher's sets and queues hold what VectorSeries::match takes them  *)
(* to hold: ops of the block to delete, calls paired with their stores.    *)
THEOREM Typing == Spec => []TypeOK
<1>1. IInv => TypeOK
  BY DEF IInv
<1> QED BY <1>1, Invariance, PTL

(* VectorSeries::match deletes no load whose register a remaining op reads, *)
(* in this block or another, whatever the order of descendants and of       *)
(* repeated passes of the pool.                                             *)
THEOREM LoadsOutliveReaders == Spec => []ReadLoadsKept
<1>1. IInv => ReadLoadsKept
  BY DEF IInv
<1> QED BY <1>1, Invariance, PTL

THEOREM OrderInvariance == Spec => [](OrderInv /\ SeriesInv)
<1>1. IInv /\ OrderInv /\ SeriesInv /\ [Next]_vars => OrderInv'
  BY OrderPool, OrderNextLoad, OrderTransform, OrderReaders, OrderBuild, OrderDone, OrderDelete
     DEF Next, Match
<1> QED BY <1>1, OrderInit, SeriesInit, SeriesStep, Invariance, PTL DEF Spec

(* Whatever the order in which descendants are visited, however many loads *)
(* a vsetivli governs and however often the pool comes back to it, the     *)
(* calls of vector_memcpy and vector_memset that VectorSeries::match       *)
(* leaves write where the stores wrote and in their order, and no store is *)
(* left beside its call, transformed twice or lost.                        *)
THEOREM CallsTakeStoresPlaces == Spec => []WritesInOrder
BY Invariance, OrderInvariance, OrderGives, PTL

(* Between two rules of the pool, a block whose loads and stores are as    *)
(* plain as VectorSeries::match takes them to be leaves the memory that it *)
(* left before, and hands the same vector values to the ops that remain    *)
(* and to other blocks: however many loads there are under a vsetivli,     *)
(* stores of each, vset instructions and calls in between, however large   *)
(* the memory and the vectors, and wherever the limit stops the transform. *)
THEOREM EffectIsKept == Spec => []SameEffectWhenPlain
BY Invariance, OrderInvariance, EffectGives, PTL
=============================================================================
