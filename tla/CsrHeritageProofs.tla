-------------------------- MODULE CsrHeritageProofs --------------------------
(***************************************************************************)
(* What the purge of control registers guarantees for every program, every *)
(* set of control registers, any number of vset instructions and of        *)
(* decompilations: what is left reads such a register's one input, reads   *)
(* everything else as before, and loses no other definition.               *)
(***************************************************************************)
EXTENDS CsrHeritage, SequenceFacts

-----------------------------------------------------------------------------
(* The inductive invariant. *)

(* An op writes what it wrote, unless what it wrote was a control register.*)
OnlyCsrDropped == \A op \in Op : out[op] = f.out[op] \/ f.out[op] \in CsrVn

(* The second pass has looked at each slot that reads a control register,  *)
(* or will: todo holds such slots only, and all whose Varnode is no input. *)
SlotsListed ==
  pc = "promote" =>
    /\ \A r \in todo : r[1] \in live /\ r[2] \in DOMAIN ins[r[1]] /\ ins[r[1]][r[2]] \in CsrVn
    /\ \A op \in live : \A i \in DOMAIN ins[op] :
         ins[op][i] \in CsrVn => ins[op][i] \in inputs \/ <<op, i>> \in todo

(* Before the first purge no function counts as processed; from its first  *)
(* pass on no heritage is left.                                            *)
FirstRun ==
  /\ runs = 0 => processed = {} /\ pc = "idle"
  /\ runs = 1 => \/ pc = "drop"
                 \/ HeritageOps = {}
                 \/ processed = {} /\ pc \in {"pool", "idle"}

IInv ==
  /\ TypeOK
  /\ OnlyCsrDropped
  /\ SlotsListed
  /\ PurgedReadsAreInputs
  /\ OneInputPerRegister
  /\ SlotsKeepTheirRegister
  /\ FirstRun

-----------------------------------------------------------------------------
SlotSet(s, op, i, w) == [s EXCEPT ![op][i] = w]

(* Setting one slot changes that slot, and nothing else. *)
LEMMA SlotSetFacts ==
  ASSUME NEW s \in InputSeqs, NEW op \in Op, NEW i \in DOMAIN s[op], NEW w \in Vn
  PROVE  LET t == SlotSet(s, op, i, w)
         IN /\ t \in InputSeqs
            /\ t[op][i] = w
            /\ \A x \in Op : DOMAIN t[x] = DOMAIN s[x]
            /\ \A x \in Op : \A j \in DOMAIN s[x] : <<x, j>> # <<op, i>> => t[x][j] = s[x][j]
<1> DEFINE new == [s[op] EXCEPT ![i] = w]
           t == [s EXCEPT ![op] = new]
<1>1. s[op] \in Seq(Vn)
  BY DEF InputSeqs
<1>2. /\ new \in Seq(Vn) /\ DOMAIN new = DOMAIN s[op] /\ new[i] = w
      /\ \A j \in DOMAIN s[op] : j # i => new[j] = s[op][j]
  BY <1>1
<1> HIDE DEF new
<1>3. t \in InputSeqs /\ t[op] = new /\ \A x \in Op : x # op => t[x] = s[x]
  BY <1>2 DEF InputSeqs
<1> HIDE DEF t
<1>4. \A x \in Op : DOMAIN t[x] = DOMAIN s[x]
  BY <1>2, <1>3
<1>5. \A x \in Op : \A j \in DOMAIN s[x] : <<x, j>> # <<op, i>> => t[x][j] = s[x][j]
  BY <1>2, <1>3
<1>6. t = SlotSet(s, op, i, w)
  BY DEF t, new, SlotSet
<1> QED BY <1>2, <1>3, <1>4, <1>5, <1>6

(* What the program's functions are to begin with *)
LEMMA Given ==
  ASSUME NEW g \in Func
  PROVE  /\ g.ins \in InputSeqs /\ g.out \in Outputs /\ g.live \in SUBSET Op
         /\ InputVn \in SUBSET Vn /\ VsetOps \cap g.live \in SUBSET VsetOps
         /\ \A v, w \in InputVn \cap CsrVn : reg[v] = reg[w] => v = w
BY CsrAssumption, VnAssumption

(* No op is dropped and no read promoted yet. *)
LEMMA InitInv == Init => IInv
<1> SUFFICES ASSUME Init PROVE IInv
  OBVIOUS
<1>1. f \in Func
  BY DEF Init
<1>2. TypeOK
  <2>1. runs \in 0..MaxDecompiles
    BY CsrAssumption DEF Init
  <2>2. {} \in SUBSET (Op \X Nat)
    OBVIOUS
  <2> QED BY <1>1, <2>1, <2>2, Given DEF Init, TypeOK
<1>3. OnlyCsrDropped /\ SlotsListed /\ PurgedReadsAreInputs /\ SlotsKeepTheirRegister /\ FirstRun
  BY DEF Init, OnlyCsrDropped, SlotsListed, PurgedReadsAreInputs, SlotsKeepTheirRegister, FirstRun
<1>4. OneInputPerRegister
  BY <1>1, Given DEF Init, OneInputPerRegister
<1> QED BY <1>2, <1>3, <1>4 DEF IInv

(* A function comes as it is given, the registers of its Varnodes with it. *)
LEMMA DecompileStep == IInv /\ Decompile => IInv'
<1> SUFFICES ASSUME IInv, Decompile PROVE IInv'
  OBVIOUS
<1>1. f' \in Func /\ ins' = f'.ins /\ out' = f'.out /\ live' = f'.live
  BY DEF Decompile
<1>2. TypeOK'
  <2>1. runs' \in 0..MaxDecompiles
    BY CsrAssumption DEF Decompile, IInv, TypeOK
  <2> QED BY <1>1, <2>1, Given DEF Decompile, IInv, TypeOK
<1>3. OnlyCsrDropped' /\ SlotsKeepTheirRegister'
  BY <1>1 DEF OnlyCsrDropped, SlotsKeepTheirRegister
<1>4. SlotsListed' /\ PurgedReadsAreInputs'
  BY DEF Decompile, SlotsListed, PurgedReadsAreInputs
<1>5. OneInputPerRegister'
  BY <1>1, Given DEF Decompile, OneInputPerRegister
<1>6. FirstRun'
  BY DEF Decompile, IInv, TypeOK, FirstRun
<1> QED BY <1>2, <1>3, <1>4, <1>5, <1>6 DEF IInv

(* The rules' turns leave the function alone. *)
LEMMA PoolStep == IInv /\ (ApplyCsrRule \/ ApplyVectorRule \/ PoolDone) => IInv'
<1> SUFFICES ASSUME IInv, ApplyCsrRule \/ ApplyVectorRule \/ PoolDone PROVE IInv'
  OBVIOUS
<1>1. UNCHANGED <<f, ins, out, live, inputs, todo, purged, runs>>
  BY DEF ApplyCsrRule, ApplyVectorRule, PoolDone, graph
<1>2. /\ vsets' \in SUBSET VsetOps /\ processed' \in SUBSET Func
      /\ pc' \in {"idle", "pool", "drop", "transform"}
  BY DEF ApplyCsrRule, ApplyVectorRule, PoolDone, IInv, TypeOK
<1>3. TypeOK'
  BY <1>1, <1>2 DEF IInv, TypeOK
<1>4. OnlyCsrDropped' /\ PurgedReadsAreInputs' /\ OneInputPerRegister' /\ SlotsKeepTheirRegister'
  BY <1>1 DEF IInv, OnlyCsrDropped, PurgedReadsAreInputs, OneInputPerRegister,
    SlotsKeepTheirRegister
<1>5. SlotsListed'
  BY <1>2 DEF SlotsListed
<1>6. FirstRun'
  <2>1. HeritageOps' = HeritageOps
    BY <1>1 DEF HeritageOps
  <2>2. CASE ApplyCsrRule
    BY <1>1, <2>1, <2>2 DEF ApplyCsrRule, IInv, FirstRun
  <2>3. CASE ApplyVectorRule
    BY <1>1, <2>1, <2>3 DEF ApplyVectorRule, IInv, FirstRun
  <2>4. CASE PoolDone
    BY <1>1, <2>1, <2>4 DEF PoolDone, IInv, FirstRun
  <2> QED BY <2>2, <2>3, <2>4
<1> QED BY <1>3, <1>4, <1>5, <1>6 DEF IInv

(* An op that is dropped wrote a control register. *)
LEMMA DropStep == IInv /\ DropHeritageOp => IInv'
<1> SUFFICES ASSUME IInv, DropHeritageOp PROVE IInv'
  OBVIOUS
<1>1. /\ ins \in InputSeqs /\ out \in Outputs /\ live \in SUBSET Op
      /\ UNCHANGED <<processed, f, inputs, vsets, todo, purged, runs, pc>> /\ pc = "drop"
  BY DEF DropHeritageOp, IInv, TypeOK
<1>2. PICK op \in HeritageOps :
        ins' = UnlinkedIns(ins, op) /\ out' = UnlinkedOut(out, op) /\ live' = live \ {op}
  BY DEF DropHeritageOp
<1>3. op \in Op /\ op \in live /\ out[op] \in CsrVn
  BY <1>1, <1>2 DEF HeritageOps
<1>4. /\ ins' \in InputSeqs /\ out' \in Outputs
      /\ \A x \in Op \ {op} : ins'[x] = ins[x] /\ out'[x] = out[x]
  <2>1. <<>> \in Seq(Vn)
    OBVIOUS
  <2> QED BY <1>1, <1>2, <2>1 DEF UnlinkedIns, UnlinkedOut, InputSeqs, Outputs
<1>5. TypeOK'
  BY <1>1, <1>2, <1>4 DEF IInv, TypeOK
<1>6. OnlyCsrDropped'
  BY <1>1, <1>3, <1>4 DEF IInv, OnlyCsrDropped
<1>7. SlotsListed'
  BY <1>1 DEF SlotsListed
<1>8. PurgedReadsAreInputs'
  BY <1>1, <1>2, <1>4 DEF IInv, PurgedReadsAreInputs, Reads
<1>9. OneInputPerRegister'
  BY <1>1 DEF IInv, OneInputPerRegister
<1>10. SlotsKeepTheirRegister'
  BY <1>1, <1>2, <1>4 DEF IInv, SlotsKeepTheirRegister
<1>11. FirstRun'
  BY <1>1 DEF IInv, FirstRun
<1> QED BY <1>5, <1>6, <1>7, <1>8, <1>9, <1>10, <1>11 DEF IInv

(* With no heritage op left, the slots to promote are written down. *)
LEMMA StartStep == IInv /\ StartPromoting => IInv'
<1> SUFFICES ASSUME IInv, StartPromoting PROVE IInv'
  OBVIOUS
<1>1. /\ UNCHANGED <<processed, f, ins, out, live, inputs, vsets, purged, runs>>
      /\ ins \in InputSeqs /\ live \in SUBSET Op
      /\ HeritageOps = {} /\ todo' = CsrReads /\ pc' = "promote"
  BY DEF StartPromoting, graph, IInv, TypeOK
<1>2. \A op \in Op : DOMAIN ins[op] \subseteq Nat
  <2>1. \A op \in Op : DOMAIN ins[op] = 1..Len(ins[op])
    BY <1>1, ElementsOf DEF InputSeqs
  <2> QED BY <2>1
<1>3. \A op, i : <<op, i>> \in CsrReads <=>
        op \in live /\ i \in DOMAIN ins[op] /\ ins[op][i] \in CsrVn
  BY DEF CsrReads
<1>4. \A r \in CsrReads : \E op, i : r = <<op, i>>
  BY DEF CsrReads
<1>5. TypeOK'
  <2>1. CsrReads \in SUBSET (Op \X Nat)
    BY <1>1, <1>2, <1>3, <1>4
  <2> QED BY <1>1, <2>1 DEF IInv, TypeOK
<1>6. SlotsListed'
  BY <1>1, <1>3, <1>4 DEF SlotsListed
<1>7. OnlyCsrDropped' /\ PurgedReadsAreInputs' /\ OneInputPerRegister' /\ SlotsKeepTheirRegister'
  BY <1>1 DEF IInv, OnlyCsrDropped, PurgedReadsAreInputs, OneInputPerRegister,
    SlotsKeepTheirRegister
<1>8. FirstRun'
  <2>1. HeritageOps' = HeritageOps
    BY <1>1 DEF HeritageOps
  <2> QED BY <1>1, <2>1 DEF StartPromoting, IInv, FirstRun
<1> QED BY <1>5, <1>6, <1>7, <1>8 DEF IInv

(* A slot is set to the input of the register it reads; if that is the     *)
(* Varnode in it, the Varnode becomes an input.                            *)
LEMMA PromoteStep == IInv /\ PromoteSlot => IInv'
<1> SUFFICES ASSUME IInv, PromoteSlot PROVE IInv'
  OBVIOUS
<1>1. /\ UNCHANGED <<processed, f, out, live, vsets, purged, runs, pc>> /\ pc = "promote"
      /\ ins \in InputSeqs /\ live \in SUBSET Op /\ inputs \in SUBSET Vn
      /\ todo \in SUBSET (Op \X Nat)
      /\ CsrVn \subseteq Vn
  BY CsrAssumption DEF PromoteSlot, IInv, TypeOK
<1>2. PICK r \in todo :
        /\ todo' = todo \ {r}
        /\ IF InputOf(ins[r[1]][r[2]]) # {}
           THEN /\ \E w \in InputOf(ins[r[1]][r[2]]) : ins' = [ins EXCEPT ![r[1]][r[2]] = w]
                /\ UNCHANGED inputs
           ELSE /\ inputs' = inputs \cup {ins[r[1]][r[2]]}
                /\ UNCHANGED ins
  BY DEF PromoteSlot
<1> DEFINE o == r[1]
           k == r[2]
<1>3. /\ r = <<o, k>> /\ o \in Op /\ o \in live /\ k \in DOMAIN ins[o]
      /\ ins[o][k] \in CsrVn
  BY <1>1, <1>2 DEF IInv, SlotsListed
<1> HIDE DEF o, k
<1>4. PICK w \in CsrVn :
        /\ w \in inputs' /\ reg[w] = reg[ins[o][k]]
        /\ ins' = [ins EXCEPT ![o][k] = w]
        /\ inputs \subseteq inputs' /\ inputs' \subseteq inputs \cup {ins[o][k]}
        /\ OneInputPerRegister'
  <2>1. CASE InputOf(ins[o][k]) # {}
    BY <1>2, <2>1 DEF o, k, InputOf, IInv, OneInputPerRegister
  <2>2. CASE InputOf(ins[o][k]) = {}
    <3>1. inputs' = inputs \cup {ins[o][k]} /\ ins' = ins
      BY <1>2, <2>2 DEF o, k
    <3>2. ins = [ins EXCEPT ![o][k] = ins[o][k]]
      BY <1>1, <1>3 DEF InputSeqs
    <3>3. OneInputPerRegister'
      BY <2>2, <3>1 DEF InputOf, IInv, OneInputPerRegister
    <3> QED BY <1>3, <3>1, <3>2, <3>3
  <2> QED BY <2>1, <2>2
<1>5. /\ ins' \in InputSeqs /\ ins'[o][k] = w
      /\ \A x \in Op : DOMAIN ins'[x] = DOMAIN ins[x]
      /\ \A x \in Op : \A j \in DOMAIN ins[x] : <<x, j>> # r => ins'[x][j] = ins[x][j]
  <2>1. w \in Vn
    BY <1>1
  <2>2. /\ ins \in InputSeqs /\ o \in Op /\ k \in DOMAIN ins[o]
        /\ ins' = SlotSet(ins, o, k, w)
    BY <1>1, <1>3, <1>4 DEF SlotSet
  <2> QED BY <1>3, <2>1, <2>2, SlotSetFacts
<1>6. TypeOK'
  BY <1>1, <1>2, <1>3, <1>4, <1>5 DEF IInv, TypeOK
<1>7. OnlyCsrDropped'
  BY <1>1 DEF IInv, OnlyCsrDropped
<1>8. SlotsListed'
  <2>1. ASSUME NEW q \in todo'
        PROVE  q[1] \in live' /\ q[2] \in DOMAIN ins'[q[1]] /\ ins'[q[1]][q[2]] \in CsrVn
    <3>1. q \in todo /\ q # r /\ q = <<q[1], q[2]>> /\ q[1] \in Op
      BY <1>1, <1>2, <2>1
    <3>2. q[1] \in live /\ q[2] \in DOMAIN ins[q[1]] /\ ins[q[1]][q[2]] \in CsrVn
      BY <1>1, <3>1 DEF IInv, SlotsListed
    <3> QED BY <1>1, <1>5, <3>1, <3>2
  <2>2. ASSUME NEW op \in live', NEW i \in DOMAIN ins'[op], ins'[op][i] \in CsrVn
        PROVE  ins'[op][i] \in inputs' \/ <<op, i>> \in todo'
    <3>1. op \in Op /\ op \in live /\ i \in DOMAIN ins[op]
      BY <1>1, <1>5, <2>2
    <3>2. CASE <<op, i>> = r
      BY <1>3, <1>4, <1>5, <3>2
    <3>3. CASE <<op, i>> # r
      <4>1. ins'[op][i] = ins[op][i]
        BY <1>5, <3>1, <3>3
      <4>2. ins[op][i] \in inputs \/ <<op, i>> \in todo
        BY <1>1, <2>2, <3>1, <4>1 DEF IInv, SlotsListed
      <4> QED BY <1>2, <1>4, <3>3, <4>1, <4>2
    <3> QED BY <3>2, <3>3
  <2> QED BY <2>1, <2>2 DEF SlotsListed
<1>9. PurgedReadsAreInputs'
  <2> SUFFICES ASSUME purged', NEW op \in live', NEW v \in Reads(ins', op) \cap CsrVn
      PROVE  v \in inputs'
    BY DEF PurgedReadsAreInputs
  <2>1. op \in Op /\ op \in live
    BY <1>1
  <2>2. PICK i \in DOMAIN ins'[op] : ins'[op][i] = v
    BY DEF Reads, ToSet
  <2>3. CASE <<op, i>> = r
    BY <1>3, <1>4, <1>5, <2>2, <2>3
  <2>4. CASE <<op, i>> # r
    <3>1. i \in DOMAIN ins[op] /\ ins[op][i] = v
      BY <1>5, <2>1, <2>2, <2>4
    <3>2. v \in Reads(ins, op)
      BY <3>1 DEF Reads, ToSet
    <3> QED BY <1>1, <1>4, <2>1, <3>2 DEF IInv, PurgedReadsAreInputs
  <2> QED BY <2>3, <2>4
<1>10. SlotsKeepTheirRegister'
  <2> SUFFICES ASSUME NEW op \in live', NEW i \in DOMAIN f'.ins[op]
      PROVE  IF f'.ins[op][i] \in CsrVn
             THEN ins'[op][i] \in CsrVn /\ reg[ins'[op][i]] = reg[f'.ins[op][i]]
             ELSE ins'[op][i] = f'.ins[op][i]
    BY DEF SlotsKeepTheirRegister
  <2>1. /\ op \in Op /\ op \in live /\ f' = f
        /\ IF f.ins[op][i] \in CsrVn
           THEN ins[op][i] \in CsrVn /\ reg[ins[op][i]] = reg[f.ins[op][i]]
           ELSE ins[op][i] = f.ins[op][i]
    BY <1>1 DEF IInv, SlotsKeepTheirRegister
  <2>2. CASE <<op, i>> = r
    BY <1>3, <1>4, <1>5, <2>1, <2>2
  <2>3. CASE <<op, i>> # r
    BY <1>4, <1>5, <2>1, <2>3
  <2> QED BY <2>2, <2>3
<1>11. FirstRun'
  <2>1. HeritageOps' = HeritageOps
    BY <1>1 DEF HeritageOps
  <2> QED BY <1>1, <2>1 DEF IInv, FirstRun
<1> QED BY <1>4, <1>6, <1>7, <1>8, <1>9, <1>10, <1>11 DEF IInv

(* The exception changes nothing, and with the last slot the purge is done.*)
LEMMA EndStep == IInv /\ (ThrowOnWritten \/ FinishPromoting) => IInv'
<1> SUFFICES ASSUME IInv, ThrowOnWritten \/ FinishPromoting PROVE IInv'
  OBVIOUS
<1>1. /\ UNCHANGED <<processed, f, ins, out, live, inputs, vsets, todo, runs>>
      /\ pc = "promote" /\ pc' \in {"thrown", "transform"} /\ purged' \in BOOLEAN
      /\ live \in SUBSET Op
  BY DEF ThrowOnWritten, FinishPromoting, graph, IInv, TypeOK
<1>2. TypeOK'
  BY <1>1 DEF IInv, TypeOK
<1>3. OnlyCsrDropped' /\ OneInputPerRegister' /\ SlotsKeepTheirRegister'
  BY <1>1 DEF IInv, OnlyCsrDropped, OneInputPerRegister, SlotsKeepTheirRegister
<1>4. SlotsListed'
  BY <1>1 DEF SlotsListed
<1>5. PurgedReadsAreInputs'
  <2>1. CASE purged' = purged
    BY <1>1, <2>1 DEF IInv, PurgedReadsAreInputs
  <2>2. CASE FinishPromoting
    <3>1. \A op \in live : \A i \in DOMAIN ins[op] : ins[op][i] \in CsrVn => ins[op][i] \in inputs
      BY <1>1, <2>2 DEF FinishPromoting, IInv, SlotsListed
    <3> QED BY <1>1, <3>1 DEF PurgedReadsAreInputs, Reads, ToSet
  <2> QED BY <2>1, <2>2 DEF ThrowOnWritten
<1>6. FirstRun'
  <2>1. HeritageOps' = HeritageOps
    BY <1>1 DEF HeritageOps
  <2> QED BY <1>1, <2>1 DEF IInv, FirstRun
<1> QED BY <1>2, <1>3, <1>4, <1>5, <1>6 DEF IInv

LEMMA NextInv == IInv /\ [Next]_vars => IInv'
<1>1. CASE UNCHANGED vars
  BY <1>1 DEF vars, graph, IInv, TypeOK, OnlyCsrDropped, SlotsListed, PurgedReadsAreInputs,
              OneInputPerRegister, SlotsKeepTheirRegister, FirstRun, HeritageOps
<1> QED BY <1>1, DecompileStep, PoolStep, DropStep, StartStep, PromoteStep, EndStep DEF Next, Purge

-----------------------------------------------------------------------------
(* Theorems. *)

(* The invariant holds in every state of every program: what purgeCsrHeritage *)
(* and the two rules do to functions_processed and the functions keeps it.    *)
THEOREM Invariance == Spec => []IInv
BY InitInv, NextInv, PTL DEF Spec

(* The state is well typed: promoting a slot never leaves it unset.        *)
THEOREM Typing == Spec => []TypeOK
BY Invariance, PTL DEF IInv

(* After purgeCsrHeritage each read of a control register is of its value  *)
(* on entry to the function.                                               *)
THEOREM PurgeIsComplete == Spec => []PurgedReadsAreInputs
BY Invariance, PTL DEF IInv

(* However many reads setInputVarnode is called for, a register has one    *)
(* input Varnode.                                                          *)
THEOREM OneInput == Spec => []OneInputPerRegister
BY Invariance, PTL DEF IInv

(* Redirecting reads never changes which register a slot reads, nor any    *)
(* slot that reads something else.                                         *)
THEOREM RegistersKept == Spec => []SlotsKeepTheirRegister
BY Invariance, PTL DEF IInv

(* Dropping heritage takes no definition from a read of anything but a     *)
(* control register.                                                       *)
THEOREM DefinitionsKept == Spec => []OtherDefinitionsKept
<1>1. IInv => OtherDefinitionsKept
  <2> SUFFICES ASSUME IInv, NEW op \in live, NEW v \in Reads(ins, op) \ CsrVn, Written(f.out, v)
      PROVE  Written(out, v)
    BY DEF OtherDefinitionsKept
  <2> QED BY DEF IInv, OnlyCsrDropped, Written
<1> QED BY <1>1, Invariance, PTL

(* RuleVectorTransform meets no heritage of control registers in the first *)
(* decompilation of a process.                                             *)
THEOREM FirstIsPurged == Spec => []FirstRunPurged
<1>1. IInv => FirstRunPurged
  BY DEF IInv, FirstRun, FirstRunPurged
<1> QED BY <1>1, Invariance, PTL
=============================================================================
