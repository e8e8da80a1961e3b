---------------------------- MODULE CsrHeritage ----------------------------
(***************************************************************************)
(* RuleCsrRemoveHeritage (rule_vector_transform.cc) and                    *)
(* ActionPluginPrepare::purgeCsrHeritage (riscv_csr.cc): before the first  *)
(* vector transform of a function, the copies, phis and indirects that     *)
(* track control and status registers are dropped, and what still reads    *)
(* such a register reads its value on entry to the function.               *)
(*                                                                         *)
(* Ghidra decompiles a function again whenever the user asks for it: each  *)
(* time there is a new Funcdata, with the heritage built from scratch,     *)
(* while the rule's functions_processed lives as long as the process.      *)
(***************************************************************************)
EXTENDS Pcode, FiniteSets

CONSTANTS
  Func,         \* functions of the program, each as heritage leaves it: a record
                \* [ins, out, live]
  CsrVn,        \* Varnodes of the csreg space
  reg,          \* the register each of them stands for
  opcode,       \* opcode of each op
  VsetOps,      \* vsetvli and vsetivli user pcodes
  MaxDecompiles \* bound on the number of decompilations

HeritageCodes == {"COPY", "MULTIEQUAL", "INDIRECT"}

ASSUME CsrAssumption ==
  /\ CsrVn \subseteq Vn /\ VsetOps \subseteq Op
  /\ opcode \in [Op -> HeritageCodes \cup {"OTHER"}]
  /\ \A v \in CsrVn : v \in DOMAIN reg
  /\ \A v, w \in CsrVn \cap InputVn : reg[v] = reg[w] => v = w
  /\ \A g \in Func : /\ g.ins \in InputSeqs /\ g.out \in Outputs
                     /\ g.live \subseteq Op /\ IsSSA(g.out)
                     /\ \A op \in Op \ g.live : g.ins[op] = <<>> /\ g.out[op] = NoVn
  /\ MaxDecompiles \in Nat

VARIABLES
  processed, \* functions_processed
  f,         \* the function being decompiled
  ins, out, live,
  inputs,    \* Varnodes flagged as inputs
  vsets,     \* vset ops the rules have not been applied to
  todo,      \* slots purgeCsrHeritage has not looked at, pairs <<op, slot>>
  purged,    \* has this Funcdata been purged
  runs,      \* decompilations so far
  pc

graph == <<ins, out, live>>
vars == <<processed, f, graph, inputs, vsets, todo, purged, runs, pc>>

TypeOK ==
  /\ processed \in SUBSET Func
  /\ f \in Func
  /\ ins \in InputSeqs
  /\ out \in Outputs
  /\ live \in SUBSET Op
  /\ inputs \in SUBSET Vn
  /\ vsets \in SUBSET VsetOps
  /\ todo \in SUBSET (Op \X Nat)
  /\ purged \in BOOLEAN
  /\ runs \in 0..MaxDecompiles
  /\ pc \in {"idle", "pool", "drop", "promote", "transform", "thrown"}

Init ==
  /\ f \in Func
  /\ ins = f.ins /\ out = f.out /\ live = f.live
  /\ inputs = InputVn
  /\ vsets = VsetOps \cap f.live
  /\ purged = FALSE
  /\ processed = {}
  /\ todo = {}
  /\ runs = 0
  /\ pc = "idle"

(* Ghidra builds a new Funcdata and its rule pool begins to run.  An       *)
(* exception has ended the decompilation before, or the pool has.          *)
Decompile ==
  /\ pc \in {"idle", "thrown"}
  /\ runs < MaxDecompiles
  /\ runs' = runs + 1
  /\ f' \in Func
  /\ ins' = f'.ins /\ out' = f'.out /\ live' = f'.live
  /\ inputs' = InputVn
  /\ vsets' = VsetOps \cap f'.live
  /\ purged' = FALSE
  /\ todo' = {}
  /\ pc' = "pool"
  /\ UNCHANGED processed

(* RuleCsrRemoveHeritage::applyOp on the next vset op.  The pool may come  *)
(* back to an op: it then finds the function processed, and no purge.      *)
ApplyCsrRule ==
  /\ pc = "pool"
  /\ \E op \in vsets : vsets' = vsets \ {op}
  /\ IF f \in processed
     THEN /\ pc' = "transform"
          /\ UNCHANGED processed
     ELSE /\ processed' = processed \cup {f}
          /\ pc' = "drop"
  /\ UNCHANGED <<f, graph, inputs, todo, purged, runs>>

(* RuleVectorTransform::applyOp comes next on the same op.  What it does   *)
(* to the function is not part of this module.                             *)
ApplyVectorRule ==
  /\ pc = "transform"
  /\ pc' = "pool"
  /\ UNCHANGED <<processed, f, graph, inputs, vsets, todo, purged, runs>>

PoolDone ==
  /\ pc = "pool"
  /\ vsets = {}
  /\ pc' = "idle"
  /\ UNCHANGED <<processed, f, graph, inputs, vsets, todo, purged, runs>>

-----------------------------------------------------------------------------
(* purgeCsrHeritage *)

(* Mutant: the address space of the output is not looked at. *)
HeritageOpsAnySpace ==
  {op \in live : opcode[op] \in HeritageCodes /\ out[op] # NoVn}

HeritageOps == {op \in live : opcode[op] \in HeritageCodes /\ out[op] \in CsrVn}

(* Mutant: the op loses its inputs only, and is found again. *)
DropHeritageOpAgain ==
  /\ pc = "drop"
  /\ \E op \in HeritageOps : ins' = UnlinkedIns(ins, op)
  /\ UNCHANGED <<processed, f, out, live, inputs, vsets, todo, purged, runs, pc>>

DropHeritageOp ==
  /\ pc = "drop"
  /\ \E op \in HeritageOps :
       /\ ins' = UnlinkedIns(ins, op)
       /\ out' = UnlinkedOut(out, op)
       /\ live' = live \ {op}
  /\ UNCHANGED <<processed, f, inputs, vsets, todo, purged, runs, pc>>

(* Mutant: slot 0 is skipped. *)
CsrReadsFromSlotOne ==
  {r \in {<<op, i>> : op \in live, i \in 2..Cardinality(Vn)} :
     r[2] \in DOMAIN ins[r[1]] /\ ins[r[1]][r[2]] \in CsrVn}

CsrReads ==
  UNION {{<<op, i>> : i \in {j \in DOMAIN ins[op] : ins[op][j] \in CsrVn}} : op \in live}

(* Mutant: the first pass may end early. *)
StartPromotingEarly ==
  /\ pc = "drop"
  /\ todo' = CsrReads
  /\ pc' = "promote"
  /\ UNCHANGED <<processed, f, graph, inputs, vsets, purged, runs>>

StartPromoting ==
  /\ pc = "drop"
  /\ HeritageOps = {}
  /\ todo' = CsrReads
  /\ pc' = "promote"
  /\ UNCHANGED <<processed, f, graph, inputs, vsets, purged, runs>>

(* Mutant: an input of another register will do. *)
InputOfAny(v) == inputs \cap CsrVn

(* The input Varnode of v's register, if there is one yet. *)
InputOf(v) == {w \in inputs \cap CsrVn : reg[w] = reg[v]}

(* Mutant: an input that exists already is not reused. *)
PromoteSlotAnew ==
  /\ pc = "promote"
  /\ \E r \in todo :
       LET v == ins[r[1]][r[2]]
       IN /\ v \in inputs \/ ~Written(out, v)
          /\ todo' = todo \ {r}
          /\ inputs' = inputs \cup {v}
          /\ UNCHANGED ins
  /\ UNCHANGED <<processed, f, out, live, vsets, purged, runs, pc>>

(* Mutant: the slot is unset and, when the register has an input already,  *)
(* not set again.                                                          *)
PromoteSlotUnset ==
  /\ pc = "promote"
  /\ \E r \in todo :
       LET v == ins[r[1]][r[2]]
       IN /\ todo' = todo \ {r}
          /\ IF InputOf(v) # {}
             THEN /\ ins' = [ins EXCEPT ![r[1]][r[2]] = NoVn]
                  /\ UNCHANGED inputs
             ELSE /\ ~Written(out, v)
                  /\ inputs' = inputs \cup {v}
                  /\ UNCHANGED ins
  /\ UNCHANGED <<processed, f, out, live, vsets, purged, runs, pc>>

(* Funcdata::setInputVarnode returns the register's input Varnode, or      *)
(* makes the free Varnode the input; the slot is set to what it returns.   *)
PromoteSlot ==
  /\ pc = "promote"
  /\ \E r \in todo :
       LET v == ins[r[1]][r[2]]
       IN /\ todo' = todo \ {r}
          /\ IF InputOf(v) # {}
             THEN /\ \E w \in InputOf(v) : ins' = [ins EXCEPT ![r[1]][r[2]] = w]
                  /\ UNCHANGED inputs
             ELSE /\ ~Written(out, v)
                  /\ inputs' = inputs \cup {v}
                  /\ UNCHANGED ins
  /\ UNCHANGED <<processed, f, out, live, vsets, purged, runs, pc>>

(* A Varnode another kind of op writes cannot become an input: an          *)
(* exception ends this decompilation.                                      *)
ThrowOnWritten ==
  /\ pc = "promote"
  /\ \E r \in todo :
       /\ InputOf(ins[r[1]][r[2]]) = {}
       /\ Written(out, ins[r[1]][r[2]])
  /\ pc' = "thrown"
  /\ UNCHANGED <<processed, f, graph, inputs, vsets, todo, purged, runs>>

FinishPromoting ==
  /\ pc = "promote"
  /\ todo = {}
  /\ purged' = TRUE
  /\ pc' = "transform"
  /\ UNCHANGED <<processed, f, graph, inputs, vsets, todo, runs>>

Purge == DropHeritageOp \/ StartPromoting \/ PromoteSlot \/ ThrowOnWritten \/ FinishPromoting

Next == Decompile \/ ApplyCsrRule \/ ApplyVectorRule \/ PoolDone \/ Purge

(* The rules run to completion in the decompiler's thread; nothing obliges *)
(* the user to ask for another decompilation.                              *)
Spec == Init /\ [][Next]_vars /\ WF_vars(Next /\ ~Decompile)
-----------------------------------------------------------------------------
(* Properties. *)

(* After the purge every read of a control register is of its value on     *)
(* entry: none is of a free Varnode the decompiler would stumble over.     *)
PurgedReadsAreInputs ==
  purged => \A op \in live : Reads(ins, op) \cap CsrVn \subseteq inputs

(* A control register never gets two input Varnodes, although each read    *)
(* had one of its own.                                                     *)
OneInputPerRegister ==
  \A v, w \in inputs \cap CsrVn : reg[v] = reg[w] => v = w

(* Whatever is dropped and redirected, an op that is left reads in each    *)
(* slot what it read before, or the same control register.                 *)
SlotsKeepTheirRegister ==
  \A op \in live : \A i \in DOMAIN f.ins[op] :
    LET before == f.ins[op][i]
        now == ins[op][i]
    IN IF before \in CsrVn THEN now \in CsrVn /\ reg[now] = reg[before] ELSE now = before

(* Only the tracking of control registers is dropped: nothing but a read   *)
(* of such a register loses its definition.                                *)
OtherDefinitionsKept ==
  \A op \in live : \A v \in Reads(ins, op) \ CsrVn :
    Written(f.out, v) => Written(out, v)

(* A purge that has begun ends, with the vector rule's turn or an          *)
(* exception.                                                              *)
PurgeEnds == pc = "drop" ~> pc \in {"transform", "thrown"}

(* The first time a function is decompiled, the vector rule meets no copy, *)
(* phi or indirect of a control register, however many vset ops bring it   *)
(* its turn.  A function that is decompiled again keeps them: for          *)
(* functions_processed it has been purged.                                 *)
FirstRunPurged == pc = "transform" /\ runs = 1 => HeritageOps = {}
=============================================================================
