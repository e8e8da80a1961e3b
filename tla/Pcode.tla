------------------------------- MODULE Pcode -------------------------------
(***************************************************************************)
(* The part of Ghidra's Funcdata that the plugin edits: PcodeOps, their    *)
(* ordered input Varnodes and their single output Varnode.  Ghidra itself  *)
(* is not in this repository; these operators state what the plugin relies *)
(* on when it calls opUnlink, opRemoveInput, beginDescend, isFree.         *)
(*                                                                         *)
(* A function is a pair of maps: ins[op], the sequence of Varnodes op      *)
(* reads, slot by slot, and out[op], the Varnode it writes (NoVn if none). *)
(* Slot i of the code is position i+1 here.                                *)
(***************************************************************************)
EXTENDS Integers, Sequences, SequencesExt

CONSTANTS
  Op,        \* PcodeOps that may exist in the function
  Vn,        \* Varnodes that may exist in the function
  NoVn,      \* the null Varnode pointer
  InputVn,   \* Varnodes flagged as inputs of the function
  PoolVn     \* constants and annotations: never written, never inputs

ASSUME VnAssumption ==
  /\ NoVn \notin Vn
  /\ InputVn \subseteq Vn
  /\ PoolVn \subseteq Vn
  /\ InputVn \cap PoolVn = {}

InputSeqs == [Op -> Seq(Vn)]
Outputs == [Op -> Vn \cup {NoVn}]

(* The Varnodes op reads, and the ops on vn's descend list. *)
Reads(ins, op) == ToSet(ins[op])
Readers(ins, vn) == {op \in Op : vn \in Reads(ins, op)}

Written(out, vn) == \E op \in Op : out[op] = vn

(* Varnode::isFree: neither written by an op nor an input of the function. *)
IsFree(out, vn) == vn \notin InputVn /\ ~Written(out, vn)

(* A Varnode that needs a definition and has none.  Constants and          *)
(* annotations are free in Ghidra's sense, and harmless.                   *)
IsStale(out, vn) == IsFree(out, vn) /\ vn \notin PoolVn

(* Funcdata::opUnlink leaves the op with no inputs and no output. *)
UnlinkedIns(ins, op) == [ins EXCEPT ![op] = <<>>]
UnlinkedOut(out, op) == [out EXCEPT ![op] = NoVn]

(* Funcdata::opRemoveInput and opInsertInput on one op. *)
SlotRemoved(ins, op, slot) == [ins EXCEPT ![op] = RemoveAt(@, slot)]
SlotInserted(ins, op, slot, vn) == [ins EXCEPT ![op] = InsertAt(@, slot, vn)]

(* No Varnode has two writers, and the function's inputs, constants and    *)
(* annotations have none.                                                  *)
IsSSA(out) ==
  \A a \in Op : out[a] # NoVn =>
     /\ out[a] \notin InputVn \cup PoolVn
     /\ \A b \in Op : out[a] = out[b] => a = b
=============================================================================
