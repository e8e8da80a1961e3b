-------------------------- MODULE LoopReplacement --------------------------
(***************************************************************************)
(* What a loop transform promises: the function is left as it was, or the  *)
(* loop is replaced by one call and the rest of the function is the same   *)
(* but for the readers of the loop's result.                               *)
(***************************************************************************)
EXTENDS Pcode

CONSTANTS
  Functions, \* the functions considered, records [ins, out, live]
  LoopOp,    \* the ops of the loop but for its phis
  LoopPhi,   \* the phis of the loop
  NewOp,     \* the ops a transform adds
  NewVn,     \* what they write
  Phi,       \* all phis: their slots may be repaired
  Call       \* all calls: a parameter the loop computed may be dropped

VARIABLES
  shown,     \* the function as the decompiler goes on with it
  answer,    \* the result Varnode the call stands for, NoVn without one
  status

vars == <<shown, answer, status>>

Init == shown \in Functions /\ answer = NoVn /\ status = "open"

Keep == status = "open" /\ status' = "kept" /\ UNCHANGED <<shown, answer>>

(* The program has no defined way on: an operand is a null pointer, or the *)
(* build's assertions stop it.                                             *)
Stop == status = "open" /\ status' = "stopped" /\ UNCHANGED <<shown, answer>>

LoopVns(old) == {old.out[op] : op \in LoopOp \cup LoopPhi}

Answers(r, v) == IF v = r THEN NewVn ELSE {v}

(* Readers of the answer read the new op instead, slot by slot. *)
SameReads(old, new, r, op) ==
  IF op \in Phi \/ (op \in Call /\ Reads(old.ins, op) \cap LoopVns(old) # {})
  THEN Reads(new.ins, op) \subseteq UNION {Answers(r, v) : v \in Reads(old.ins, op)}
  ELSE /\ Len(new.ins[op]) = Len(old.ins[op])
       /\ \A i \in DOMAIN new.ins[op] : new.ins[op][i] \in Answers(r, old.ins[op][i])

Replaces(old, new, r) ==
  /\ new.live \cap LoopOp = {}
  /\ new.live \subseteq old.live \cup NewOp
  /\ \A op \in new.live \ NewOp :
       SameReads(old, new, r, op) /\ new.out[op] = old.out[op]
  /\ \A op \in old.live \ (LoopOp \cup new.live) : old.out[op] # NoVn
  /\ \A op \in new.live : \A v \in Reads(new.ins, op) :
       IsStale(new.out, v) => v \in LoopVns(old)

Replace ==
  /\ status = "open"
  /\ status' = "replaced"
  /\ Replaces(shown, shown', answer')

Next == Keep \/ Stop \/ Replace

Spec == Init /\ [][Next]_vars
=============================================================================
