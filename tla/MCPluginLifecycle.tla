------------------------- MODULE MCPluginLifecycle -------------------------
(***************************************************************************)
(* Two Architectures in a process.  Two RISC-V languages with every        *)
(* instruction the plugin handles, at different ids, one that lacks some   *)
(* of them, and a language of another processor.  The first user pcode op  *)
(* of each is none the plugin handles.                                     *)
(***************************************************************************)
EXTENDS PluginLifecycle

McLanguage == {"rv64", "rv32", "old", "x86"}

McUserOps ==
  [rv64 |-> <<"ecall", "vset", "vle", "vmor">>,
   rv32 |-> <<"ecall", "fence", "vle", "vmor", "vset">>,
   old |-> <<"ecall", "vle">>,
   x86 |-> <<"cpuid", "fence">>]

McRiscv == {"rv64", "rv32", "old"}
McHandled == <<"vset", "vle", "vmor">>
=============================================================================
