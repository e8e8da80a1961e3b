-------------------------- MODULE PluginLifecycle --------------------------
(***************************************************************************)
(* PluginManager (ghidra.pat) and the entry points of the plugin           *)
(* (riscv.cc, riscv_sleigh.cc): how a decompiler process loads a plugin    *)
(* while it constructs an Architecture, what the plugin keeps in globals   *)
(* about it, and how both are torn down.                                   *)
(*                                                                         *)
(* A process may construct several Architectures.  Each has a              *)
(* PluginManager and an ActionDatabase of its own; the loggers, the maps   *)
(* and the pointers of the plugin are there once per process.  One thread  *)
(* does everything: no other Architecture is touched while one is under    *)
(* construction or destruction.                                            *)
(***************************************************************************)
EXTENDS Integers, Sequences, SequencesExt, FiniteSetsExt

CONSTANTS
  Arch,      \* the Architectures the process may construct
  NoArch,    \* a pointer to none
  Language,  \* SLEIGH languages
  UserOps,   \* names of the user pcode ops of each language, from id 0 on
  Riscv,     \* languages whose description says "RISC-V"
  WithCsreg, \* languages with a csreg address space
  Handled,   \* the names VectorLoop::static_init has handlers for, in order
  MAX_USER_PCODES,
  MaxClones  \* bound on the action groups derived from the universal action

Environments == {"unset", "unopenable", "stranger", "plugin"}
Frontends == {"console", "gui"}
Specs == {"bad", "late", "good"}

(* DECOMP_PLUGIN names nothing, no library, a library that is no plugin,   *)
(* or this plugin.  The specification of an Architecture is refused before *)
(* the plugin is loaded, or something after restoreFromSpec fails.         *)
Settings ==
  [env : Environments, frontend : Frontends,
   lang : [Arch -> Language], spec : [Arch -> Specs]]

Ids == 0..MAX_USER_PCODES

(* A language gives each user pcode op a name of its own, and the first to *)
(* an instruction the plugin does not handle.                              *)
ASSUME LifecycleAssumption ==
  /\ NoArch \notin Arch
  /\ Riscv \subseteq Language /\ WithCsreg \subseteq Language
  /\ Handled \in Seq(ToSet(Handled))
  /\ \A l \in Language :
       /\ UserOps[l] \in Seq(ToSet(UserOps[l]))
       /\ IsInjective(UserOps[l])
       /\ Len(UserOps[l]) - 1 \in Ids
       /\ UserOps[l][1] \notin ToSet(Handled)
  /\ MAX_USER_PCODES \in Nat /\ MaxClones \in Nat

(* The typed builtins that have an id, and those the transforms insert.    *)
Builtin == {"memset", "memcpy", "strlen", "strcmpneq", "strcmp", "strncmpneq", "strncmp"}
Asked == {"memset", "memcpy", "strlen", "strcmp"}

VARIABLES
  setting,  \* how the process was started, and what it is to load
  process,  \* "alive", or how it ended
  stage,    \* how far each Architecture is
  loaded,   \* PluginManager.loaded of each
  rules,    \* pairs of plugin rules each ActionDatabase owns
  userops,  \* typed builtins registered in each
  refused,  \* builtins a rule asked for in vain
  loggers,  \* names in spdlog's registry
  arch,     \* the plugin's pointer to the Architecture
  csreg,    \* the Architecture whose csreg space the plugin holds
  pcodeMap, \* riscvPcodeMap: name of the op with an id
  nameToId, \* riscvNameToGhidraId
  handlers, \* opHandlers: the name whose handler an id has
  report    \* whether the report file is open

plugin == <<arch, csreg, pcodeMap, nameToId, handlers, report>>
manager == <<loaded, rules, userops, refused>>
vars == <<setting, process, stage, manager, loggers, plugin>>

Under == {"built", "loaded", "initialised", "ruled", "dying"}
Stages == Under \cup {"unbuilt", "running", "failed", "gone"}
Names == (UNION {ToSet(UserOps[l]) : l \in Language}) \cup ToSet(Handled)

IsMap(f, keys, values) == DOMAIN f \subseteq keys /\ \A k \in DOMAIN f : f[k] \in values

TypeOK ==
  /\ setting \in Settings
  /\ process \in {"alive", "terminated", "crashed"}
  /\ stage \in [Arch -> Stages]
  /\ loaded \in [Arch -> BOOLEAN]
  /\ rules \in [Arch -> 0..(1 + MaxClones)]
  /\ userops \in [Arch -> SUBSET Builtin]
  /\ refused \subseteq Arch \X Builtin
  /\ loggers \subseteq {"pluginManager", "riscv_vector"}
  /\ {arch, csreg} \subseteq Arch \cup {NoArch}
  /\ IsMap(pcodeMap, Ids, Names)
  /\ IsMap(nameToId, Names, Ids)
  /\ IsMap(handlers, Ids, ToSet(Handled))
  /\ report \in BOOLEAN

Init ==
  /\ setting \in Settings
  /\ process = "alive"
  /\ stage = [a \in Arch |-> "unbuilt"]
  /\ loaded = [a \in Arch |-> FALSE]
  /\ rules = [a \in Arch |-> 0]
  /\ userops = [a \in Arch |-> {}]
  /\ refused = {} /\ loggers = {}
  /\ arch = NoArch /\ csreg = NoArch
  /\ pcodeMap = <<>> /\ nameToId = <<>> /\ handlers = <<>>
  /\ report = FALSE

Moves(a, from, to) ==
  /\ process = "alive"
  /\ stage[a] = from
  /\ stage' = [stage EXCEPT ![a] = to]

Ends(how) ==
  /\ process' = how
  /\ UNCHANGED <<setting, stage, manager, loggers, plugin>>

LangOf(a) == setting.lang[a]
Idle == process = "alive" /\ \A a \in Arch : stage[a] \notin Under

-----------------------------------------------------------------------------
(* Constructing an Architecture. *)

(* The console holds one Architecture at a time. *)
Construct(a) ==
  /\ Idle
  /\ setting.frontend = "console" => \A b \in Arch : stage[b] \in {"unbuilt", "gone"}
  /\ Moves(a, "unbuilt", "built")
  /\ UNCHANGED <<setting, process, manager, loggers, plugin>>

(* The specification is refused before restoreFromSpec gets to the plugin. *)
RefuseSpec(a) ==
  /\ setting.spec[a] = "bad"
  /\ Moves(a, "built", "failed")
  /\ UNCHANGED <<setting, process, manager, loggers, plugin>>

(* PluginManager::loadPlugin *)
LoadPlugin(a) ==
  /\ setting.spec[a] # "bad"
  /\ "pluginManager" \notin loggers
  /\ Moves(a, "built", "loaded")
  /\ loggers' = loggers \cup {"pluginManager"}
  /\ loaded' = [loaded EXCEPT ![a] = setting.env \in {"stranger", "plugin"}]
  /\ UNCHANGED <<setting, process, rules, userops, refused, plugin>>

(* spdlog throws for a name it knows; neither front end catches that.      *)
LoggerExists(a) ==
  /\ process = "alive"
  /\ stage[a] = "built"
  /\ setting.spec[a] # "bad"
  /\ "pluginManager" \in loggers
  /\ Ends("terminated")

(* The GUI's Architectures describe themselves as "ghidra".                *)
Relevant(a) == setting.frontend = "gui" \/ LangOf(a) \in Riscv

(* PluginManager::initPlugin without a plugin, without plugin_init in it,  *)
(* or for an Architecture that is surely no RISC-V; loaded stays as it is. *)
SkipInit(a) ==
  /\ ~(setting.env = "plugin" /\ Relevant(a))
  /\ Moves(a, "loaded", "initialised")
  /\ UNCHANGED <<setting, process, manager, loggers, plugin>>

(* std::map::insert keeps what is there. *)
Inserted(map, more) ==
  [k \in DOMAIN map \cup DOMAIN more |-> IF k \in DOMAIN map THEN map[k] ELSE more[k]]

OpsOf(l) == [i \in 0..(Len(UserOps[l]) - 1) |-> UserOps[l][i + 1]]
IdsOf(l) == [n \in ToSet(UserOps[l]) |-> (CHOOSE i \in DOMAIN UserOps[l] : UserOps[l][i] = n) - 1]

(* Mutant: a name that is missing gets an id that is none. *)
IdOfOrNone(ids, n) == IF n \in DOMAIN ids THEN ids[n] ELSE MAX_USER_PCODES + 1

(* riscvNameToGhidraId[n] inserts id 0 for a name it does not have.        *)
IdOf(ids, n) == IF n \in DOMAIN ids THEN ids[n] ELSE 0

Looked(ids) == [n \in DOMAIN ids \cup ToSet(Handled) |-> IdOf(ids, n)]

(* VectorLoop::static_init: one handler after the other, the last counts.  *)
Slots(ids, i) == {k \in DOMAIN Handled : IdOf(ids, Handled[k]) = i}

Registered(ids) ==
  [i \in DOMAIN handlers \cup {IdOf(ids, n) : n \in ToSet(Handled)} |->
     IF Slots(ids, i) # {} THEN Handled[Max(Slots(ids, i))] ELSE handlers[i]]

(* Mutant: the handlers are registered before the ids are known. *)
InitPluginHandlersFirst(a) ==
  /\ setting.env = "plugin" /\ Relevant(a)
  /\ Moves(a, "loaded", "initialised")
  /\ loggers' = loggers \cup {"riscv_vector"}
  /\ arch' = a
  /\ report' = TRUE
  /\ pcodeMap' = Inserted(pcodeMap, OpsOf(LangOf(a)))
  /\ handlers' = Registered(nameToId)
  /\ nameToId' = Inserted(nameToId, IdsOf(LangOf(a)))
  /\ UNCHANGED <<setting, process, manager, csreg>>

(* initPlugin calls plugin_init.  The logger plugin_init creates cannot    *)
(* exist: the first Architecture that passes loadPlugin is the last.       *)
InitPlugin(a) ==
  /\ setting.env = "plugin" /\ Relevant(a)
  /\ Moves(a, "loaded", "initialised")
  /\ loggers' = loggers \cup {"riscv_vector"}
  /\ arch' = a
  /\ report' = TRUE
  /\ pcodeMap' = Inserted(pcodeMap, OpsOf(LangOf(a)))
  /\ LET ids == Inserted(nameToId, IdsOf(LangOf(a)))
     IN /\ nameToId' = Looked(ids)
        /\ handlers' = Registered(ids)
  /\ UNCHANGED <<setting, process, manager, csreg>>

(* PluginManager::initRules without a plugin *)
SkipRules(a) ==
  /\ ~loaded[a]
  /\ Moves(a, "initialised", "ruled")
  /\ UNCHANGED <<setting, process, manager, loggers, plugin>>

(* initRules with a library, whatever initPlugin returned, calls           *)
(* plugin_getrules.  A stranger has none; plugin_getrules uses the logger  *)
(* plugin_init made, riscv_sleigh_init the csreg space.                    *)
HasRules(a) == setting.env = "plugin" /\ "riscv_vector" \in loggers /\ LangOf(a) \in WithCsreg

InitRules(a) ==
  /\ loaded[a] /\ HasRules(a)
  /\ Moves(a, "initialised", "ruled")
  /\ csreg' = arch
  /\ UNCHANGED <<setting, process, manager, loggers, arch, pcodeMap, nameToId, handlers, report>>

(* Mutant: a plugin that was not loaded is asked, too. *)
NoRulesUnchecked(a) ==
  /\ process = "alive"
  /\ stage[a] = "initialised"
  /\ ~HasRules(a)
  /\ Ends("crashed")

NoRules(a) ==
  /\ process = "alive"
  /\ stage[a] = "initialised"
  /\ loaded[a] /\ ~HasRules(a)
  /\ Ends("crashed")

(* Architecture::buildAction: universalAction adds the rules; the          *)
(* ActionDatabase owns them from then on.                                  *)
BuildAction(a) ==
  /\ Moves(a, "ruled", IF setting.spec[a] = "late" THEN "failed" ELSE "running")
  /\ rules' = [rules EXCEPT ![a] = IF loaded[a] THEN 1 ELSE 0]
  /\ UNCHANGED <<setting, process, loaded, userops, refused, loggers, plugin>>

-----------------------------------------------------------------------------
(* Decompiling. *)

(* An action group is derived from the universal action: the rules of the  *)
(* plugin are cloned with the others.                                      *)
DeriveGroup(a) ==
  /\ Idle
  /\ stage[a] = "running"
  /\ rules[a] \in 1..MaxClones
  /\ rules' = [rules EXCEPT ![a] = @ + 1]
  /\ UNCHANGED <<setting, process, stage, loaded, userops, refused, loggers, plugin>>

(* Mutant: plugin_registerBuiltin has no case for vector_strcmp. *)
OfferedWithoutStrcmp == {"memcpy", "memset", "strlen", "strncmp"}

(* The cases of plugin_registerBuiltin *)
Offered == {"memcpy", "memset", "strlen", "strcmp", "strncmp"}

(* A rule asks UserOpManage::registerBuiltin for a builtin, which asks the *)
(* plugin the first time.                                                  *)
RegisterBuiltin(a, id) ==
  /\ Idle
  /\ stage[a] = "running" /\ rules[a] > 0
  /\ id \in Asked \ userops[a]
  /\ IF loaded[a] /\ id \in Offered
     THEN /\ userops' = [userops EXCEPT ![a] = @ \cup {id}]
          /\ UNCHANGED refused
     ELSE /\ refused' = refused \cup {<<a, id>>}
          /\ UNCHANGED userops
  /\ UNCHANGED <<setting, process, stage, loaded, rules, loggers, plugin>>

-----------------------------------------------------------------------------
(* Destroying an Architecture. *)

(* The console deletes an Architecture on request and one that failed; the *)
(* GUI forgets the latter.  The members go in reverse order of their       *)
(* declaration: first allacts with its rules, next the PluginManager.      *)
DestroyActions(a) ==
  /\ Idle
  /\ \/ Moves(a, "running", "dying")
     \/ setting.frontend = "console" /\ Moves(a, "failed", "dying")
  /\ rules' = [rules EXCEPT ![a] = 0]
  /\ UNCHANGED <<setting, process, loaded, userops, refused, loggers, plugin>>

(* Mutant: loaded is reset before cleanup looks at it. *)
DestroyManagerResetFirst(a) ==
  /\ "pluginManager" \in loggers
  /\ Moves(a, "dying", "gone")
  /\ loaded' = [loaded EXCEPT ![a] = FALSE]
  /\ UNCHANGED <<setting, process, rules, userops, refused, loggers, plugin>>

(* ~PluginManager: cleanup calls plugin_exit, if there is one.             *)
DestroyManager(a) ==
  /\ "pluginManager" \in loggers
  /\ Moves(a, "dying", "gone")
  /\ loaded' = [loaded EXCEPT ![a] = FALSE]
  /\ IF loaded[a]
     THEN pcodeMap' = <<>> /\ report' = FALSE
     ELSE UNCHANGED <<pcodeMap, report>>
  /\ UNCHANGED <<setting, process, rules, userops, refused, loggers, arch, csreg, nameToId, handlers>>

(* The destructor writes to a logger that loadPlugin has not made yet.     *)
NoLogger(a) ==
  /\ process = "alive"
  /\ stage[a] = "dying"
  /\ "pluginManager" \notin loggers
  /\ Ends("crashed")

Next ==
  \E a \in Arch :
    \/ Construct(a) \/ RefuseSpec(a)
    \/ LoadPlugin(a) \/ LoggerExists(a)
    \/ SkipInit(a) \/ InitPlugin(a)
    \/ SkipRules(a) \/ InitRules(a) \/ NoRules(a)
    \/ BuildAction(a)
    \/ DeriveGroup(a) \/ \E id \in Builtin : RegisterBuiltin(a, id)
    \/ DestroyActions(a) \/ DestroyManager(a) \/ NoLogger(a)

Spec == Init /\ [][Next]_vars
-----------------------------------------------------------------------------
(* Properties. *)

(* As long as a rule of the plugin exists, the globals it works with are   *)
(* those of its own Architecture: pointers, the names of its user pcode    *)
(* ops, and a handler at the id of each handled instruction it defines.    *)
RulesMeetTheirArchitecture ==
  \A a \in Arch : rules[a] > 0 =>
    /\ arch = a /\ csreg = a
    /\ \A i \in DOMAIN OpsOf(LangOf(a)) :
         LET name == OpsOf(LangOf(a))[i]
         IN /\ i \in DOMAIN pcodeMap /\ pcodeMap[i] = name
            /\ name \in ToSet(Handled) => i \in DOMAIN handlers /\ handlers[i] = name

(* What plugin_init allocated and opened is in the hands of a              *)
(* PluginManager that will release it, until it is released.               *)
HeldUntilReleased ==
  report \/ pcodeMap # <<>> => \E a \in Arch : loaded[a] /\ stage[a] # "gone"

(* A transform gets every builtin it asks for: past its point of no return *)
(* no exception strikes.                                                   *)
BuiltinsAnswered == refused = {}

Begun == {a \in Arch : stage[a] # "unbuilt"}

(* A process with one Architecture whose specification is read survives    *)
(* construction, use and destruction if there is no plugin to be had, or   *)
(* this one and a RISC-V that has control registers.                       *)
OneArchitectureIsSafe ==
  \A a \in Arch :
    /\ Begun = {a}
    /\ setting.spec[a] # "bad"
    /\ \/ setting.env \in {"unset", "unopenable"}
       \/ setting.env = "plugin" /\ LangOf(a) \in Riscv \cap WithCsreg
    => process = "alive"

(* A plugin that is not relevant for the one Architecture of the process   *)
(* does it no harm: what the comments of PluginManager promise.            *)
ForeignUnharmed ==
  \A a \in Arch :
    Begun = {a} /\ setting.spec[a] = "good" /\ setting.env = "plugin" /\ LangOf(a) \notin Riscv
    => process = "alive"
=============================================================================
