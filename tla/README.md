# Formal model of the RISC-V vector plugin for the Ghidra decompiler

The repository adds a plugin mechanism to Ghidra's native decompiler
(`src/ghidra.pat`) and one plugin for it (`src/plugins/`), which recognises
inlined RISC-V vector code for `memcpy`, `memset`, `strlen` and `strcmp` and
replaces it by calls of builtin functions. The plugin edits the decompiler's
internal representation while the decompiler is at work on it: PcodeOps,
Varnodes, phi nodes (`MULTIEQUAL`), basic blocks. A mistake is not a wrong
character in the output but a `Low-level ERROR`, a crash, or C code that says
something else than the binary does. The modules here model those edits and
state when they are correct.

Line numbers below are those of the commit in `src/`. `PROJECT.json` maps every
definition to its source lines, lists the hazards these properties are meant for,
and names the findings.

## 1. Inventory

Everything runs in one thread of one decompiler process. Ghidra's `ActionPool`
applies rules to PcodeOps, one op after the other, and starts again as long as a
rule reports a change. The plugin has two rules, both for `CALLOTHER` ops and in
this order: `RuleCsrRemoveHeritage`, `RuleVectorTransform`. There is therefore no
concurrency between threads; what is hard is

- *order nobody chose*: descend lists and `std::set`s of pointers are walked in the
  order of heap addresses, which differs from run to run;
- *edits that outlive what they were based on*: op pointers queued before other ops
  are deleted, descend lists copied before they change, static sets that outlive
  the function they describe;
- *protocols with Ghidra*: a Varnode whose writer is deleted becomes free, a phi
  must have one slot per in-edge of its block, an op must not be destroyed twice, a
  rule must report its changes;
- *partial repairs and partial failure*: a transform may be rolled back, an
  exception may end a decompilation in the middle of a purge.

| Component | Source | State | Operations | Correct when |
|---|---|---|---|---|
| PluginManager | `ghidra.pat` 100-303 | `dlopen` handle, logger, `loaded`; one per Architecture, a member in front of the ActionDatabase that owns the rules | load, init, rules, registerBuiltin, cleanup, destructor | a plugin is initialised before its rules are asked for, and left after its last rule |
| Plugin entry points | `riscv.cc`, `riscv_sleigh.cc` | one per process: maps between names and ids of user pcodes, handlers, the pointers to the Architecture and its spaces, report file, logger | `plugin_init`, `plugin_getrules`, `plugin_registerBuiltin`, `plugin_exit` | the globals describe the Architecture whose rules use them |
| RuleCsrRemoveHeritage, `purgeCsrHeritage` | `rule_vector_transform.cc` 17-55, `riscv_csr.cc` 25-93 | static `functions_processed`; the function's graph | apply on a vset op, drop heritage, promote reads to inputs | no read of a free control register is left, nothing else loses its definition, every function the vector rule sees is purged |
| RuleVectorTransform | `rule_vector_transform.cc` 57-163 | transform counters | dispatch of vsetivli to VectorSeries, of vsetvli to VectorMatcher | limits are kept, changes are reported |
| VectorSeries | `vector_ops.cc` 129-278 | `loadSet`, `deleteSet`, `pcodesToBeBuilt`, `numBytes` | collect the loads behind a vsetivli, match them with stores, build and delete | the block does what it did, and no register loses a load somebody reads |
| VectorLoop | `vector_ops.cc` 280-1067 | flags, registers, op and Varnode sets of a loop | control flow, phi nodes, loop ops, common elements, epilog, related blocks, `unresolvedDependencies` | what it reports as the loop's pointers, counters and exits are those |
| VectorEpilogProcessor, `Inspector::collectDependencies` | `vector_ops.cc` 1069-1137, `inspector.cc` 168-223 | dependency sets, candidate stack | trace two roots, intersect, filter, take the first | the result depends on both roots and survives the loop |
| VectorMatcher, builtin transforms | `vector_matcher.cc`, `vector_stdlib.cc` | flags derived from the loop, the queues of ops to delete | `isMemcpy`, `isStrlen`, `isStrcmp`, the three transforms and their rollbacks | a transform is applied completely or not at all, and only to a loop that is the library function |
| FunctionEditor, ops | `framework.cc` 52-77, 223-360 | `descendentsToReview`, the loop block's in-edges | `deleteOp`, `removeUnusedOps`, `simplifyBlocks` | after it, no op reads a Varnode that lost its definition unless that is reported; phis fit their blocks |
| FunctionEditor, blocks | `framework.cc` 79-221, 362-400, `ghidra.pat` 38-58 | Ghidra's tree of structured blocks: parents, components, edges, goto targets | `removeDoWhileWrapperBlock`, `replaceBlock`, `removeComponentLink` | the wrapper goes completely or not at all, nothing refers to it afterwards, the rest of the tree is as it was |
| Inspector | `inspector.cc` | log file | logging; `auditMultiequals` changes phis | an audited phi has as many slots as its block has in-edges |

How they interact. While Ghidra constructs an Architecture, it has its PluginManager
load the library `DECOMP_PLUGIN` names, initialise it (`plugin_init`) and ask it for
rules (`plugin_getrules`), which the universal action takes in; every action group that
is derived from it clones them. The destructor of the Architecture drops the rules and
then has the PluginManager call `plugin_exit`.

`ActionPool` hands a `CALLOTHER` to the csr rule, which may
purge the whole function, then to the vector rule. For a `vsetivli` the latter
builds a `VectorSeries` on the op's block and lets it rewrite loads and stores. For
a `vsetvli` it builds a `VectorMatcher`, which runs the analysis of `VectorLoop`;
if a builtin matches, a transform inserts the call, asks the epilog processor for
the Varnode that carries the loop's result where there is one, and hands the ops to
delete, the epilog blocks and the blocks related to the loop to
`FunctionEditor::simplifyBlocks`. That one deletes, purges what nobody reads any
more, takes away the loop's back edge and an empty do-while wrapper block, reviews
every op that now reads a free Varnode, and finally lets the `Inspector` audit the
phis.

The interesting behaviour sits in the last third of that chain, in the code that
edits. Hence the order of the modules: the editor first, then what leads to it, and
last what starts and stops the whole.

## 2. Modules

| Module | Models | Status |
|---|---|---|
| `Pcode` | Ghidra's `Funcdata` as the plugin relies on it (external): slots, outputs, readers, free and stale Varnodes | used by all graph modules |
| `FunctionEditor` | `simplifyBlocks` with `deleteOp`, `removeUnusedOps`, the trim of `removeDoWhileWrapperBlock`, `auditMultiequals` | checked, proved |
| `BlockStructure` | the rest of `removeDoWhileWrapperBlock`, with `replaceBlock`, for several loops of a function | checked, proved |
| `EpilogResult` | `collectDependencies`, `getIntersectionVector`, the choice of the result | checked, proved |
| `CsrHeritage` | both rules' order on vset ops, `purgeCsrHeritage`, repeated decompilations | checked, proved |
| `VectorSeries` | `VectorSeries` and the rule pool over one block | checked, proved |
| `PluginLifecycle` | PluginManager, the entry points and globals of the plugin, over several Architectures | checked, proved |
| `VectorLoop` | `VectorLoop`'s and `VectorMatcher`'s analysis of a loop, as operators | used by `LoopTransform` |
| `LoopTransform` | the loop branch of `applyOp`, the three matchers and transforms; an instance of `FunctionEditor` | checked, proved |
| `LoopReplacement` | what a transform promises; implemented by `LoopTransform` | abstract |
| `SequenceFacts` | lemmas on edits of sequences | proved |
| `FunctionEditorProofs`, `BlockStructureProofs`, `CsrHeritageProofs`, `EpilogResultProofs`, `VectorSeriesProofs`, `PluginLifecycleProofs`, `LoopTransformProofs` | the theorems, each about the module it is named after | proved |
| `MC*` | the instances TLC explores | |

### FunctionEditor

State: the graph (`ins`, `out`, `live`: an op's input Varnodes slot by slot, its
output, whether it is still part of the function), the in-edges of the blocks
(`edges`), the work of the current phase (`todo`, `fixed`, `cur`, `slot`), `review`
for `descendentsToReview`, and `pc` for the phase. `fn` keeps the function and the
edit lists simplifyBlocks was called with, so that properties may compare.

One action per step of the code: deleting an op queues the readers of its output
(`framework.cc` 52-77) and takes the op itself off the queue; a scan collects the
ops of the blocks whose outputs are unread (223-248) and their deletion follows one
by one, in any order; the loop edge goes, the do-while's phis are trimmed; the
review (262-359) walks the slots of every queued op, duplicating or removing a slot of a
phi and removing a slot of a call; an op with a repaired slot leaves the queue; the
audit (`inspector.cc` 280-333) removes self-references from phis with too many
slots. The duplication's `getIn(1)` behind the end of a one-slot phi is an action of
its own that leads to `aborted`: the read is undefined behaviour, and the builds
the repository's walkthrough shows assert the index.

Abstracted: sequence numbers, sizes, address spaces apart from "register space or
not", log messages. What `removeDoWhileWrapperBlock` does to Ghidra's structured blocks
is the subject of the next module; of it only the trim of the phis matters to ops.

### BlockStructure

State: `parent`, `list` (the components of a block, in order), `target` (of the goto of a
BlockIf, BlockGoto, BlockMultiGoto or BlockSwitch), `edges`, `live` (blocks that have not
been deleted), and the locals of the code: `body` for `copyBlk`, `wrapper` for `doWhile`,
the edges saved in `into` and `outof`, the index `slot`, and `graphs`, the BlockGraphs the
recursion of `replaceBlock` has still to enter. `fn` keeps the structure as it was. The
loops of a function are dealt with one after the other, in any order, as the rules come to
them.

`Start` and `LeaveAlone` are the tests at the top (79-142): only a do..while that stands in
a list is removed. The in-edges of the wrapper are removed while an index runs over them
(`RemoveInEdge`), then the out-edges, then the body's edge to itself; the body gets its new
parent; `ReplaceIn` is one call of `replaceBlock`, for one BlockGraph; `Unlink` takes the
body out of the wrapper (`ghidra.pat` 46-50), and `RestoreAndDelete` puts the saved edges
on the body and deletes the wrapper with the components it still has, as `~BlockGraph` does.

Whether the loops over shrinking edge lists miss an edge depends on how many edges a
component of a list can have. That is Ghidra's doing (external): `ruleBlockCat` and
`selfIdentify` leave at most the edges along the list and one from its end to its
beginning, which `IsStructure` states.

Abstracted: labels and order of edges (the index may come to any of those that are
left), addresses, the order in which the recursion visits the graphs, and the number of
gotos of a BlockMultiGoto or BlockSwitch, of which one stands for all.

`framework.hh` 96-97 says that `replaceBlock` replaces "all references", "including if
branches and gotos". The code follows the gotos of a BlockIf and a BlockGoto (`Followed`)
and none of a BlockMultiGoto or BlockSwitch (`Multiway`, `framework.cc` 377-395): such a
goto to the do..while is left with a block that is deleted next. A goto of any kind may lead
to any block here, and the properties say exactly what becomes of it (`Overlooked`).

### EpilogResult

`collectDependencies` keeps a stack of Varnodes to expand; each step looks at one
reader in the order of the descend list, which the model leaves open. Its
`visitedVns` is initialised with the stop set and never added to; termination rests
on `visitedOps` and on the limit of expansions. The intersection is filtered by
`isDefinedInLoop`, which takes `vl` to be defined in the loop and any other control register
not to be, by the address window behind the loop and, for strlen, by the register space;
`std::sort(begin, begin)` does nothing, so the model picks any candidate.

### CsrHeritage

`functions_processed` is a variable that survives `Decompile`, the action by which
Ghidra builds a new `Funcdata` of the same function. The purge is modelled op by op
and slot by slot. `setInputVarnode` (external) returns the register's input Varnode
if there is one, makes the free Varnode the input otherwise, and throws for a
Varnode that is written.

### VectorSeries

The pool's position, the queues of `match` (`loadSet`, `pcodesToBeBuilt`,
`deleteSet`), and the block as a sequence of ops. Descend lists are visited in any
order. To say what "does what it did" means, the module gives ops a meaning: vset
instructions set the number of elements and their size, loads and stores move that many
elements of the width that their own opcode names (the plugin takes every `vle*` and `vse*`,
`riscv.cc` 60-65), `vmv.v.i` writes elements of the size set, the builtins move `numBytes`,
a number without bound: that it is put in a constant of one byte (`vector_ops.cc` 228) is
not looked at. `States` is the run of a
sequence of ops from the memory at the start, `Meaning` the memory left behind together
with the values handed to other vector ops and other blocks. A vector register is written
by one op (SSA), as in Ghidra's graph.

`match` pairs a call to insert with the store it replaces (`pcodesToBeBuilt`) and takes
the loads in the order of the block; since it is only the loads that are taken out of
`loadSet`, a set and the position in the block stand for the code's vector.

### PluginLifecycle

`stage` says how far each Architecture has come, in the order of the hooks of
`ghidra.pat`: `built` (members exist), `loaded` (`loadPlugin`), `initialised`
(`initPlugin`), `ruled` (`initRules`), `running`, `dying` (the rules are gone), `gone`.
`loaded`, `rules` and `userops` are per Architecture; `loggers`, `arch`, `csreg`,
`pcodeMap`, `nameToId`, `handlers` and `report` are there once per process, since
they are static or belong to spdlog's registry. `setting` is what the process starts
with: the front end, what `DECOMP_PLUGIN` names, the language of each Architecture, and
whether its specification is refused before the plugin is loaded or after.

One action per function, with its early returns as actions of their own: `SkipInit` and
`SkipRules` where there is nothing to call, `InitPlugin` for `plugin_init` with
`VectorLoop::static_init`, `InitRules` for `plugin_getrules` with `riscv_sleigh_init`,
`BuildAction` and `DeriveGroup` for the rules an ActionDatabase comes to own,
`RegisterBuiltin` for a transform that asks for a builtin, `DestroyActions` and
`DestroyManager` for the destructor. Where the code throws with nobody to catch it
(`LoggerExists`: spdlog knows the name already) or follows a null pointer (`NoRules`,
`NoLogger`), the process ends.

The maps are modelled by what `std::map` does: `Inserted` keeps what is there, and
`IdOf` is `operator[]`, which gives a missing name the id 0. `Registered` is therefore
faithful to handlers of instructions the language does not define: they all land on user
pcode 0, and the last one stays.

Abstracted: one thread does everything; the null entries that looking up a builtin's id
may insert into `riscvPcodeMap`; the datatypes of the builtins; flushing of loggers and
reports. `unloadPlugin` is called by nothing.

### VectorLoop, LoopTransform, LoopReplacement

`VectorLoop` has no state: the analysis reads the function and fills in members of
`VectorLoop` and `VectorMatcher`, and changes nothing else, so each member is an
operator on the function. `PhisOf` and `EntrySlots` are `registerPhiMapping`, `EntryValue` a
`pExternal`, `LoopLocalVns` and `Unresolved` are `loopLocalVns` and
`unresolvedDependencies`, `Dependents` is the set `collectDependencies` looks for
(that it finds it is what `EpilogResult` shows) and `CutOff` says when it may not.
Addresses stay numbers, because the code compares them: whether an op is in the
loop, in front of it or behind it is decided by address more often than by block.

`LoopTransform` goes through the code in order: `Start` (a match, counted),
`ChooseResult` or `NoResult`, `RollBack`, and then `Commit`, which is all that lies
between the comment "after this point pcode changes are irreversible" and the call of
`simplifyBlocks`: new ops, new outputs, the readers of the result, the list of ops to
delete. No other code runs in between, so it is one step. `HandedOver` is what
`simplifyBlocks` gets. From there the actions are those of `FunctionEditor`, taken in
by `INSTANCE` with `Handover` for its functions: the two modules share the graph.
`NullOperand` is where the code follows a null pointer, and so is `NullLoad`: the analysis
looks at the output of each load of the loop (`vector_ops.cc` 825-826) before any matcher is
asked, and Ghidra may have lost it, as VectorSeries reckons (198-203). The search for the
result may be given one too, where the test of a strlen loop is not on a Varnode that an op
writes: nothing depends on it, and the transform rolls back (`NoResult`).

`LoopReplacement` is the contract, in terms of the function before and after only: it is
kept as it was; or the loop's ops are gone, an op is left with the Varnodes it read
except that readers of the result read a new op instead, what else is gone had an
output, and a Varnode without definition that is still read is one of the loop's; or the
program has no defined way on. Two sorts of ops may read less than before: phis, whose
slots are repaired, and a call one of whose parameters the loop computed. The refinement
mapping shows the function as the decompiler goes on with it: the old one until the
transform is over.

Abstracted: a `CALLOTHER`'s id input, sizes, storage of new Varnodes, `CAST`s count
as ops that are neither vector nor scalar, as in the code. The candidates for the
result are chosen freely. The heap addresses, which order the deletions, are a constant:
`FunctionEditor` alone is checked in every order.

What the matchers rely on without a look is in `PcodeAssumption`, which TLC evaluates for
every loop of the run: the loop's addresses and its block agree, its phis have a slot for
each in-edge, loads read an address, a branch does not read arithmetic directly, a value
that is the only one to come in from outside is not defined inside, and of the control
registers only `vl` is written in the loop, since `RuleCsrRemoveHeritage` has been there
before.

## 3. What TLC checks

Passing runs:

| Run | Instance | Properties |
|---|---|---|
| `editor` | 396 functions around a loop of four ops, 12 ops, 14 Varnodes | `TypeOK`, `ReviewExact`, `NoDoubleUnlink`, `PurgeLeavesNoReader`, `NoSilentStaleRead`, `NoExcessSlots`, `EdgeInputsKept`, `RestKept`, `Returns` |
| `structure` | five shapes of structured blocks with one or two loops, each with every goto of the BlockIf, BlockGoto, BlockMultiGoto or BlockSwitch next to them | `TypeOK`, `OnlyOverlookedDangle`, `StructureKept` |
| `epilog` | 108 graphs with 4 ops behind the loop, both transforms, a limit of 4 expansions | `TypeOK`, `CompleteUnlessCut`, `ChainsBounded`, `ResultFound`, `Returns` |
| `csr` | 24 functions, 2 decompilations | `TypeOK`, `PurgedReadsAreInputs`, `OneInputPerRegister`, `SlotsKeepTheirRegister`, `OtherDefinitionsKept`, `FirstRunPurged`, `PurgeEnds` |
| `loop` | 480 loops: memcpy, strlen and strcmp as the design notes show them, with four ways to enter, a reader of the loop's Varnodes in front, behind or in between, readers of the result of each kind, and loops that nearly match or have a load without output | `TypeOK`, `HandoverValid`, `CallReadsEntryValues`, `BranchesGoTheSameWay`, `NothingLeaks`, `ImplementsReplacement` |
| `series` | 14,484 blocks of a vsetivli and four ops, elements of one and two bytes, 7 memory cells | `TypeOK`, `SameEffectWhenPlain`, `ReadLoadsKept`, `WritesInOrder`, `Settles` |
| `plugin` | two Architectures, four languages, both front ends, each setting of `DECOMP_PLUGIN`, specifications refused early, late or not | `TypeOK`, `RulesMeetTheirArchitecture`, `HeldUntilReleased`, `BuiltinsAnswered`, `OneArchitectureIsSafe` |

What they show:

- `editor`. The queue of ops to review is exact while ops are deleted: it holds those
  live ops that read a stale Varnode, and none that is gone (`ReviewExact`), so the
  review dereferences no deleted op and misses none. No op is unlinked twice although
  the caller's list and every scan may name it again. Outputs found unread are still
  unread when their ops go. When the editor returns, every op but a phi that still reads
  a stale Varnode is reported (a phi of two stale inputs gets the other one twice, is
  counted as fixed, and goes unreported); a phi that fitted its block (`Fits`: a slot
  for each in-edge, and a read of itself along the loop edge alone) has no more slots
  than the block has in-edges, reported or not; one with two inputs keeps on each edge
  the Varnode that came along it. What is not handed over for deletion and is read stays
  as it was, but for slots of phis and of calls that read something deleted
  (`RestKept`). It returns.
- `structure`. Between two replacements the tree is the original one with each do..while
  that stood in a list, and whose loop is gone, contracted to its body: order, components,
  gotos and edges of everything else are untouched, whichever loop goes first, and a
  do..while that stands elsewhere is left whole. At no step does a block that exists refer
  to one that has been deleted, with one exception: a goto of a BlockMultiGoto or BlockSwitch
  that led to such a do..while from the beginning still does (`OnlyOverlookedDangle`), which
  is less than `framework.hh` 96-97 promises.
- `epilog`. The dependency search ends on cyclic graphs; if the limit did not cut it
  off, it found every dependent; each Varnode it reports is at the end of a chain from
  the root, through others it reports, of no more ops than the limit; the result chosen
  depends on both roots, is not defined in the loop and is not the stop Varnode; and a
  transform comes back without one only if there is none close behind the loop, or if a
  root has at least as many dependents as the limit allows expansions (`ResultFound`).
- `csr`. After the purge all reads of control registers are of inputs, one input per
  register, every slot still reads the register it read, and no other Varnode loses its
  definition; a purge that begins ends. In the first decompilation of a function the vector
  rule meets it purged; in a second one it does not, since `functions_processed` outlives
  the Funcdata. The exception path leaves the function marked as processed.
- `loop`. A transform that gives up, at whatever point, has changed nothing; one that goes
  through hands `simplifyBlocks` a function in SSA form whose reads are all defined, and
  what comes back is the function with a call in the loop's place
  (`ImplementsReplacement`). The call reads the value the loop is entered with where there
  is one, wherever the phi has its slot; of a loop entered from two blocks with two
  pointers it gets the first, on both paths. Two values are left out of that property: `vl`,
  and the result itself, which a loop inside another may be entered with; the call would
  then read what it writes. Nothing in front of the loop or behind the result is left to
  read the loop's counters and pointers, the phis of memory excepted, which the transform
  does not look at. A branch on the result of a strcmp goes the way it went.
- `series`. For loads and stores as plain as the code takes them to be (`Plain`: a load
  and a store of its register are under the same vsetivli, which names one register; both
  move elements of the size that it names; the bytes of an immediate are alike; nothing is
  stored over the source in between),
  the rewritten block has the effect of the original at every point between two rules;
  no load is deleted that anybody, here or in another block, still reads; there is a
  one-to-one pairing of the writes left with the program's that keeps order and addresses
  (`WritesInOrder`); the pool settles.
- `plugin`. As long as a rule of the plugin exists, the pointers, names and handlers it
  uses are those of its own Architecture. This holds because a second Architecture never
  gets past `loadPlugin`: its logger exists already, with or without a plugin, and the
  exception ends the process. What `plugin_init` opened and filled is in the hands of a
  PluginManager until it is released. Every builtin a transform asks for exists. One
  Architecture lives and dies without a crash if its specification is read and there is
  no plugin, or this one and a RISC-V with control registers.

Runs that end in a violation show where the program differs from what its own docs and
comments say; each is a finding with its quotation in `PROJECT.json`:

| Run | Property | What the trace shows |
|---|---|---|
| `editor_call_target` | `CallTargetKept` | the review of a call removes slot 0, the target, since constants are "free" |
| `loop_meaning` | `ReadersAreToldTheSame` | a returned equality becomes `vector_strcmp` itself, zero for equal strings; the order of a subtraction's operands is not looked at |
| `epilog_first` | `FirstInEpilog` | the candidates are not sorted; any of them may be taken |
| `series_effect` | `SameEffect` | the builtin differs from the load and store: overlapping store in between, another vset, LMUL counted twice, another element width, multi-byte immediates |
| `plugin_foreign` | `ForeignUnharmed` | with the plugin configured, an Architecture of another processor crashes: `initPlugin` skips it, `initRules` does not |

### Bounds

- The functions of `editor` have everything a phase of `simplifyBlocks` looks at:
  two or three in-edges in either order, one or two entries, a phi in the loop, a phi
  behind it with two or three inputs each stale or not, in the register space or not, a
  call and another op that read a stale Varnode or not, a wrapper block or none, and a
  chain of unread ops that takes the scan two rounds. Further ops would repeat
  these. The theorems below hold for all functions.
- The shapes of `structure` put a do..while at either end and in the middle of a list, two
  in a row, in a list that is itself looped, below a BlockIf and directly below the root.
  Two loops show that one removal leaves what the next one needs. The BlockMultiGoto and the
  BlockSwitch go to each of the two loops and to a block that stays.
- `MaxDepth` is smaller than the number of dependents in some graphs and larger in
  others, so both ends of the search occur; `SearchDepth` leaves one op of the epilog
  outside the window.
- Two decompilations are enough for a function to come back after itself and after an
  exception, and for two functions to share the rule's static set.
- In `plugin` two Architectures are enough for one to meet the other's globals, loggers and
  remains. The languages are two RISC-Vs with all instructions the plugin handles, at
  different ids, an older one that lacks some of them, and another processor. All
  three RISC-Vs have a csreg space. `MaxClones` lets one further action group be derived.
- In `series` four ops are enough for two loads with crossed stores, for a load whose
  store is under another vsetivli, and for readers of every kind; there are loads and stores
  of the width set and of another, under either size; `Cells` is as large
  as the highest address any transfer reaches; `Limit` of 2 lets the limit strike
  between two vsetivli of a block as well as not at all. The two limits of the build
  are `INT_MAX` (`riscv.hh` 49-50).
- In `loop` the addresses are those of a loop of a few instructions with an epilog
  within the search window and ops far behind it. `MaxDepth` is 11 where the build has
  12: with 11 the dependents of some strcmp loops are more than the limit, so that the
  search may be cut off, and of others fewer. A limit of one transform, with a count of
  zero or one so far, shows both sides of the limit. Each function has one heap order.

### Fairness

`FunctionEditor`, `EpilogResult` and `VectorSeries` assume weak fairness of the whole
next-state relation: a function call on one thread that runs as long as it can take a
step. No fairness is assumed between alternatives, so liveness holds whatever order
the pointer sets have. `CsrHeritage` excludes `Decompile` from fairness, because the
user need not ask for a decompilation again.

`BlockStructure` and `PluginLifecycle` state no liveness: the one is a finite walk that
ends in a state `StructureKept` describes, in the other nothing has to happen.
`LoopTransform` states none either: up to `Commit` it is a straight line, and from there
`Returns` of `editor` speaks for it.

`CHECK_DEADLOCK FALSE` stands where the modelled call returns and nothing follows.

## 4. What is proved

The theorems hold for every value of the constants the named assumptions allow: any
function, set of ops and Varnodes, limit, language, number of Architectures. TLC
evaluates each assumption in every run of its module.

| Module | Theorem | Statement |
|---|---|---|
| `FunctionEditorProofs` | `Typing` | `Spec => []TypeOK` |
| | `ReviewSetExact` | `Spec => []ReviewExact` |
| | `UnlinkedOnce` | `Spec => []NoDoubleUnlink` |
| | `StaleReadsReported` | `Spec => []NoSilentStaleRead` |
| | `PurgingIsSafe` | `Spec => PurgeLeavesNoReader` |
| | `SlotsMatchEdges` | `Spec => []NoExcessSlots` |
| | `InputsStayOnEdges` | `Spec => []EdgeInputsKept` |
| | `OnlyListedGoes` | `Spec => []RestKept` |
| `BlockStructureProofs` | `Typing` | `Spec => []TypeOK` |
| | `OnlyOverlookedGotosDangle` | `Spec => []OnlyOverlookedDangle` |
| | `StructureIsKept` | `Spec => []StructureKept` |
| `CsrHeritageProofs` | `Typing` | `Spec => []TypeOK` |
| | `PurgeIsComplete` | `Spec => []PurgedReadsAreInputs` |
| | `OneInput` | `Spec => []OneInputPerRegister` |
| | `RegistersKept` | `Spec => []SlotsKeepTheirRegister` |
| | `DefinitionsKept` | `Spec => []OtherDefinitionsKept` |
| | `FirstIsPurged` | `Spec => []FirstRunPurged` |
| `EpilogResultProofs` | `Typing` | `Spec => []TypeOK` |
| | `Completeness` | `Spec => []CompleteUnlessCut` |
| | `ResultIsFound` | `Spec => []ResultFound` |
| | `ChainsAreBounded` | `Spec => []ChainsBounded` |
| `VectorSeriesProofs` | `Typing` | `Spec => []TypeOK` |
| | `LoadsOutliveReaders` | `Spec => []ReadLoadsKept` |
| | `CallsTakeStoresPlaces` | `Spec => []WritesInOrder` |
| | `EffectIsKept` | `Spec => []SameEffectWhenPlain` |
| `PluginLifecycleProofs` | `Typing` | `Spec => []TypeOK` |
| | `RulesAtHome` | `Spec => []RulesMeetTheirArchitecture` |
| | `NothingForgotten` | `Spec => []HeldUntilReleased` |
| | `EveryBuiltin` | `Spec => []BuiltinsAnswered` |
| | `OneIsSafe` | `Spec => []OneArchitectureIsSafe` |
| `LoopTransformProofs` | `Typing` | `Spec => []TypeOK` |
| | `HandoverIsValid` | `Spec => []HandoverValid` |
| | `Refinement` | `Spec => ImplementsReplacement` |
| | `BranchesKeepTheirWay` | `Spec => []BranchesGoTheSameWay` |
| | `LoopIsSealed` | `Spec => []NothingLeaks` |
| | `CallIsEnteredAlike` | `Spec => []CallReadsEntryValues` |
| | `ResultsAreSearched` | what `EpilogResult` assumes holds of every function; `Candidates` are its `Results` |

Each of the seven modules proves its inductive invariant first (`Invariance`), with one
lemma or step per action and under it one step per conjunct, and takes its theorems from
there; a property that needs more adds an invariant of its own on top. The lemmas at the
head of `FunctionEditorProofs` say what an unlink or a changed slot does to readers,
outputs and stale reads; `SequenceFacts` what inserting, removing and taking the head does
to a sequence and its elements, and, as `RangeInduction`, that what passes from each number
of a range to the next holds of all of them: a set of numbers stands for the statement, and
the least number missing from it would be the next of one that is not.

### FunctionEditorProofs

Assumptions: `VnAssumption` (inputs of the function and pool Varnodes are Varnodes,
and disjoint; `Pcode`) and `EditorAssumption` (the functions given are well typed and
in SSA form, unlinked ops have no operands, the ops to delete are live).

`NoSilentStaleRead` speaks about the end, where the history of the review is gone, so it
is not inductive. `IInv` adds what each phase knows:

- `GraphInv`: an op that is not live has no slots and no output, and no two ops
  write the same Varnode. Without it a deletion could leave its output written, and
  the readers queued would not be stale ones.
- `ReviewExact` carries the editing phases: deleting `op` makes exactly its output
  stale, so exactly its readers join, and `op` leaves.
- `UnreadQueued` makes purging a step that adds nobody: deleting an op whose
  output nobody reads makes no read stale, and removing readers makes no output read
  again. `PurgingIsSafe` follows from it.
- `RepairedCalls` and `StaleReadsListed` carry the review: the slots a call has been
  walked over are not free, so a call that leaves the queue reads nothing free; the
  review of phis and the audit touch the slots of phis only.

The slots of phis need more than sets of Varnodes; `SlotInv` follows one phi that fitted
through the whole call. `EdgesLeft`: the loop edge goes and nothing else. `PhisKept`: no
slot is ever added, a phi of the loop has lost one or still reads itself, and of two inputs
the one that stays is where it was or the only one. `ExcessAudited`: a phi that has too
many slots at the audit reads itself in a slot the audit has still to come to, so it loses
one. Three ways to lose the loop's slot, the trim, the review and the audit, and the audit
is what makes up for the others where neither applies.

`RestInv` relates the graph to the function handed over: each op that is left is
`Untouched`, and `Queued` says why the ops the code iterates over may be touched: those
to trim are phis, those to purge have an output, those under review read something whose
definition was handed over for deletion.

That the functions handed over are such as `EditorAssumption` says is no assumption about
the code that calls: `LoopTransformProofs` proves it.

### BlockStructureProofs

Assumption: `StructureAssumption` (what `IsStructure` says of the structures given: a tree
below the root, lists of two components or more, the edges `Follows` allows; gotos may lead
anywhere).

A reference to the wrapper may be held by its parent, its components, a goto or an edge; the
invariant has a part for each.

- `FewEdges`: a do..while in a list has one in-edge and one out-edge at most, those that
  wait to be restored included, so an index that runs over a list which shrinks misses none.
  It has to hold for the do..whiles of later loops too, whose neighbours change now.
- `Pending` is what the recursion of `replaceBlock` knows: each set of blocks that holds
  the BlockGraphs still to be entered and is closed under components holds the parent of
  every block whose goto it follows and finds at the wrapper, and every list the wrapper is
  still in. When nothing is left to enter, the empty set is such a set: no such reference is
  left, and the gotos it overlooks are what they were.
- `Rooted` starts it: such a set that holds the root holds every block. While the wrapper
  and its body change places that is so only for sets with the wrapper in them, which is why
  the invariant mentions the phase.
- `Tree` and `Wrapped` say that a block is a component of its parent, with the exceptions
  of that phase, and that the wrapper holds the body and nothing else, so that
  `~BlockGraph` deletes nothing with it.

`StructureIsKept` compares with the structure at the start, many replacements ago. `Kept`
says it in the middle of one: `Placed` gives every parent, component and target as the
original one with the wrappers dealt with contracted to their bodies, where the wrapper at
hand may stand for its body; `Joined` says the same of the edges, those saved counted in;
`Underway` that the loop at hand is the only one half done. The order of the loops does not
enter, because contracting one do..while changes neither end of another's contraction.

### CsrHeritageProofs

Assumption: `CsrAssumption` (functions are well typed and in SSA form, unlinked ops have
no operands, a register has at most one input Varnode to begin with).

`PurgedReadsAreInputs` is about a purge that is over. What leads there is `SlotsListed`:
during the second pass, every slot that reads a control register's Varnode reads an input
or is still in the queue, and the queue holds slots of live ops that do read such a
register. That `setInputVarnode` looks for the register's input before it makes a new one
keeps inputs unique, and since only the queued slot is set, to a Varnode of the same
register, no slot changes its register. `OnlyCsrDropped` says that an op has lost its
output only if that was a control register. `FirstRun` relates `functions_processed` to the
number of decompilations, which is all that `FirstRunPurged` rests on: it holds
for the first decompilation and no further one.

### EpilogResultProofs

Assumption: `EpilogAssumption` (functions in SSA form, finitely many Varnodes, addresses and
limits are naturals, pointers are Varnodes; the tested Varnode may be a null pointer).
`LoopTransformProofs` proves it of the functions a transform searches.

The reference is not an algorithm: `Dependents(root)` is the least set of Varnodes closed
under "an op that reads the root or a member writes a member", stop set excepted.
`Reached` says that all the search has found lies in each such set. `Traced` is the other
half, what a worklist knows: a Varnode found is being expanded, waits on the stack, or all
its readers have been visited, and the output of each visited op has been found. When
nothing is left to expand, what has been found is closed, hence complete. `Order` says that
the second root is traced after the first, and the choice made after both.

`ResultIsFound` needs to know when the limit strikes. `SearchInv` counts: an expansion, made
or waiting on the stack, is the root's or has been paid for by a Varnode found, and by SSA
none is found twice, since the op that writes it is visited once. So `MaxDepth` expansions
take as many dependents but one, and the one that is left to expand when the search is cut
off makes up for the root. `Exact` carries over from the first root to the second that the
dependents found are all there are, or that there are too many.

`ChainsAreBounded` counts the expansions: a chain found after some of them is no longer
than their number, and each of its links stays what it was, since the graph does not change
and what has been found is not lost.

### VectorSeriesProofs

Assumption: `SeriesAssumption` (a block is a nonempty sequence of ops whose fields have the
types of their kinds, and a vector register is written by one op: SSA).

`CodeInv` says that the program's own ops never change and that what is added is builtin
calls; hence an op that reads a load is one of the program's. `QueueInv` says that each
pair in `pcodesToBeBuilt` holds a store still in the block, so a call finds its place.
Deleting comes after all building, each load behind the stores that read it; a load whose
register has a reader left by then, here or in another block, stays, and nothing that is
added or done later reads a program's register.

For the order of writes, `HomesInv` keeps a map, `home`, from each op of the block to the
program's op whose place it has: itself, or the store a call stands for. Along the block
homes do not decrease, a call and its store may share one while the store waits to be
deleted, and each store is in the block or has a call there. When nothing waits, the map
restricted to what writes is the pairing `WritesInOrder` asks for. `LoadInv` is where SSA
comes in: a store that waits to be deleted reads no register of a load still to be looked
at, so no store is built twice.

`EffectIsKept` needs to know where a call came from. `Origins`, a part of `HomesInv`, gives
for each call a load of the program and the vsetivli in force at it (`Governs`), of which
the call has its source and its number of bytes. It holds because, by `SeriesInv`, what
`match` works on is governed by the op the pool has come to, and only loads and stores ever
leave the block. The theorem follows without looking at steps. The run of the block is set
beside the run of the program (`SideBySide`), position by position of the program, by
`RangeInduction`: they agree in memory, vector length, element size and all registers but
those of loads that are gone (`Lost`), which nothing left in the block reads. An op still
there does the same in both; a load that is gone is missed by nobody; a call does what its store did
(`CallLikeStore`), because what a plain pair moves is, at the store, still at the source
(`Carried`). This is where the conditions of `Plain` are used.

### PluginLifecycleProofs

Assumption: `LifecycleAssumption` (a language gives each user pcode op a name of its own,
the first to an instruction the plugin has no handler for, and has no more than
`MAX_USER_PCODES` of them).

The argument is that of a token. `loadPlugin` creates the logger `pluginManager`, nobody
drops it, and creating it twice throws: so one Architecture at most is ever past
`loadPlugin` (`OnePasses`). `LoadedUntilGone` ties the library to that one,
`RulesComeLast` puts the rules behind `plugin_init` and `riscv_sleigh_init`, and
`GlobalsInv` says what the globals hold: nothing before `plugin_init`, afterwards the ids,
names and handlers of the language of the one that called it, until `plugin_exit` clears
them. The rules of an Architecture therefore meet their own.

### LoopTransformProofs

Assumptions: `VnAssumption` and `LoopAssumption` (finitely many Varnodes, the ops of the loop
block and the numbers of the analysis),
`TransformAssumption` (the functions given are well typed, and the new ops and Varnodes are
new to them), `PcodeAssumption` (what Ghidra guarantees of the ops of a loop, see section 2),
`LoopsAssumption` (the functions given are in SSA form and their reads are defined).

`HandedOverSound` is the centre: of any function, transform and result that pass the tests
of the code, what is handed to `simplifyBlocks` is in SSA form, its reads are defined, and
the ops to delete are live. With it the assumption of `FunctionEditorProofs` becomes a lemma
here (`EditorAssumed`), and all its theorems hold of the transform's own call: they are
taken in by `INSTANCE`, `Facts`. The invariant `TransformInv` says that nothing is edited
before `Commit` (`Unedited`), what has been chosen when (`Chosen`), and from `Commit` on that
the two invariants of the editor hold (`Edited`).

- `Refinement`: a transform that gives up maps to `Keep` or `Stop`, since the graph is
  unchanged; the step to `done` maps to `Replace`, every other step to a stutter. `Replaced`
  puts together how `HandedOver` relates to the original and how, by `RestKept`, what is
  left relates to `HandedOver`.
- `BranchesKeepTheirWay`: by `Vetoed` the result is an equality, an inequality or a
  difference, by `PcodeAssumption` no branch reads the last, and a branch is no phi or call,
  so that its slots are what `Redirected` made them.
- `LoopIsSealed`: a stale Varnode that is read at the end was written by an op handed over,
  one of the loop or the result's; a Varnode of the loop has, by `Unresolved`, no reader
  outside the addresses named; readers inside the loop are gone; the new ops read what comes
  from outside.
- `CallIsEnteredAlike`: `EntryValue` takes the lowest slot whose block is not the loop, which
  holds one of the values that flow in, and the editor does not change the call, as its
  arguments are defined elsewhere.
- `ResultsAreSearched` joins this module to `EpilogResult`, which it instantiates (`Search`)
  for a function `Searched` that matched as `Sought`. `Dependents` is computed in as many
  steps as there are Varnodes; they reach the least closed set (`DependentsAreLeast`), since
  each step that is not the last adds a Varnode. So the candidates here are the `Results`
  there and `CutOff` is `TooMany`: what `ChooseResult` and `NoResult` do in one step is what
  `ResultIsFound` says the search comes to. The two modules say in different words what is
  defined in the loop; that they mean the same is where the assumption on control
  registers enters.

### Model-checked only

Every invariant and action property of the passing runs is the statement of a theorem. What
is left to TLC is liveness (`Returns` of the editor and of the search, `PurgeEnds`,
`Settles`): it needs fairness and is outside the prover's reach.

## 5. Plan

Done, in this order: `Pcode`, `FunctionEditor` with its proofs, `EpilogResult`,
`CsrHeritage`, `VectorSeries`, `VectorLoop` with `LoopTransform` and its abstract
specification, `BlockStructure`, `PluginLifecycle`, the proofs about each of them, the
refinement and the composition of `LoopTransform` with `FunctionEditor` and `EpilogResult`
included. What would come next:

- Ops with effects and address-tied Varnodes in `Pcode` and `FunctionEditor`:
  `removeUnusedOps` deletes a call or a copy to an address-tied Varnode like any other
  op whose output has no reader.

## 6. Not modelled

- Logging, the report files (`generateReport`, `examine_loop_epilog`) and the two audits
  that only log: they change no state of the function.
- `unloadPlugin`: nothing calls it.
- Address-tied Varnodes and the effects of ops: `deleteOp` logs the former and deletes the
  op all the same; the latter are not looked at.
- `integrationTest.py`, build files, documentation, saved test functions: no
  behaviour of the program.
- Ghidra itself, except for the operators of `Pcode`, the structured blocks of
  `BlockStructure`, and the hooks of `ghidra.pat`.
