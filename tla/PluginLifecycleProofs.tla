------------------------ MODULE PluginLifecycleProofs ------------------------
(***************************************************************************)
(* Whatever the languages, however many Architectures: the plugin's rules  *)
(* work on the globals of their own Architecture, what the plugin holds is *)
(* in the hands of a PluginManager, each builtin a transform asks for is   *)
(* there, and one RISC-V Architecture lives without a crash.               *)
(***************************************************************************)
EXTENDS PluginLifecycle, SequenceFacts

(* An Architecture that has been through loadPlugin. *)
Passed(a) == setting.spec[a] # "bad" /\ stage[a] \notin {"unbuilt", "built"}

(* Only one does: the first has made the logger.                           *)
OnePasses ==
  /\ \A a \in Arch : setting.spec[a] = "bad" =>
       stage[a] \in {"unbuilt", "built", "failed", "dying", "gone"}
  /\ "pluginManager" \in loggers <=> \E a \in Arch : Passed(a)
  /\ \A a, b \in Arch : Passed(a) /\ Passed(b) => a = b

Library == setting.env \in {"stranger", "plugin"}

LoadedUntilGone ==
  \A a \in Arch : loaded[a] <=> Passed(a) /\ stage[a] # "gone" /\ Library

(* Rules exist, or are about to, only behind plugin_init and               *)
(* riscv_sleigh_init.                                                      *)
RulesComeLast ==
  \A a \in Arch :
    /\ rules[a] > 0 => stage[a] \in {"running", "failed"} /\ loaded[a]
    /\ stage[a] \in {"ruled", "running"} /\ loaded[a] => HasRules(a) /\ csreg = arch
    /\ rules[a] > 0 => HasRules(a) /\ csreg = arch

(* The maps are those of a language. *)
MapsOf(l) ==
  \A i \in DOMAIN OpsOf(l) :
    LET name == OpsOf(l)[i]
    IN /\ i \in DOMAIN pcodeMap /\ pcodeMap[i] = name
       /\ name \in ToSet(Handled) => i \in DOMAIN handlers /\ handlers[i] = name

(* plugin_init is called once at most, for the Architecture the globals    *)
(* describe until plugin_exit.                                             *)
GlobalsInv ==
  /\ "riscv_vector" \notin loggers =>
       arch = NoArch /\ pcodeMap = <<>> /\ nameToId = <<>> /\ handlers = <<>> /\ report = FALSE
  /\ "riscv_vector" \in loggers =>
       /\ arch \in Arch /\ Passed(arch) /\ stage[arch] # "loaded"
       /\ setting.env = "plugin"
       /\ IF stage[arch] = "gone"
          THEN pcodeMap = <<>> /\ report = FALSE
          ELSE MapsOf(LangOf(arch))
  /\ \A a \in Arch :
       setting.env = "plugin" /\ Relevant(a) /\ Passed(a) /\ stage[a] # "loaded"
         => "riscv_vector" \in loggers

IInv == /\ TypeOK
        /\ OnePasses
        /\ LoadedUntilGone
        /\ RulesComeLast
        /\ GlobalsInv
        /\ BuiltinsAnswered
        /\ OneArchitectureIsSafe

-----------------------------------------------------------------------------
(* What plugin_init makes of empty maps. *)

(* The ids of a language's names, and the names at its ids. *)
LEMMA IdsAreIndices ==
  ASSUME NEW l \in Language
  PROVE  /\ DOMAIN OpsOf(l) \subseteq Ids
         /\ \A i \in DOMAIN OpsOf(l) :
              /\ OpsOf(l)[i] \in ToSet(UserOps[l])
              /\ IdsOf(l)[OpsOf(l)[i]] = i
         /\ DOMAIN IdsOf(l) = ToSet(UserOps[l])
         /\ \A n \in DOMAIN IdsOf(l) :
              /\ IdsOf(l)[n] \in DOMAIN OpsOf(l)
              /\ OpsOf(l)[IdsOf(l)[n]] = n
<1> DEFINE s == UserOps[l]
<1>1. /\ s \in Seq(ToSet(s)) /\ Len(s) - 1 \in Ids
      /\ \A i, j \in DOMAIN s : s[i] = s[j] => i = j
  BY LifecycleAssumption DEF IsInjective
<1>2. Len(s) \in Nat /\ DOMAIN s = 1..Len(s)
  BY <1>1
<1> HIDE DEF s
<1>3. OpsOf(l) = [i \in 0..(Len(s) - 1) |-> s[i + 1]]
  BY DEF OpsOf, s
<1>4. IdsOf(l) = [n \in ToSet(s) |-> (CHOOSE i \in DOMAIN s : s[i] = n) - 1]
  BY DEF IdsOf, s
<1>5. DOMAIN OpsOf(l) \subseteq Ids
  <2>1. Len(s) - 1 \in 0..MAX_USER_PCODES /\ MAX_USER_PCODES \in Nat
    BY <1>1, LifecycleAssumption DEF Ids
  <2>2. 0..(Len(s) - 1) \subseteq 0..MAX_USER_PCODES
    BY <2>1
  <2> QED BY <1>3, <2>2 DEF Ids
<1>6. ASSUME NEW n \in ToSet(s)
      PROVE  /\ IdsOf(l)[n] \in DOMAIN OpsOf(l)
             /\ OpsOf(l)[IdsOf(l)[n]] = n
  <2>1. PICK i \in DOMAIN s : s[i] = n
    BY DEF ToSet
  <2>2. (CHOOSE j \in DOMAIN s : s[j] = n) = i
    BY <1>1, <2>1
  <2>3. IdsOf(l)[n] = i - 1
    BY <1>4, <2>2
  <2>4. i \in 1..Len(s) /\ i - 1 \in 0..(Len(s) - 1) /\ (i - 1) + 1 = i
    BY <1>2
  <2> QED BY <1>3, <2>1, <2>3, <2>4
<1>7. ASSUME NEW i \in DOMAIN OpsOf(l)
      PROVE  /\ OpsOf(l)[i] \in ToSet(s)
             /\ IdsOf(l)[OpsOf(l)[i]] = i
  <2>1. i \in 0..(Len(s) - 1) /\ i + 1 \in DOMAIN s /\ OpsOf(l)[i] = s[i + 1]
    BY <1>2, <1>3
  <2>2. s[i + 1] \in ToSet(s)
    BY <2>1 DEF ToSet
  <2>3. (CHOOSE j \in DOMAIN s : s[j] = s[i + 1]) = i + 1
    BY <1>1, <2>1
  <2>4. (i + 1) - 1 = i
    BY <2>1
  <2>5. IdsOf(l)[s[i + 1]] = (i + 1) - 1
    BY <1>4, <2>2, <2>3
  <2> QED BY <2>1, <2>2, <2>4, <2>5
<1>8. DOMAIN IdsOf(l) = ToSet(s)
  BY <1>4
<1> QED BY <1>5, <1>6, <1>7, <1>8 DEF s

(* The first insertion into a map makes it the map inserted. *)
LEMMA InsertedIntoNothing ==
  ASSUME NEW l \in Language
  PROVE  /\ Inserted(<<>>, OpsOf(l)) = OpsOf(l)
         /\ Inserted(<<>>, IdsOf(l)) = IdsOf(l)
<1>1. DOMAIN <<>> = {}
  OBVIOUS
<1>2. OpsOf(l) = [i \in DOMAIN OpsOf(l) |-> OpsOf(l)[i]]
  BY DEF OpsOf
<1>3. IdsOf(l) = [n \in DOMAIN IdsOf(l) |-> IdsOf(l)[n]]
  BY DEF IdsOf
<1>4. Inserted(<<>>, OpsOf(l)) = [i \in DOMAIN OpsOf(l) |-> OpsOf(l)[i]]
  BY <1>1 DEF Inserted
<1>5. Inserted(<<>>, IdsOf(l)) = [n \in DOMAIN IdsOf(l) |-> IdsOf(l)[n]]
  BY <1>1 DEF Inserted
<1> QED BY <1>2, <1>3, <1>4, <1>5

(* A name without an id does no harm: its handler gets id 0, where the     *)
(* language has an op that is not handled.                                 *)
LEMMA HandlersFit ==
  ASSUME NEW l \in Language, handlers = <<>>
  PROVE  /\ DOMAIN Registered(IdsOf(l)) \subseteq Ids
         /\ \A i \in DOMAIN Registered(IdsOf(l)) : Registered(IdsOf(l))[i] \in ToSet(Handled)
         /\ \A i \in DOMAIN OpsOf(l) : OpsOf(l)[i] \in ToSet(Handled) =>
              /\ i \in DOMAIN Registered(IdsOf(l))
              /\ Registered(IdsOf(l))[i] = OpsOf(l)[i]
<1> DEFINE ids == IdsOf(l)
           fits == {IdOf(ids, n) : n \in ToSet(Handled)}
<1>1. Handled \in Seq(ToSet(Handled)) /\ DOMAIN Handled = 1..Len(Handled) /\ Len(Handled) \in Nat
  BY LifecycleAssumption
<1>2. Registered(ids) =
        [i \in fits |-> IF Slots(ids, i) # {} THEN Handled[Max(Slots(ids, i))] ELSE handlers[i]]
  <2>1. DOMAIN handlers \cup fits = fits
    OBVIOUS
  <2> QED BY <2>1 DEF Registered
<1>3. ASSUME NEW i
      PROVE  Slots(ids, i) # {} =>
               Max(Slots(ids, i)) \in DOMAIN Handled /\ IdOf(ids, Handled[Max(Slots(ids, i))]) = i
  <2> SUFFICES ASSUME Slots(ids, i) # {}
      PROVE  Max(Slots(ids, i)) \in Slots(ids, i)
    BY DEF Slots
  <2>1. Slots(ids, i) \in SUBSET (1..Len(Handled))
    BY <1>1 DEF Slots
  <2> QED BY <1>1, <2>1, MaxOf
<1>4. ASSUME NEW n \in ToSet(Handled)
      PROVE  Slots(ids, IdOf(ids, n)) # {}
  BY DEF ToSet, Slots
<1>5. fits \subseteq Ids
  <2>1. 0 \in Ids
    BY LifecycleAssumption DEF Ids
  <2>2. \A n \in DOMAIN ids : ids[n] \in Ids
    BY IdsAreIndices
  <2> QED BY <2>1, <2>2 DEF IdOf
<1>6. \A i \in fits : Registered(ids)[i] \in ToSet(Handled)
  BY <1>2, <1>3, <1>4 DEF ToSet
<1>7. ASSUME NEW i \in DOMAIN OpsOf(l), OpsOf(l)[i] \in ToSet(Handled)
      PROVE  i \in fits /\ Registered(ids)[i] = OpsOf(l)[i]
  <2> DEFINE n == OpsOf(l)[i]
             k == Max(Slots(ids, i))
  <2>1. n \in DOMAIN ids /\ ids[n] = i
    BY IdsAreIndices
  <2>2. IdOf(ids, n) = i
    BY <2>1 DEF IdOf
  <2>3. Slots(ids, i) # {}
    BY <1>4, <1>7, <2>2
  <2>4. k \in DOMAIN Handled /\ IdOf(ids, Handled[k]) = i
    BY <1>3, <2>3
  <2>5. i # 0
    <3>1. OpsOf(l)[0] = UserOps[l][1] /\ i \in Int
      BY DEF OpsOf
    <3> QED BY <1>7, <3>1, LifecycleAssumption
  <2>6. Handled[k] \in DOMAIN ids /\ ids[Handled[k]] = i
    BY <2>4, <2>5 DEF IdOf
  <2>7. Handled[k] = n
    BY <2>6, IdsAreIndices
  <2> QED BY <1>2, <1>7, <2>2, <2>3, <2>7
<1>8. DOMAIN Registered(ids) = fits
  BY <1>2
<1> QED BY <1>5, <1>6, <1>7, <1>8

-----------------------------------------------------------------------------
(* Each conjunct, through each action: Next is one of these steps of some  *)
(* Architecture.                                                           *)

Step(a) ==
  \/ Construct(a) \/ RefuseSpec(a)
  \/ LoadPlugin(a) \/ LoggerExists(a)
  \/ SkipInit(a) \/ InitPlugin(a)
  \/ SkipRules(a) \/ InitRules(a) \/ NoRules(a)
  \/ BuildAction(a)
  \/ DeriveGroup(a) \/ \E id \in Builtin : RegisterBuiltin(a, id)
  \/ DestroyActions(a) \/ DestroyManager(a) \/ NoLogger(a)

(* Only plugin_init writes maps, and then to empty ones. *)
LEMMA TypeStep ==
  ASSUME IInv, NEW a \in Arch, Step(a)
  PROVE  TypeOK'
<1>1. ASSUME Construct(a) PROVE TypeOK'
  BY <1>1 DEF Construct, Moves, manager, plugin, IInv, TypeOK, Stages, Under
<1>2. ASSUME RefuseSpec(a) PROVE TypeOK'
  BY <1>2 DEF RefuseSpec, Moves, manager, plugin, IInv, TypeOK, Stages
<1>3. ASSUME LoadPlugin(a) PROVE TypeOK'
  BY <1>3 DEF LoadPlugin, Moves, plugin, IInv, TypeOK, Stages, Under
<1>4. ASSUME LoggerExists(a) PROVE TypeOK'
  BY <1>4 DEF LoggerExists, Ends, manager, plugin, IInv, TypeOK
<1>5. ASSUME SkipInit(a) PROVE TypeOK'
  BY <1>5 DEF SkipInit, Moves, manager, plugin, IInv, TypeOK, Stages, Under
<1>6. ASSUME InitPlugin(a) PROVE TypeOK'
  <2> DEFINE l == LangOf(a)
             ids == Inserted(nameToId, IdsOf(l))
  <2>1. l \in Language
    BY DEF IInv, TypeOK, Settings, LangOf
  <2>2. "riscv_vector" \notin loggers
    BY <1>6 DEF InitPlugin, Moves, IInv, TypeOK, Settings, GlobalsInv, OnePasses, Passed
  <2>3. pcodeMap = <<>> /\ nameToId = <<>> /\ handlers = <<>>
    BY <2>2 DEF IInv, GlobalsInv
  <2>4. /\ pcodeMap' = OpsOf(l) /\ ids = IdsOf(l)
        /\ nameToId' = Looked(ids) /\ handlers' = Registered(ids)
    BY <1>6, <2>1, <2>3, InsertedIntoNothing DEF InitPlugin
  <2> HIDE DEF l, ids
  <2>5. ToSet(UserOps[l]) \subseteq Names /\ ToSet(Handled) \subseteq Names
    <3> DEFINE given == {ToSet(UserOps[k]) : k \in Language}
    <3>1. ToSet(UserOps[l]) \in given
      BY <2>1
    <3>2. Names = (UNION given) \cup ToSet(Handled)
      BY Zenon DEF Names
    <3> HIDE DEF given
    <3> QED BY <3>1, <3>2
  <2>6. IsMap(pcodeMap', Ids, Names)
    BY <2>1, <2>4, <2>5, IdsAreIndices DEF IsMap
  <2>7. IsMap(nameToId', Names, Ids)
    <3>1. 0 \in Ids
      BY LifecycleAssumption DEF Ids
    <3>2. \A n : IdOf(ids, n) \in Ids
      BY <2>1, <2>4, <3>1, IdsAreIndices DEF IdOf
    <3>3. DOMAIN ids \subseteq Names
      BY <2>1, <2>4, <2>5, IdsAreIndices
    <3> QED BY <2>4, <2>5, <3>2, <3>3 DEF IsMap, Looked
  <2>8. IsMap(handlers', Ids, ToSet(Handled))
    BY <2>1, <2>3, <2>4, HandlersFit DEF IsMap
  <2> QED BY <1>6, <2>6, <2>7, <2>8 DEF InitPlugin, Moves, manager, IInv, TypeOK, Stages, Under
<1>7. ASSUME SkipRules(a) PROVE TypeOK'
  BY <1>7 DEF SkipRules, Moves, manager, plugin, IInv, TypeOK, Stages, Under
<1>8. ASSUME InitRules(a) PROVE TypeOK'
  BY <1>8 DEF InitRules, Moves, manager, IInv, TypeOK, Stages, Under
<1>9. ASSUME NoRules(a) PROVE TypeOK'
  BY <1>9 DEF NoRules, Ends, manager, plugin, IInv, TypeOK
<1>10. ASSUME BuildAction(a) PROVE TypeOK'
  <2>1. rules' \in [Arch -> 0..(1 + MaxClones)]
    <3>1. 0 \in 0..(1 + MaxClones) /\ 1 \in 0..(1 + MaxClones)
      BY LifecycleAssumption
    <3>2. (IF loaded[a] THEN 1 ELSE 0) \in 0..(1 + MaxClones)
      BY <3>1
    <3> QED BY <1>10, <3>2 DEF BuildAction, IInv, TypeOK
  <2>2. stage' \in [Arch -> Stages]
    BY <1>10 DEF BuildAction, Moves, IInv, TypeOK, Stages, Under
  <2> QED BY <1>10, <2>1, <2>2 DEF BuildAction, Moves, plugin, IInv, TypeOK
<1>11. ASSUME DeriveGroup(a) PROVE TypeOK'
  <2>1. rules[a] + 1 \in 0..(1 + MaxClones)
    BY <1>11, LifecycleAssumption DEF DeriveGroup
  <2>2. rules' \in [Arch -> 0..(1 + MaxClones)]
    BY <1>11, <2>1 DEF DeriveGroup, IInv, TypeOK
  <2> QED BY <1>11, <2>2 DEF DeriveGroup, plugin, IInv, TypeOK
<1>12. ASSUME NEW id \in Builtin, RegisterBuiltin(a, id) PROVE TypeOK'
  BY <1>12 DEF RegisterBuiltin, plugin, IInv, TypeOK
<1>13. ASSUME DestroyActions(a) PROVE TypeOK'
  <2>1. rules' \in [Arch -> 0..(1 + MaxClones)]
    <3>1. 0 \in 0..(1 + MaxClones)
      BY LifecycleAssumption
    <3> QED BY <1>13, <3>1 DEF DestroyActions, IInv, TypeOK
  <2>2. stage' \in [Arch -> Stages]
    BY <1>13 DEF DestroyActions, Moves, IInv, TypeOK, Stages, Under
  <2> QED BY <1>13, <2>1, <2>2 DEF DestroyActions, Moves, plugin, IInv, TypeOK
<1>14. ASSUME DestroyManager(a) PROVE TypeOK'
  <2>1. IsMap(pcodeMap', Ids, Names) /\ report' \in BOOLEAN
    <3>1. IsMap(<<>>, Ids, Names)
      BY DEF IsMap
    <3>2. (pcodeMap' = <<>> /\ report' = FALSE) \/ (pcodeMap' = pcodeMap /\ report' = report)
      BY <1>14 DEF DestroyManager
    <3> QED BY <3>1, <3>2 DEF IInv, TypeOK
  <2>2. stage' \in [Arch -> Stages] /\ loaded' \in [Arch -> BOOLEAN]
    BY <1>14 DEF DestroyManager, Moves, IInv, TypeOK, Stages, Under
  <2> QED BY <1>14, <2>1, <2>2 DEF DestroyManager, Moves, IInv, TypeOK
<1>15. ASSUME NoLogger(a) PROVE TypeOK'
  BY <1>15 DEF NoLogger, Ends, manager, plugin, IInv, TypeOK
<1> QED BY <1>1, <1>2, <1>3, <1>4, <1>5, <1>6, <1>7, <1>8, <1>9, <1>10, <1>11, <1>12, <1>13,
           <1>14, <1>15 DEF Step

(* The logger "pluginManager" is a token: it is made once and stays, so    *)
(* that one Architecture at most gets past loadPlugin.                     *)
LEMMA OnePassesStep ==
  ASSUME IInv, NEW a \in Arch, Step(a)
  PROVE  OnePasses'
<1>1. ASSUME Construct(a) PROVE OnePasses'
  BY <1>1 DEF Construct, Moves, IInv, OnePasses, Passed
<1>2. ASSUME RefuseSpec(a) PROVE OnePasses'
  BY <1>2 DEF RefuseSpec, Moves, IInv, OnePasses, Passed
<1>3. ASSUME LoadPlugin(a) PROVE OnePasses'
  BY <1>3 DEF LoadPlugin, Moves, IInv, TypeOK, OnePasses, Passed
<1>4. ASSUME LoggerExists(a) PROVE OnePasses'
  BY <1>4 DEF LoggerExists, Ends, IInv, OnePasses, Passed
<1>5. ASSUME SkipInit(a) PROVE OnePasses'
  BY <1>5 DEF SkipInit, Moves, IInv, OnePasses, Passed
<1>6. ASSUME InitPlugin(a) PROVE OnePasses'
  BY <1>6 DEF InitPlugin, Moves, IInv, OnePasses, Passed
<1>7. ASSUME SkipRules(a) PROVE OnePasses'
  BY <1>7 DEF SkipRules, Moves, IInv, OnePasses, Passed
<1>8. ASSUME InitRules(a) PROVE OnePasses'
  BY <1>8 DEF InitRules, Moves, IInv, OnePasses, Passed
<1>9. ASSUME NoRules(a) PROVE OnePasses'
  BY <1>9 DEF NoRules, Ends, IInv, OnePasses, Passed
<1>10. ASSUME BuildAction(a) PROVE OnePasses'
  BY <1>10 DEF BuildAction, Moves, IInv, OnePasses, Passed
<1>11. ASSUME DeriveGroup(a) PROVE OnePasses'
  BY <1>11 DEF DeriveGroup, IInv, OnePasses, Passed
<1>12. ASSUME NEW id \in Builtin, RegisterBuiltin(a, id) PROVE OnePasses'
  BY <1>12 DEF RegisterBuiltin, IInv, OnePasses, Passed
<1>13. ASSUME DestroyActions(a) PROVE OnePasses'
  BY <1>13 DEF DestroyActions, Moves, IInv, TypeOK, OnePasses, Passed
<1>14. ASSUME DestroyManager(a) PROVE OnePasses'
  BY <1>14 DEF DestroyManager, Moves, IInv, OnePasses, Passed
<1>15. ASSUME NoLogger(a) PROVE OnePasses'
  BY <1>15 DEF NoLogger, Ends, IInv, OnePasses, Passed
<1> QED BY <1>1, <1>2, <1>3, <1>4, <1>5, <1>6, <1>7, <1>8, <1>9, <1>10, <1>11, <1>12, <1>13,
           <1>14, <1>15 DEF Step

(* PluginManager.loaded says that the library is open: from loadPlugin to  *)
(* the destructor.                                                         *)
LEMMA LoadedStep ==
  ASSUME IInv, NEW a \in Arch, Step(a)
  PROVE  LoadedUntilGone'
<1>1. ASSUME Construct(a) PROVE LoadedUntilGone'
  BY <1>1 DEF Construct, Moves, manager, IInv, LoadedUntilGone, Library, Passed
<1>2. ASSUME RefuseSpec(a) PROVE LoadedUntilGone'
  BY <1>2 DEF RefuseSpec, Moves, manager, IInv, LoadedUntilGone, Library, Passed
<1>3. ASSUME LoadPlugin(a) PROVE LoadedUntilGone'
  BY <1>3 DEF LoadPlugin, Moves, IInv, TypeOK, LoadedUntilGone, Library, Passed
<1>4. ASSUME LoggerExists(a) PROVE LoadedUntilGone'
  BY <1>4 DEF LoggerExists, Ends, manager, IInv, LoadedUntilGone, Library, Passed
<1>5. ASSUME SkipInit(a) PROVE LoadedUntilGone'
  BY <1>5 DEF SkipInit, Moves, manager, IInv, LoadedUntilGone, Library, Passed
<1>6. ASSUME InitPlugin(a) PROVE LoadedUntilGone'
  BY <1>6 DEF InitPlugin, Moves, manager, IInv, LoadedUntilGone, Library, Passed
<1>7. ASSUME SkipRules(a) PROVE LoadedUntilGone'
  BY <1>7 DEF SkipRules, Moves, manager, IInv, LoadedUntilGone, Library, Passed
<1>8. ASSUME InitRules(a) PROVE LoadedUntilGone'
  BY <1>8 DEF InitRules, Moves, manager, IInv, LoadedUntilGone, Library, Passed
<1>9. ASSUME NoRules(a) PROVE LoadedUntilGone'
  BY <1>9 DEF NoRules, Ends, manager, IInv, LoadedUntilGone, Library, Passed
<1>10. ASSUME BuildAction(a) PROVE LoadedUntilGone'
  BY <1>10 DEF BuildAction, Moves, IInv, LoadedUntilGone, Library, Passed
<1>11. ASSUME DeriveGroup(a) PROVE LoadedUntilGone'
  BY <1>11 DEF DeriveGroup, IInv, LoadedUntilGone, Library, Passed
<1>12. ASSUME NEW id \in Builtin, RegisterBuiltin(a, id) PROVE LoadedUntilGone'
  BY <1>12 DEF RegisterBuiltin, IInv, LoadedUntilGone, Library, Passed
<1>13. ASSUME DestroyActions(a) PROVE LoadedUntilGone'
  BY <1>13 DEF DestroyActions, Moves, IInv, TypeOK, LoadedUntilGone, Library, Passed
<1>14. ASSUME DestroyManager(a) PROVE LoadedUntilGone'
  BY <1>14 DEF DestroyManager, Moves, IInv, TypeOK, LoadedUntilGone, Library, Passed
<1>15. ASSUME NoLogger(a) PROVE LoadedUntilGone'
  BY <1>15 DEF NoLogger, Ends, manager, IInv, OnePasses, LoadedUntilGone, Passed
<1> QED BY <1>1, <1>2, <1>3, <1>4, <1>5, <1>6, <1>7, <1>8, <1>9, <1>10, <1>11, <1>12, <1>13,
           <1>14, <1>15 DEF Step

(* Rules of the plugin exist only while their Architecture lives and is    *)
(* the one that plugin_init was called for.                                *)
LEMMA RulesStep ==
  ASSUME IInv, NEW a \in Arch, Step(a)
  PROVE  RulesComeLast'
<1>1. ASSUME Construct(a) PROVE RulesComeLast'
  BY <1>1 DEF Construct, Moves, manager, plugin, IInv, RulesComeLast, HasRules, LangOf
<1>2. ASSUME RefuseSpec(a) PROVE RulesComeLast'
  BY <1>2 DEF RefuseSpec, Moves, manager, plugin, IInv, RulesComeLast, HasRules, LangOf
<1>3. ASSUME LoadPlugin(a) PROVE RulesComeLast'
  BY <1>3 DEF LoadPlugin, Moves, IInv, OnePasses, LoadedUntilGone, RulesComeLast
<1>4. ASSUME LoggerExists(a) PROVE RulesComeLast'
  BY <1>4 DEF LoggerExists, Ends, manager, plugin, IInv, RulesComeLast, HasRules, LangOf
<1>5. ASSUME SkipInit(a) PROVE RulesComeLast'
  BY <1>5 DEF SkipInit, Moves, manager, IInv, OnePasses, LoadedUntilGone, RulesComeLast, Passed
<1>6. ASSUME InitPlugin(a) PROVE RulesComeLast'
  BY <1>6 DEF InitPlugin, Moves, manager, IInv, OnePasses, LoadedUntilGone, RulesComeLast, Passed
<1>7. ASSUME SkipRules(a) PROVE RulesComeLast'
  BY <1>7 DEF SkipRules, Moves, manager, IInv, OnePasses, LoadedUntilGone, RulesComeLast, Passed
<1>8. ASSUME InitRules(a) PROVE RulesComeLast'
  BY <1>8 DEF InitRules, Moves, manager, IInv, RulesComeLast, HasRules, LangOf
<1>9. ASSUME NoRules(a) PROVE RulesComeLast'
  BY <1>9 DEF NoRules, Ends, manager, IInv, OnePasses, LoadedUntilGone, RulesComeLast
<1>10. ASSUME BuildAction(a) PROVE RulesComeLast'
  BY <1>10 DEF BuildAction, Moves, plugin, IInv, TypeOK, RulesComeLast, HasRules, LangOf
<1>11. ASSUME DeriveGroup(a) PROVE RulesComeLast'
  BY <1>11 DEF DeriveGroup, plugin, IInv, RulesComeLast, HasRules, LangOf
<1>12. ASSUME NEW id \in Builtin, RegisterBuiltin(a, id) PROVE RulesComeLast'
  BY <1>12 DEF RegisterBuiltin, plugin, IInv, RulesComeLast, HasRules, LangOf
<1>13. ASSUME DestroyActions(a) PROVE RulesComeLast'
  BY <1>13 DEF DestroyActions, Moves, plugin, IInv, TypeOK, RulesComeLast, HasRules, LangOf
<1>14. ASSUME DestroyManager(a) PROVE RulesComeLast'
  BY <1>14 DEF DestroyManager, Moves, IInv, RulesComeLast, HasRules, LangOf
<1>15. ASSUME NoLogger(a) PROVE RulesComeLast'
  BY <1>15 DEF NoLogger, Ends, manager, IInv, OnePasses, LoadedUntilGone, RulesComeLast
<1> QED BY <1>1, <1>2, <1>3, <1>4, <1>5, <1>6, <1>7, <1>8, <1>9, <1>10, <1>11, <1>12, <1>13,
           <1>14, <1>15 DEF Step

(* Who is to destroy the only initialised Architecture releases what       *)
(* plugin_init made; nobody else touches it.                               *)
LEMMA GlobalsStep ==
  ASSUME IInv, NEW a \in Arch, Step(a)
  PROVE  GlobalsInv'
<1>1. ASSUME Construct(a) PROVE GlobalsInv'
  BY <1>1 DEF Construct, Moves, plugin, IInv, GlobalsInv, MapsOf, LangOf, Relevant, Passed
<1>2. ASSUME RefuseSpec(a) PROVE GlobalsInv'
  BY <1>2 DEF RefuseSpec, Moves, plugin, IInv, GlobalsInv, MapsOf, LangOf, Relevant, Passed
<1>3. ASSUME LoadPlugin(a) PROVE GlobalsInv'
  BY <1>3 DEF LoadPlugin, Moves, plugin, IInv, OnePasses, GlobalsInv, Passed
<1>4. ASSUME LoggerExists(a) PROVE GlobalsInv'
  BY <1>4 DEF LoggerExists, Ends, plugin, IInv, GlobalsInv, MapsOf, LangOf, Relevant, Passed
<1>5. ASSUME SkipInit(a) PROVE GlobalsInv'
  BY <1>5 DEF SkipInit, Moves, plugin, IInv, OnePasses, GlobalsInv, LangOf, Relevant, Passed
<1>6. ASSUME InitPlugin(a) PROVE GlobalsInv'
  <2>1. PICK l \in Language : LangOf(a) = l /\ LangOf(a)' = l
    BY <1>6 DEF InitPlugin, Moves, IInv, TypeOK, Settings, LangOf
  <2>2. "riscv_vector" \notin loggers
    BY <1>6 DEF InitPlugin, Moves, IInv, TypeOK, Settings, GlobalsInv, OnePasses, Passed
  <2>3. pcodeMap = <<>> /\ nameToId = <<>> /\ handlers = <<>>
    BY <2>2 DEF IInv, GlobalsInv
  <2>4. pcodeMap' = OpsOf(l) /\ handlers' = Registered(IdsOf(l))
    BY <1>6, <2>1, <2>3, InsertedIntoNothing DEF InitPlugin
  <2>5. MapsOf(l)'
    BY <2>1, <2>3, <2>4, HandlersFit DEF MapsOf
  <2>6. arch' = a /\ stage' = [stage EXCEPT ![a] = "initialised"] /\ setting' = setting
        /\ setting.env = "plugin" /\ "riscv_vector" \in loggers'
    BY <1>6 DEF InitPlugin, Moves
  <2>7. Passed(a)'
    BY <1>6, <2>6 DEF InitPlugin, Moves, IInv, TypeOK, OnePasses, Passed
  <2>8. MapsOf(LangOf(arch))'
    BY <2>1, <2>5, <2>6
  <2>9. stage'[a] = "initialised"
    BY <2>6 DEF IInv, TypeOK
  <2> QED BY <2>6, <2>7, <2>8, <2>9 DEF GlobalsInv
<1>7. ASSUME SkipRules(a) PROVE GlobalsInv'
  BY <1>7 DEF SkipRules, Moves, plugin, IInv, OnePasses, LoadedUntilGone, GlobalsInv, Library,
    Passed
<1>8. ASSUME InitRules(a) PROVE GlobalsInv'
  BY <1>8 DEF InitRules, Moves, IInv, GlobalsInv, MapsOf, LangOf, Relevant, Passed
<1>9. ASSUME NoRules(a) PROVE GlobalsInv'
  BY <1>9 DEF NoRules, Ends, plugin, IInv, GlobalsInv, MapsOf, LangOf, Relevant, Passed
<1>10. ASSUME BuildAction(a) PROVE GlobalsInv'
  BY <1>10 DEF BuildAction, Moves, plugin, IInv, GlobalsInv, MapsOf, LangOf, Relevant, Passed
<1>11. ASSUME DeriveGroup(a) PROVE GlobalsInv'
  BY <1>11 DEF DeriveGroup, plugin, IInv, GlobalsInv, MapsOf, LangOf, Relevant, Passed
<1>12. ASSUME NEW id \in Builtin, RegisterBuiltin(a, id) PROVE GlobalsInv'
  BY <1>12 DEF RegisterBuiltin, plugin, IInv, GlobalsInv, MapsOf, LangOf, Relevant, Passed
<1>13. ASSUME DestroyActions(a) PROVE GlobalsInv'
  <2>1. /\ stage[a] \in {"running", "failed"} /\ stage' = [stage EXCEPT ![a] = "dying"]
        /\ setting' = setting /\ loggers' = loggers /\ plugin' = plugin
    BY <1>13 DEF DestroyActions, Moves
  <2>2. \A b \in Arch : /\ Passed(b)' <=> Passed(b)
                        /\ (stage[b] = "gone")' <=> stage[b] = "gone"
                        /\ (stage[b] = "loaded")' <=> stage[b] = "loaded"
    BY <2>1 DEF IInv, TypeOK, Passed
  <2>3. MapsOf(LangOf(arch))' <=> MapsOf(LangOf(arch))
    BY <2>1 DEF MapsOf, LangOf, plugin
  <2> QED BY <2>1, <2>2, <2>3 DEF IInv, GlobalsInv, Relevant, LangOf, plugin
<1>14. ASSUME DestroyManager(a) PROVE GlobalsInv'
  BY <1>14 DEF DestroyManager, Moves, IInv, TypeOK, OnePasses, LoadedUntilGone, GlobalsInv,
    MapsOf, LangOf, Library, Relevant, Passed
<1>15. ASSUME NoLogger(a) PROVE GlobalsInv'
  BY <1>15 DEF NoLogger, Ends, plugin, IInv, OnePasses, GlobalsInv, Passed
<1> QED BY <1>1, <1>2, <1>3, <1>4, <1>5, <1>6, <1>7, <1>8, <1>9, <1>10, <1>11, <1>12, <1>13,
           <1>14, <1>15 DEF Step

(* Rules ask only where the plugin is loaded, and for what it offers. *)
LEMMA AnsweredStep ==
  ASSUME IInv, NEW a \in Arch, Step(a)
  PROVE  BuiltinsAnswered'
<1>1. ASSUME Construct(a) PROVE BuiltinsAnswered'
  BY <1>1 DEF Construct, manager, IInv, BuiltinsAnswered
<1>2. ASSUME RefuseSpec(a) PROVE BuiltinsAnswered'
  BY <1>2 DEF RefuseSpec, manager, IInv, BuiltinsAnswered
<1>3. ASSUME LoadPlugin(a) PROVE BuiltinsAnswered'
  BY <1>3 DEF LoadPlugin, IInv, BuiltinsAnswered
<1>4. ASSUME LoggerExists(a) PROVE BuiltinsAnswered'
  BY <1>4 DEF LoggerExists, Ends, manager, IInv, BuiltinsAnswered
<1>5. ASSUME SkipInit(a) PROVE BuiltinsAnswered'
  BY <1>5 DEF SkipInit, manager, IInv, BuiltinsAnswered
<1>6. ASSUME InitPlugin(a) PROVE BuiltinsAnswered'
  BY <1>6 DEF InitPlugin, manager, IInv, BuiltinsAnswered
<1>7. ASSUME SkipRules(a) PROVE BuiltinsAnswered'
  BY <1>7 DEF SkipRules, manager, IInv, BuiltinsAnswered
<1>8. ASSUME InitRules(a) PROVE BuiltinsAnswered'
  BY <1>8 DEF InitRules, manager, IInv, BuiltinsAnswered
<1>9. ASSUME NoRules(a) PROVE BuiltinsAnswered'
  BY <1>9 DEF NoRules, Ends, manager, IInv, BuiltinsAnswered
<1>10. ASSUME BuildAction(a) PROVE BuiltinsAnswered'
  BY <1>10 DEF BuildAction, IInv, BuiltinsAnswered
<1>11. ASSUME DeriveGroup(a) PROVE BuiltinsAnswered'
  BY <1>11 DEF DeriveGroup, IInv, BuiltinsAnswered
<1>12. ASSUME NEW id \in Builtin, RegisterBuiltin(a, id) PROVE BuiltinsAnswered'
  BY <1>12 DEF RegisterBuiltin, IInv, RulesComeLast, BuiltinsAnswered, Asked, Offered
<1>13. ASSUME DestroyActions(a) PROVE BuiltinsAnswered'
  BY <1>13 DEF DestroyActions, IInv, BuiltinsAnswered
<1>14. ASSUME DestroyManager(a) PROVE BuiltinsAnswered'
  BY <1>14 DEF DestroyManager, IInv, BuiltinsAnswered
<1>15. ASSUME NoLogger(a) PROVE BuiltinsAnswered'
  BY <1>15 DEF NoLogger, Ends, manager, IInv, BuiltinsAnswered
<1> QED BY <1>1, <1>2, <1>3, <1>4, <1>5, <1>6, <1>7, <1>8, <1>9, <1>10, <1>11, <1>12, <1>13,
           <1>14, <1>15 DEF Step

(* The process dies only on a second logger of the same name, on a         *)
(* destructor without one, and where plugin_getrules cannot be served.     *)
LEMMA SafeStep ==
  ASSUME IInv, NEW a \in Arch, Step(a)
  PROVE  OneArchitectureIsSafe'
<1>1. ASSUME Construct(a) PROVE OneArchitectureIsSafe'
  BY <1>1 DEF Construct, Moves, OneArchitectureIsSafe
<1>2. ASSUME RefuseSpec(a) PROVE OneArchitectureIsSafe'
  BY <1>2 DEF RefuseSpec, Moves, OneArchitectureIsSafe
<1>3. ASSUME LoadPlugin(a) PROVE OneArchitectureIsSafe'
  BY <1>3 DEF LoadPlugin, Moves, OneArchitectureIsSafe
<1>4. ASSUME LoggerExists(a) PROVE OneArchitectureIsSafe'
  BY <1>4 DEF LoggerExists, Ends, IInv, OnePasses, OneArchitectureIsSafe, Begun, Passed
<1>5. ASSUME SkipInit(a) PROVE OneArchitectureIsSafe'
  BY <1>5 DEF SkipInit, Moves, OneArchitectureIsSafe
<1>6. ASSUME InitPlugin(a) PROVE OneArchitectureIsSafe'
  BY <1>6 DEF InitPlugin, Moves, OneArchitectureIsSafe
<1>7. ASSUME SkipRules(a) PROVE OneArchitectureIsSafe'
  BY <1>7 DEF SkipRules, Moves, OneArchitectureIsSafe
<1>8. ASSUME InitRules(a) PROVE OneArchitectureIsSafe'
  BY <1>8 DEF InitRules, Moves, OneArchitectureIsSafe
<1>9. ASSUME NoRules(a) PROVE OneArchitectureIsSafe'
  <2> SUFFICES ASSUME NEW b \in Arch, Begun = {b}, setting.spec[b] # "bad",
                      \/ setting.env \in {"unset", "unopenable"}
                      \/ setting.env = "plugin" /\ LangOf(b) \in Riscv \cap WithCsreg
      PROVE  FALSE
    BY <1>9 DEF NoRules, Ends, manager, OneArchitectureIsSafe, Begun, LangOf
  <2>1. stage[a] = "initialised" /\ loaded[a] /\ ~HasRules(a)
    BY <1>9 DEF NoRules
  <2>2. a = b
    BY <2>1 DEF Begun
  <2>3. Passed(a) /\ setting.env = "plugin"
    BY <2>1 DEF IInv, LoadedUntilGone, Library
  <2>4. "riscv_vector" \in loggers
    BY <2>1, <2>2, <2>3 DEF IInv, GlobalsInv, Relevant
  <2> QED BY <2>1, <2>2, <2>3, <2>4 DEF HasRules
<1>10. ASSUME BuildAction(a) PROVE OneArchitectureIsSafe'
  BY <1>10 DEF BuildAction, Moves, OneArchitectureIsSafe
<1>11. ASSUME DeriveGroup(a) PROVE OneArchitectureIsSafe'
  BY <1>11 DEF DeriveGroup, Idle, OneArchitectureIsSafe
<1>12. ASSUME NEW id \in Builtin, RegisterBuiltin(a, id) PROVE OneArchitectureIsSafe'
  BY <1>12 DEF RegisterBuiltin, Idle, OneArchitectureIsSafe
<1>13. ASSUME DestroyActions(a) PROVE OneArchitectureIsSafe'
  BY <1>13 DEF DestroyActions, Moves, OneArchitectureIsSafe
<1>14. ASSUME DestroyManager(a) PROVE OneArchitectureIsSafe'
  BY <1>14 DEF DestroyManager, Moves, OneArchitectureIsSafe
<1>15. ASSUME NoLogger(a) PROVE OneArchitectureIsSafe'
  BY <1>15 DEF NoLogger, Ends, IInv, OnePasses, OneArchitectureIsSafe, Begun, Passed
<1> QED BY <1>1, <1>2, <1>3, <1>4, <1>5, <1>6, <1>7, <1>8, <1>9, <1>10, <1>11, <1>12, <1>13,
           <1>14, <1>15 DEF Step

-----------------------------------------------------------------------------
(* Every state of a process that loads plugins has the invariant. *)
THEOREM Invariance == Spec => []IInv
<1>1. Init => IInv
  <2> SUFFICES ASSUME Init PROVE IInv
    OBVIOUS
  <2>1. \A keys, values : IsMap(<<>>, keys, values)
    BY DEF IsMap
  <2>2. TypeOK
    <3>1. 0 \in 0..(1 + MaxClones)
      BY LifecycleAssumption
    <3>2. rules \in [Arch -> 0..(1 + MaxClones)]
      BY <3>1 DEF Init
    <3>3. /\ IsMap(pcodeMap, Ids, Names) /\ IsMap(nameToId, Names, Ids)
          /\ IsMap(handlers, Ids, ToSet(Handled))
      BY <2>1 DEF Init
    <3> QED BY <3>2, <3>3 DEF Init, TypeOK, Stages, Under
  <2>3. \A a \in Arch : ~Passed(a)
    BY DEF Init, Passed
  <2>4. OnePasses /\ LoadedUntilGone /\ RulesComeLast /\ GlobalsInv /\ BuiltinsAnswered
    BY <2>3 DEF Init, OnePasses, LoadedUntilGone, RulesComeLast, GlobalsInv, BuiltinsAnswered
  <2>5. OneArchitectureIsSafe
    BY DEF Init, OneArchitectureIsSafe
  <2> QED BY <2>2, <2>4, <2>5 DEF IInv
<1>2. IInv /\ [Next]_vars => IInv'
  <2> SUFFICES ASSUME IInv, [Next]_vars PROVE IInv'
    OBVIOUS
  <2>1. ASSUME NEW a \in Arch, Step(a) PROVE IInv'
    BY <2>1, TypeStep, OnePassesStep, LoadedStep, RulesStep, GlobalsStep, AnsweredStep, SafeStep
      DEF IInv
  <2>2. CASE UNCHANGED vars
    BY <2>2 DEF vars, manager, plugin, IInv, TypeOK, OnePasses, LoadedUntilGone, RulesComeLast,
      GlobalsInv, BuiltinsAnswered, OneArchitectureIsSafe, Passed, Library, HasRules, MapsOf,
      Relevant, Begun, LangOf
  <2> QED BY <2>1, <2>2 DEF Next, Step
<1> QED BY <1>1, <1>2, PTL DEF Spec

(* The globals of the plugin are maps between ids and names of the ops     *)
(* languages define, whichever Architectures come and go.                  *)
THEOREM Typing == Spec => []TypeOK
BY Invariance, PTL DEF IInv

(* As long as a rule of the plugin is in an ActionDatabase, the pointers    *)
(* and maps riscv.cc keeps are those of the Architecture it belongs to.     *)
THEOREM RulesAtHome == Spec => []RulesMeetTheirArchitecture
<1>1. IInv => RulesMeetTheirArchitecture
  <2> SUFFICES ASSUME IInv, NEW a \in Arch, rules[a] > 0
      PROVE  arch = a /\ csreg = a /\ MapsOf(LangOf(a))
    BY DEF RulesMeetTheirArchitecture, MapsOf
  <2>1. /\ stage[a] \in {"running", "failed"} /\ Passed(a)
        /\ "riscv_vector" \in loggers /\ csreg = arch
    BY DEF IInv, RulesComeLast, LoadedUntilGone, HasRules
  <2>2. arch = a
    BY <2>1 DEF IInv, GlobalsInv, OnePasses
  <2> QED BY <2>1, <2>2 DEF IInv, GlobalsInv
<1> QED BY <1>1, Invariance, PTL

(* Whatever plugin_init opened and filled, some live PluginManager will     *)
(* call plugin_exit for.                                                    *)
THEOREM NothingForgotten == Spec => []HeldUntilReleased
<1>1. IInv => HeldUntilReleased
  <2> SUFFICES ASSUME IInv, report \/ pcodeMap # <<>>
      PROVE  \E a \in Arch : loaded[a] /\ stage[a] # "gone"
    BY DEF HeldUntilReleased
  <2>1. "riscv_vector" \in loggers
    BY DEF IInv, GlobalsInv
  <2>2. arch \in Arch /\ Passed(arch) /\ stage[arch] # "gone" /\ Library
    BY <2>1 DEF IInv, GlobalsInv, Library
  <2> QED BY <2>2 DEF IInv, LoadedUntilGone
<1> QED BY <1>1, Invariance, PTL

(* plugin_registerBuiltin knows each builtin a transform registers, and is  *)
(* asked in every Architecture that has a rule of the plugin.               *)
THEOREM EveryBuiltin == Spec => []BuiltinsAnswered
BY Invariance, PTL DEF IInv

(* A process with one Architecture ends neither by an exception nor by a    *)
(* null pointer, with no plugin or with this one on a RISC-V that has       *)
(* control registers.                                                       *)
THEOREM OneIsSafe == Spec => []OneArchitectureIsSafe
BY Invariance, PTL DEF IInv
=============================================================================
