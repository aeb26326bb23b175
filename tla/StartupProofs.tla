--------------------------- MODULE StartupProofs ---------------------------
(***************************************************************************)
(* Proofs about Startup, in three parts that do not need each other: the   *)
(* ids of the process, the plugins, and the descriptors with the log and   *)
(* the sockets in them.                                                    *)
(***************************************************************************)
EXTENDS Startup, SetFacts, SequenceTheorems

(***************************************************************************)
(* The ids of the process.                                                 *)
(***************************************************************************)

\* Where main() is once the privileges are given up.
Confined == pc \in {"conns", "init", "daemonize", "log", "defaults", "keys", "register",
                    "loop", "cycle"}

IdsInv ==
  Confined /\ conf.root /\ HasGroup =>
    /\ ids.gid = "group" /\ ids.groups # "root"
    /\ HasUser => ids.uid = "user"

\* No other step gives ids back, and none but Privileges leads to what comes
\* after it.
LEMMA IdsFrame ==
  ASSUME [Next]_vars, ~Privileges
  PROVE  ~Confined' \/ (Confined /\ ids' = ids /\ conf' = conf)
<1> USE DEF Confined, Goto, Ends
<1>1. CASE Options \/ Load \/ PidFile \/ Limits \/ Names
  BY <1>1 DEF Options, Load, PidFile, Limits, Names
<1>2. CASE BindHost \/ Backend \/ Sockets \/ Conns
  BY <1>2 DEF BindHost, Backend, Sockets, Conns, NetworkFails, Crash
<1>3. CASE InitPlugin \/ Daemonize \/ OpenErrorLog
  BY <1>3 DEF InitPlugin, Daemonize, OpenErrorLog
<1>4. CASE GoesDown \/ SetDefaults \/ Keys \/ Preflight \/ Register
  BY <1>4 DEF GoesDown, GoDown, SetDefaults, Keys, Preflight, Register
<1>5. CASE Hup \/ Cycle \/ Trigger \/ Signal \/ Renamed \/ Stop
  BY <1>5 DEF Hup, Cycle, Trigger, Signal, Renamed, Stop, mainvars, flags
<1>6. CASE UNCHANGED vars
  BY <1>6 DEF vars, mainvars
<1> QED
  BY <1>1, <1>2, <1>3, <1>4, <1>5, <1>6 DEF Next

\* A server that serves has given up root's ids, as far as it was told to,
\* whether or not initgroups() did anything.
THEOREM PrivilegesCorrect == Spec => []PrivilegesGivenUp
<1>1. Init => IdsInv
  BY DEF Init, IdsInv, Confined
<1>2. IdsInv /\ [Next]_vars => IdsInv'
  <2> SUFFICES ASSUME IdsInv, [Next]_vars PROVE IdsInv'
    OBVIOUS
  <2>1. CASE Privileges
    <3>1. conf' = conf
      BY <2>1 DEF Privileges
    <3> SUFFICES ASSUME Confined', conf.root, HasGroup
                 PROVE  /\ ids'.gid = "group" /\ ids'.groups # "root"
                        /\ HasUser => ids'.uid = "user"
      BY <3>1 DEF IdsInv, HasGroup, HasUser
    <3>2. ids' \in GivenUp
      BY <2>1 DEF Privileges, Confined, Ends
    <3>3. PICK g \in SupplementaryGroups :
            ids' = [uid    |-> IF HasUser THEN "user" ELSE ids.uid,
                    gid    |-> IF HasGroup THEN "group" ELSE ids.gid,
                    groups |-> g]
      BY <3>2 DEF GivenUp
    <3>4. g # "root"
      BY DEF SupplementaryGroups
    <3> QED
      BY <3>3, <3>4
  <2>2. CASE ~Privileges
    BY <2>2, IdsFrame DEF IdsInv, HasGroup, HasUser
  <2> QED
    BY <2>1, <2>2
<1>3. IdsInv => PrivilegesGivenUp
  BY DEF IdsInv, PrivilegesGivenUp, Serving, Confined
<1> QED
  BY <1>1, <1>2, <1>3, PTL DEF Spec

-----------------------------------------------------------------------------
(***************************************************************************)
(* The plugins.  What main() knows of them depends on how far it is:       *)
(* `next' - 1 modules are loaded while it loads them, and as many plugins  *)
(* have their data while it initialises them.                              *)
(***************************************************************************)
Uninitialised == {"options", "load", "pidfile", "limits", "names", "network", "backend",
                  "sockets", "privileges", "conns"}
Initialised   == {"daemonize", "log", "defaults", "keys", "register", "loop", "cycle"}

PluginsLoaded ==
  pc # "ended" =>
    /\ outcome # "stopped" /\ cleaned = <<>>
    /\ Len(plugins) <= Len(conf.modules)
    /\ \A i \in 1 .. Len(plugins) : plugins[i] = conf.modules[i]
    /\ pc = "options" => next = 1 /\ plugins = <<>>
    /\ pc = "load" => next = Len(plugins) + 1
    /\ pc \notin {"options", "load"} => Len(plugins) = Len(conf.modules)

PluginsReady ==
  /\ pc \in Uninitialised => data = <<>> /\ refused = {}
  /\ pc = "init" => next = Len(data) + 1 /\ Len(data) <= Len(plugins)
  /\ pc \in Initialised => Len(data) = Len(plugins)
  /\ pc \in Initialised \cup {"init"} =>
       /\ "init" \notin refused /\ "set_defaults" \notin refused
       /\ \A i \in 1 .. Len(data) : data[i] # "failed"

Ascending(s) == \A i, j \in 1 .. Len(s) : i < j => s[i] < s[j]

CleanedUp ==
  outcome = "stopped" =>
    /\ Ascending(cleaned)
    /\ "cleanup" \notin refused =>
         ToSet(cleaned) = {n \in DOMAIN conf.modules : "cleanup" \in HooksOf[conf.modules[n]]}

PluginInv ==
  /\ conf \in Configs /\ next \in Nat \ {0}
  /\ PluginsTypeOK
  /\ SlotsInLoadOrder
  /\ PluginsLoaded
  /\ PluginsReady
  /\ CleanedUp

\* What PluginInv says of the types.
LEMMA PluginTypes ==
  ASSUME PluginInv
  PROVE  /\ conf.modules \in Seq(DOMAIN HooksOf)
         /\ Len(conf.modules) \in Nat /\ DOMAIN conf.modules = 1 .. Len(conf.modules)
         /\ plugins \in Seq(DOMAIN HooksOf)
         /\ Len(plugins) \in Nat /\ DOMAIN plugins = 1 .. Len(plugins)
         /\ data \in Seq({"none", "ready", "failed"})
         /\ Len(data) \in Nat /\ DOMAIN data = 1 .. Len(data)
         /\ refused \subseteq Hook \cup {"init"}
         /\ cleaned \in Seq(Nat)
         /\ \A h \in Hook : /\ plugin_slots[h] \in Seq(1 .. Len(plugins))
                            /\ Len(plugin_slots[h]) \in Nat
                            /\ DOMAIN plugin_slots[h] = 1 .. Len(plugin_slots[h])
                            /\ Ascending(plugin_slots[h])
                            /\ ToSet(plugin_slots[h]) = {n \in DOMAIN data : Calls(n, h)}
         /\ next \in Nat \ {0}
<1>1. conf.modules \in Seq(DOMAIN HooksOf)
  BY ConfigsAssumption DEF PluginInv
<1>2. /\ plugins \in Seq(DOMAIN HooksOf)
      /\ plugin_slots \in [Hook -> Seq(1 .. Len(plugins))]
      /\ data \in Seq({"none", "ready", "failed"})
      /\ refused \subseteq Hook \cup {"init"}
      /\ cleaned \in Seq(Nat)
  BY DEF PluginInv, PluginsTypeOK
<1>3. ASSUME NEW h \in Hook
      PROVE  /\ plugin_slots[h] \in Seq(1 .. Len(plugins))
             /\ Len(plugin_slots[h]) \in Nat
             /\ DOMAIN plugin_slots[h] = 1 .. Len(plugin_slots[h])
             /\ Ascending(plugin_slots[h])
             /\ ToSet(plugin_slots[h]) = {n \in DOMAIN data : Calls(n, h)}
  <2>1. plugin_slots[h] \in Seq(1 .. Len(plugins))
    BY <1>2
  <2>2. Len(plugin_slots[h]) \in Nat /\ DOMAIN plugin_slots[h] = 1 .. Len(plugin_slots[h])
    BY <2>1, LenProperties
  <2> QED
    BY <2>1, <2>2 DEF PluginInv, SlotsInLoadOrder, Ascending
<1> QED
  BY <1>1, <1>2, <1>3, LenProperties DEF PluginInv

\* Steps that leave the plugins alone keep what is said of them.
LEMMA PluginsSame ==
  ASSUME PluginInv, UNCHANGED <<conf, pluginvars>>
  PROVE  PluginsTypeOK' /\ SlotsInLoadOrder' /\ conf' \in Configs
BY DEF PluginInv, PluginsTypeOK, SlotsInLoadOrder, Calls, pluginvars

\* plugins_free.
LEMMA PluginsFreed ==
  ASSUME PluginInv, pc # "ended", FreePlugins
  PROVE  /\ PluginsTypeOK' /\ SlotsInLoadOrder'
         /\ Ascending(cleaned')
         /\ "cleanup" \notin refused' => cleaned' = plugin_slots["cleanup"]
<1> DEFINE slot == plugin_slots["cleanup"]
<1>1. PICK k \in 0 .. Len(slot) : PluginsFree(k)
  BY DEF FreePlugins
<1> DEFINE m == IF k < Len(slot) THEN k + 1 ELSE k
<1>2. /\ slot \in Seq(1 .. Len(plugins)) /\ Len(slot) \in Nat /\ Ascending(slot)
      /\ "cleanup" \in Hook
  BY PluginTypes, PluginsAssumption
<1>3. m \in 0 .. Len(slot) /\ (k = Len(slot) => m = Len(slot))
  BY <1>1, <1>2
<1>4. slot \in Seq(Nat)
  <2>1. 1 .. Len(plugins) \subseteq Nat
    BY PluginTypes
  <2> QED
    BY <2>1, <1>2, SeqMonotonic
<1> HIDE DEF m, slot
<1>5. /\ SubSeq(slot, 1, m) \in Seq(Nat)
      /\ Len(SubSeq(slot, 1, m)) = m
      /\ \A i \in 1 .. m : SubSeq(slot, 1, m)[i] = slot[i]
  <2>1. \A i \in 1 .. m : slot[i] \in Nat
    BY <1>2, <1>3, <1>4, ElementOfSeq
  <2>2. /\ SubSeq(slot, 1, m) \in Seq(Nat)
        /\ Len(SubSeq(slot, 1, m)) = IF 1 <= m THEN m - 1 + 1 ELSE 0
        /\ \A i \in 1 .. m - 1 + 1 : SubSeq(slot, 1, m)[i] = slot[1 + i - 1]
    BY <2>1, <1>2, <1>3, SubSeqProperties
  <2>3. \A i \in 1 .. m : SubSeq(slot, 1, m)[i] = slot[i]
    <3>1. ASSUME NEW i \in 1 .. m PROVE SubSeq(slot, 1, m)[i] = slot[i]
      <4>1. i \in 1 .. m - 1 + 1 /\ 1 + i - 1 = i
        BY <1>2, <1>3
      <4> QED
        BY <4>1, <2>2
    <3> QED
      BY <3>1
  <2> QED
    BY <2>2, <2>3, <1>2, <1>3
<1>6. cleaned' = SubSeq(slot, 1, m)
  <2>1. cleaned = <<>> /\ cleaned' = cleaned \o SubSeq(slot, 1, m)
    BY <1>1 DEF PluginsFree, PluginInv, PluginsLoaded, slot, m
  <2> QED
    BY <2>1, <1>5, ConcatEmptySeq
<1>7. Ascending(cleaned')
  BY <1>2, <1>3, <1>5, <1>6 DEF Ascending
<1>8. "cleanup" \notin refused' => cleaned' = slot
  <2>1. SUFFICES ASSUME "cleanup" \notin refused' PROVE cleaned' = slot
    OBVIOUS
  <2>2. ~ k < Len(slot)
    BY <1>1, <2>1 DEF PluginsFree, slot
  <2>3. m = Len(slot)
    BY <1>1, <1>2, <1>3, <2>2 DEF slot
  <2> QED
    BY <1>4, <1>6, <2>3, SubSeqFull
<1>9. plugins' = <<>> /\ plugin_slots' = NoSlots /\ data' = <<>>
      /\ refused' \subseteq Hook \cup {"init"}
  BY <1>1, <1>2, PluginTypes DEF PluginsFree
<1>10. PluginsTypeOK'
  <2>1. /\ plugins' \in Seq(DOMAIN HooksOf) /\ data' \in Seq({"none", "ready", "failed"})
        /\ cleaned' \in Seq(Nat)
    BY <1>5, <1>6, <1>9, EmptySeq
  <2>2. plugin_slots' \in [Hook -> Seq(1 .. Len(plugins'))]
    BY <1>9, EmptySeq DEF NoSlots
  <2> QED
    BY <1>9, <2>1, <2>2 DEF PluginsTypeOK
<1>11. SlotsInLoadOrder'
  <2>1. \A h \in Hook : plugin_slots'[h] = <<>>
    BY <1>9 DEF NoSlots
  <2>2. DOMAIN (<<>>) = {}
    OBVIOUS
  <2> QED
    BY <1>9, <2>1, <2>2 DEF SlotsInLoadOrder, ToSet
<1> QED
  BY <1>7, <1>8, <1>10, <1>11 DEF slot

\* main() ends, with or without plugins_free, but not in the ordinary way.
LEMMA EndedPlugins ==
  ASSUME PluginInv, pc # "ended", pc' = "ended", outcome' # "stopped",
         UNCHANGED <<conf, next>>, FreePlugins \/ UNCHANGED pluginvars
  PROVE  PluginInv'
<1>1. PluginsTypeOK' /\ SlotsInLoadOrder'
  BY PluginsSame, PluginsFreed DEF PluginInv
<1> QED
  BY <1>1 DEF PluginInv, PluginsLoaded, PluginsReady, CleanedUp, Uninitialised, Initialised

\* main() goes on and leaves the plugins alone.
LEMMA PassedPlugins ==
  ASSUME PluginInv, UNCHANGED <<conf, pluginvars, outcome>>,
         pc \notin {"options", "load", "ended"}, pc' \notin {"options", "load", "ended"},
         next' \in Nat \ {0},
         pc' \in Uninitialised => pc \in Uninitialised,
         pc' = "init" => pc \in Uninitialised /\ next' = 1,
         pc' \in Initialised => pc \in Initialised
  PROVE  PluginInv'
<1>1. PluginsTypeOK' /\ SlotsInLoadOrder' /\ conf' \in Configs
  BY PluginsSame
<1>2. /\ plugins' = plugins /\ data' = data /\ refused' = refused /\ cleaned' = cleaned
      /\ conf' = conf /\ outcome' = outcome
  BY DEF pluginvars
<1>3. PluginsLoaded'
  BY <1>2 DEF PluginInv, PluginsLoaded
<1>4. PluginsReady'
  <2>1. pc' = "init" => Len(data) = 0 /\ refused = {} /\ Len(plugins) \in Nat
    BY PluginTypes, EmptySeq DEF PluginInv, PluginsReady
  <2> QED
    BY <1>2, <2>1 DEF PluginInv, PluginsReady, Initialised, Uninitialised
<1>5. CleanedUp'
  BY <1>2 DEF PluginInv, PluginsLoaded, CleanedUp
<1> QED
  BY <1>1, <1>3, <1>4, <1>5 DEF PluginInv

LEMMA OptionsPlugins == ASSUME PluginInv, Options PROVE PluginInv'
<1>1. UNCHANGED <<conf, pluginvars, next>> /\ pc = "options"
  BY DEF Options
<1>2. CASE Ends("refused")
  BY <1>1, <1>2, EndedPlugins DEF Ends
<1>3. CASE Goto("load")
  <2>1. PluginsTypeOK' /\ SlotsInLoadOrder' /\ conf' \in Configs
    BY <1>1, PluginsSame
  <2>2. next = 1 /\ plugins = <<>> /\ Len(plugins) = 0
    BY <1>1, EmptySeq DEF PluginInv, PluginsLoaded
  <2>3. /\ plugins' = plugins /\ data' = data /\ refused' = refused /\ cleaned' = cleaned
        /\ pc' = "load" /\ outcome' = outcome
    BY <1>1, <1>3 DEF pluginvars, Goto
  <2> QED
    BY <1>1, <2>1, <2>2, <2>3 DEF PluginInv, PluginsLoaded, PluginsReady, CleanedUp,
       Uninitialised, Initialised
<1> QED
  BY <1>2, <1>3 DEF Options

\* plugins_load: one more plugin, at the end.
LEMMA LoadPlugins == ASSUME PluginInv, Load PROVE PluginInv'
<1>0. /\ pc = "load" /\ conf' = conf
      /\ next = Len(plugins) + 1 /\ outcome # "stopped" /\ cleaned = <<>>
      /\ data = <<>> /\ refused = {}
      /\ Len(plugins) <= Len(conf.modules) /\ Len(plugins) \in Nat /\ Len(conf.modules) \in Nat
      /\ \A i \in 1 .. Len(plugins) : plugins[i] = conf.modules[i]
  BY PluginTypes DEF Load, PluginInv, PluginsLoaded, PluginsReady, Uninitialised
<1>1. CASE Goto("pidfile") /\ next > Len(conf.modules) /\ next' = 1 /\ UNCHANGED pluginvars
  <2>1. Len(plugins) = Len(conf.modules)
    BY <1>0, <1>1
  <2>2. PluginsTypeOK' /\ SlotsInLoadOrder' /\ conf' \in Configs
    BY <1>0, <1>1, PluginsSame
  <2> QED
    BY <1>0, <1>1, <2>1, <2>2 DEF PluginInv, PluginsLoaded, PluginsReady, CleanedUp, Goto,
       pluginvars, Uninitialised, Initialised
<1>2. CASE /\ next <= Len(conf.modules) /\ Goto("load") /\ next' = next + 1
           /\ PluginLoad(conf.modules[next])
  <2>1. conf.modules[next] \in DOMAIN HooksOf
    BY <1>0, <1>2, PluginTypes, ElementOfSeq
  <2>2. /\ plugins' = Append(plugins, conf.modules[next])
        /\ UNCHANGED <<plugin_slots, data, refused, cleaned>>
    BY <1>2 DEF PluginLoad
  <2>3. /\ plugins' \in Seq(DOMAIN HooksOf) /\ Len(plugins') = Len(plugins) + 1
        /\ \A i \in 1 .. Len(plugins) : plugins'[i] = plugins[i]
        /\ plugins'[Len(plugins) + 1] = conf.modules[next]
    BY <2>1, <2>2, PluginTypes, AppendProperties
  <2>4. \A i \in 1 .. Len(plugins') : plugins'[i] = conf.modules[i]
    BY <1>0, <2>3
  <2>5. SlotsInLoadOrder'
    <3>1. DOMAIN data = {} /\ DOMAIN data' = {}
      BY <1>0, <2>2
    <3>2. \A h \in Hook : ToSet(plugin_slots[h]) = {}
      BY <3>1, PluginTypes
    <3> QED
      BY <2>2, <3>1, <3>2 DEF PluginInv, SlotsInLoadOrder
  <2>6. PluginsTypeOK'
    <3>1. \A h \in Hook : plugin_slots[h] \in Seq(1 .. Len(plugins'))
      <4>1. 1 .. Len(plugins) \subseteq 1 .. Len(plugins')
        BY <1>0, <2>3
      <4> QED
        BY <4>1, PluginTypes, SeqMonotonic
    <3>2. plugin_slots' \in [Hook -> Seq(1 .. Len(plugins'))]
      BY <2>2, <3>1 DEF PluginInv, PluginsTypeOK
    <3> QED
      BY <2>2, <2>3, <3>2 DEF PluginInv, PluginsTypeOK
  <2>7. PluginsLoaded'
    BY <1>0, <1>2, <2>2, <2>3, <2>4 DEF PluginsLoaded, Goto
  <2>8. PluginsReady' /\ CleanedUp'
    BY <1>0, <1>2, <2>2 DEF PluginsReady, CleanedUp, Goto, Uninitialised, Initialised
  <2>9. next' \in Nat \ {0} /\ conf' \in Configs
    BY <1>0, <1>2 DEF PluginInv
  <2> QED
    BY <2>5, <2>6, <2>7, <2>8, <2>9 DEF PluginInv
<1>3. CASE Ends("refused") /\ UNCHANGED next /\ FreePlugins
  BY <1>0, <1>3, EndedPlugins DEF Ends
<1>4. CASE Ends("crashed") /\ UNCHANGED <<next, pluginvars>>
  BY <1>0, <1>4, EndedPlugins DEF Ends
<1> QED
  BY <1>0, <1>1, <1>2, <1>3, <1>4 DEF Load

\* From the pid file to the limit on connections the plugins stay as they are.
LEMMA PreparePlugins ==
  ASSUME PluginInv, PidFile \/ Limits \/ Names \/ Backend \/ Privileges \/ Conns
  PROVE  PluginInv'
<1>0. /\ pc \in {"pidfile", "limits", "names", "backend", "privileges", "conns"}
      /\ conf' = conf /\ next \in Nat \ {0}
  BY PluginTypes DEF PidFile, Limits, Names, Backend, Privileges, Conns
<1>1. CASE pc' = "ended"
  <2>1. outcome' \in {"refused", "crashed"} /\ next' = next /\ (FreePlugins \/ UNCHANGED pluginvars)
    BY <1>1, <1>0 DEF PidFile, Limits, Names, Backend, Privileges, Conns, Goto, Ends, NetworkFails
  <2> QED
    BY <1>0, <1>1, <2>1, EndedPlugins
<1>2. CASE pc' # "ended"
  <2>1. /\ UNCHANGED <<pluginvars, outcome>> /\ next' \in Nat \ {0}
        /\ pc' \in {"limits", "names", "network", "sockets", "conns", "init"}
        /\ pc' = "init" => next' = 1
    BY <1>2, <1>0 DEF PidFile, Limits, Names, Backend, Privileges, Conns, Goto, Ends, NetworkFails
  <2> QED
    BY <1>0, <2>1, PassedPlugins DEF Uninitialised, Initialised
<1> QED
  BY <1>1, <1>2

LEMMA NetworkPlugins == ASSUME PluginInv, BindHost \/ Sockets PROVE PluginInv'
<1>0. pc \in {"network", "sockets"} /\ conf' = conf /\ next \in Nat \ {0}
  BY PluginTypes DEF BindHost, Sockets
<1>1. CASE pc' = "ended"
  <2>1. outcome' \in {"refused", "crashed"} /\ next' = next /\ (FreePlugins \/ UNCHANGED pluginvars)
    BY <1>1, <1>0 DEF BindHost, Sockets, Goto, Ends, NetworkFails, Crash
  <2> QED
    BY <1>0, <1>1, <2>1, EndedPlugins
<1>2. CASE pc' # "ended"
  <2>1. /\ UNCHANGED <<pluginvars, outcome>> /\ next' \in Nat \ {0}
        /\ pc' \in {"backend", "sockets", "privileges"}
    BY <1>2, <1>0 DEF BindHost, Sockets, Goto, Ends, NetworkFails, Crash
  <2> QED
    BY <1>0, <2>1, PassedPlugins DEF Uninitialised, Initialised
<1> QED
  BY <1>1, <1>2

\* plugins_call_init: the next plugin goes to the end of the slots of its hooks.
LEMMA InitPluginPlugins == ASSUME PluginInv, InitPlugin PROVE PluginInv'
<1>0. /\ pc = "init" /\ conf' = conf /\ next = Len(data) + 1 /\ Len(data) <= Len(plugins)
      /\ Len(data) \in Nat /\ Len(plugins) \in Nat /\ Len(plugins) = Len(conf.modules)
      /\ \A i \in 1 .. Len(plugins) : plugins[i] = conf.modules[i]
      /\ outcome # "stopped" /\ cleaned = <<>>
      /\ "init" \notin refused /\ "set_defaults" \notin refused
      /\ \A i \in 1 .. Len(data) : data[i] # "failed"
  BY PluginTypes DEF InitPlugin, PluginInv, PluginsLoaded, PluginsReady, Initialised
<1>1. CASE next > Len(plugins) /\ Goto("daemonize") /\ next' = 1 /\ UNCHANGED pluginvars
  <2>1. Len(data) = Len(plugins)
    BY <1>0, <1>1
  <2>2. PluginsTypeOK' /\ SlotsInLoadOrder' /\ conf' \in Configs
    BY <1>0, <1>1, PluginsSame
  <2> QED
    BY <1>0, <1>1, <2>1, <2>2 DEF PluginInv, PluginsLoaded, PluginsReady, CleanedUp, Goto,
       pluginvars, Uninitialised, Initialised
<1>2. CASE Ends("crashed") /\ UNCHANGED <<pluginvars, next>>
  BY <1>0, <1>2, EndedPlugins DEF Ends
<1>3. CASE ~ next > Len(plugins) /\
           \E answer \in {"ready", "failed"} :
             /\ answer = "failed" => plugins[next] \in HasInit
             /\ PluginInit(next, answer)
             /\ next' = next + 1
             /\ Goto(IF "init" \in refused' THEN "godown" ELSE "init")
  <2>1. PICK answer \in {"ready", "failed"} :
          /\ answer = "failed" => plugins[next] \in HasInit
          /\ PluginInit(next, answer)
          /\ next' = next + 1
          /\ Goto(IF "init" \in refused' THEN "godown" ELSE "init")
    BY <1>3
  <2> DEFINE d == IF plugins[next] \in HasInit THEN answer ELSE "none"
  <2>2. /\ plugin_slots' = [h \in Hook |-> IF Calls(next, h) THEN Append(plugin_slots[h], next)
                                                              ELSE plugin_slots[h]]
        /\ data' = Append(data, d)
        /\ refused' = IF answer = "failed" THEN refused \cup {"init"} ELSE refused
        /\ plugins' = plugins /\ cleaned' = cleaned
    BY <2>1 DEF PluginInit, ToSlot
  <2>3. next \in 1 .. Len(plugins) /\ d \in {"none", "ready", "failed"}
    BY <1>0, <1>3
  <2> HIDE DEF d
  <2>4. /\ data' \in Seq({"none", "ready", "failed"}) /\ Len(data') = Len(data) + 1
        /\ \A i \in 1 .. Len(data) : data'[i] = data[i]
        /\ data'[Len(data) + 1] = d
        /\ DOMAIN data' = 1 .. Len(data')
    BY <2>2, <2>3, PluginTypes, AppendProperties, LenProperties
  <2>5. ASSUME NEW h \in Hook
        PROVE  /\ plugin_slots'[h] \in Seq(1 .. Len(plugins))
               /\ Ascending(plugin_slots'[h])
               /\ ToSet(plugin_slots'[h]) = {n \in DOMAIN data' : Calls(n, h)}
    <3> DEFINE slot == plugin_slots[h]
    <3>1. /\ slot \in Seq(1 .. Len(plugins)) /\ Len(slot) \in Nat
          /\ DOMAIN slot = 1 .. Len(slot) /\ Ascending(slot)
          /\ ToSet(slot) = {n \in DOMAIN data : Calls(n, h)}
      BY PluginTypes
    <3>2. DOMAIN data = 1 .. Len(data) /\ DOMAIN data' = DOMAIN data \cup {next} /\ next \notin DOMAIN data
      BY <1>0, <2>4, PluginTypes
    <3> HIDE DEF slot
    <3>3. CASE ~ Calls(next, h)
      <4>1. plugin_slots'[h] = slot
        BY <2>2, <3>3 DEF slot
      <4>2. {n \in DOMAIN data' : Calls(n, h)} = {n \in DOMAIN data : Calls(n, h)}
        BY <3>2, <3>3
      <4> QED
        BY <3>1, <4>1, <4>2
    <3>4. CASE Calls(next, h)
      <4>1. plugin_slots'[h] = Append(slot, next)
        BY <2>2, <3>4 DEF slot
      <4>2. /\ Append(slot, next) \in Seq(1 .. Len(plugins))
            /\ Len(Append(slot, next)) = Len(slot) + 1
            /\ \A i \in 1 .. Len(slot) : Append(slot, next)[i] = slot[i]
            /\ Append(slot, next)[Len(slot) + 1] = next
            /\ DOMAIN Append(slot, next) = 1 .. Len(slot) + 1
        BY <2>3, <3>1, AppendProperties, LenProperties
      <4>3. \A i \in 1 .. Len(slot) : slot[i] \in DOMAIN data
        <5>1. \A i \in 1 .. Len(slot) : slot[i] \in ToSet(slot)
          BY <3>1 DEF ToSet
        <5> QED
          BY <5>1, <3>1
      <4>4. Ascending(Append(slot, next))
        <5>1. ASSUME NEW i \in 1 .. Len(slot) + 1, NEW j \in 1 .. Len(slot) + 1, i < j
              PROVE  Append(slot, next)[i] < Append(slot, next)[j]
          <6>1. i \in 1 .. Len(slot)
            BY <3>1, <5>1
          <6>2. CASE j = Len(slot) + 1
            BY <6>1, <6>2, <4>2, <4>3, <3>2, <1>0
          <6>3. CASE j # Len(slot) + 1
            <7>1. j \in 1 .. Len(slot)
              BY <3>1, <6>3
            <7> QED
              BY <7>1, <6>1, <5>1, <4>2, <3>1 DEF Ascending
          <6> QED
            BY <6>2, <6>3
        <5> QED
          BY <5>1, <4>2 DEF Ascending
      <4>5. ToSet(Append(slot, next)) = ToSet(slot) \cup {next}
        <5>1. ASSUME NEW x \in ToSet(slot) PROVE x \in ToSet(Append(slot, next))
          <6>1. PICK i \in 1 .. Len(slot) : x = slot[i]
            BY <3>1 DEF ToSet
          <6>2. i \in DOMAIN Append(slot, next) /\ x = Append(slot, next)[i]
            BY <6>1, <3>1, <4>2
          <6> QED
            BY <6>2 DEF ToSet
        <5>2. next \in ToSet(Append(slot, next))
          <6>1. Len(slot) + 1 \in DOMAIN Append(slot, next)
            BY <3>1, <4>2
          <6> QED
            BY <6>1, <4>2 DEF ToSet
        <5>3. ASSUME NEW x \in ToSet(Append(slot, next)) PROVE x \in ToSet(slot) \cup {next}
          <6>1. PICK i \in 1 .. Len(slot) + 1 : x = Append(slot, next)[i]
            BY <4>2 DEF ToSet
          <6>2. CASE i = Len(slot) + 1
            BY <6>1, <6>2, <4>2
          <6>3. CASE i # Len(slot) + 1
            <7>1. i \in DOMAIN slot /\ x = slot[i]
              BY <6>1, <6>3, <3>1, <4>2
            <7> QED
              BY <7>1 DEF ToSet
          <6> QED
            BY <6>2, <6>3
        <5> QED
          BY <5>1, <5>2, <5>3
      <4>6. {n \in DOMAIN data' : Calls(n, h)} = {n \in DOMAIN data : Calls(n, h)} \cup {next}
        BY <3>2, <3>4
      <4> QED
        BY <3>1, <4>1, <4>2, <4>4, <4>5, <4>6
    <3> QED
      BY <3>3, <3>4
  <2>6. SlotsInLoadOrder'
    <3>1. ASSUME NEW h \in Hook
          PROVE  /\ \A i, j \in DOMAIN plugin_slots'[h] :
                      i < j => plugin_slots'[h][i] < plugin_slots'[h][j]
                 /\ ToSet(plugin_slots'[h]) = {n \in DOMAIN data' : h \in HooksOf[plugins'[n]]}
      <4>1. /\ plugin_slots'[h] \in Seq(1 .. Len(plugins)) /\ Ascending(plugin_slots'[h])
            /\ ToSet(plugin_slots'[h]) = {n \in DOMAIN data' : Calls(n, h)}
        BY <2>5
      <4>2. DOMAIN plugin_slots'[h] = 1 .. Len(plugin_slots'[h])
        BY <4>1, LenProperties
      <4>3. {n \in DOMAIN data' : Calls(n, h)} = {n \in DOMAIN data' : h \in HooksOf[plugins'[n]]}
        BY <2>2 DEF Calls
      <4> QED
        BY <4>1, <4>2, <4>3 DEF Ascending
    <3> QED
      BY <3>1 DEF SlotsInLoadOrder, Calls
  <2>7. PluginsTypeOK'
    <3>1. plugin_slots' \in [Hook -> Seq(1 .. Len(plugins'))]
      BY <2>2, <2>5
    <3> QED
      BY <2>2, <2>4, <3>1, PluginTypes DEF PluginsTypeOK
  <2>8. /\ pc' = (IF "init" \in refused' THEN "godown" ELSE "init")
        /\ outcome' # "stopped" /\ next' = Len(data') + 1 /\ next' \in Nat \ {0}
    BY <1>0, <2>1, <2>4 DEF Goto
  <2>9. PluginsLoaded' /\ CleanedUp'
    BY <1>0, <2>2, <2>8 DEF PluginsLoaded, CleanedUp
  <2>10. PluginsReady'
    <3>1. Len(data') <= Len(plugins')
      BY <1>0, <2>2, <2>3, <2>4
    <3>2. ASSUME "init" \notin refused'
          PROVE  "set_defaults" \notin refused' /\ \A i \in 1 .. Len(data') : data'[i] # "failed"
      <4>1. answer = "ready" /\ refused' = refused
        BY <2>2, <3>2
      <4>2. d # "failed"
        BY <4>1 DEF d
      <4>3. ASSUME NEW i \in 1 .. Len(data') PROVE data'[i] # "failed"
        <5>1. i \in 1 .. Len(data) \/ i = Len(data) + 1
          BY <1>0, <2>4
        <5> QED
          BY <5>1, <4>2, <2>4, <1>0
      <4> QED
        BY <1>0, <4>1, <4>3
    <3> QED
      BY <2>8, <3>1, <3>2 DEF PluginsReady, Uninitialised, Initialised
  <2> QED
    BY <1>0, <2>6, <2>7, <2>8, <2>9, <2>10 DEF PluginInv
<1> QED
  BY <1>0, <1>1, <1>2, <1>3 DEF InitPlugin

\* From daemonize() on the plugins stay as they are, but for the calls of a hook
\* and the ways out.
LEMMA ServingPlugins ==
  ASSUME PluginInv, Daemonize \/ OpenErrorLog \/ Keys \/ Cycle \/ Signal \/ Renamed
  PROVE  PluginInv'
<1>0. /\ pc \in Initialised /\ pc' \in Initialised \cup {"godown", "preflight", "ended"}
      /\ conf' = conf /\ next' = next /\ next \in Nat \ {0} /\ UNCHANGED pluginvars
      /\ pc' # "ended" => outcome' = outcome
      /\ pc' = "ended" => outcome' = "refused"
  BY PluginTypes DEF Daemonize, OpenErrorLog, Keys, Cycle, Signal, Renamed, Goto, Ends, mainvars,
     Initialised
<1>1. CASE pc' = "ended"
  BY <1>0, <1>1, EndedPlugins DEF Initialised
<1>2. CASE pc' # "ended"
  BY <1>0, <1>2, PassedPlugins DEF Uninitialised, Initialised
<1> QED
  BY <1>1, <1>2

LEMMA LeavingPlugins ==
  ASSUME PluginInv, GoesDown \/ Preflight \/ Register
  PROVE  PluginInv'
<1>0. /\ pc \in {"godown", "preflight", "register"}
      /\ conf' = conf /\ next' = next /\ next \in Nat \ {0}
  BY PluginTypes DEF GoesDown, Preflight, Register
<1>1. CASE pc' = "ended"
  <2>1. outcome' \in {"refused", "preflight"} /\ (FreePlugins \/ UNCHANGED pluginvars)
    BY <1>1, <1>0 DEF GoesDown, Preflight, Register, GoDown, Goto, Ends
  <2> QED
    BY <1>0, <1>1, <2>1, EndedPlugins
<1>2. CASE pc' # "ended"
  <2>1. pc = "register" /\ pc' = "loop" /\ UNCHANGED <<pluginvars, outcome>>
    BY <1>2, <1>0 DEF GoesDown, Preflight, Register, GoDown, Goto, Ends
  <2> QED
    BY <1>0, <2>1, PassedPlugins DEF Uninitialised, Initialised
<1> QED
  BY <1>1, <1>2

\* A call of a hook changes no more than what was refused; main() goes on after
\* refused defaults only to the way out.
LEMMA CalledPlugins ==
  ASSUME PluginInv, NEW h \in {"set_defaults", "handle_sighup", "handle_trigger"}, NEW k, Call(h, k),
         UNCHANGED <<conf, next, outcome>>,
         pc \in Initialised, pc' \in Initialised \cup {"godown"},
         h = "set_defaults" /\ h \in refused' => pc' = "godown"
  PROVE  PluginInv'
<1>1. /\ UNCHANGED <<plugins, plugin_slots, data, cleaned>>
      /\ refused' = refused \/ refused' = refused \cup {h}
      /\ h \in Hook
  BY PluginsAssumption DEF Call
<1>2. PluginsTypeOK' /\ SlotsInLoadOrder'
  BY <1>1 DEF PluginInv, PluginsTypeOK, SlotsInLoadOrder, Calls
<1>3. PluginsLoaded' /\ CleanedUp'
  BY <1>1 DEF PluginInv, PluginsLoaded, CleanedUp, Initialised
<1>4. PluginsReady'
  BY <1>1 DEF PluginInv, PluginsReady, Uninitialised, Initialised
<1> QED
  BY <1>2, <1>3, <1>4 DEF PluginInv

LEMMA HooksPlugins == ASSUME PluginInv, SetDefaults \/ Hup \/ Trigger PROVE PluginInv'
<1>1. CASE SetDefaults
  <2>1. PICK k : /\ Call("set_defaults", k)
                 /\ Goto(IF "set_defaults" \in refused' THEN "godown" ELSE "keys")
    BY <1>1 DEF SetDefaults
  <2> QED
    BY <1>1, <2>1, CalledPlugins DEF SetDefaults, Goto, Initialised
<1>2. CASE Hup
  <2>1. PICK k : Call("handle_sighup", k)
    BY <1>2 DEF Hup
  <2> QED
    BY <1>2, <2>1, CalledPlugins DEF Hup, Goto, Initialised
<1>3. CASE Trigger
  <2>1. PICK k : Call("handle_trigger", k)
    BY <1>3 DEF Trigger
  <2> QED
    BY <1>3, <2>1, CalledPlugins DEF Trigger, mainvars, Initialised
<1> QED
  BY <1>1, <1>2, <1>3

\* The ordinary stop: every plugin is initialised, so the slot of the cleanup has
\* all that the configuration names and that have one.
LEMMA StopPlugins == ASSUME PluginInv, Stop PROVE PluginInv'
<1>0. /\ pc = "loop" /\ pc' = "ended" /\ conf' = conf /\ next' = next /\ FreePlugins
  BY DEF Stop, Ends
<1>1. /\ PluginsTypeOK' /\ SlotsInLoadOrder' /\ Ascending(cleaned')
      /\ "cleanup" \notin refused' => cleaned' = plugin_slots["cleanup"]
  BY <1>0, PluginsFreed
<1>2. ToSet(plugin_slots["cleanup"])
        = {n \in DOMAIN conf.modules : "cleanup" \in HooksOf[conf.modules[n]]}
  <2>1. /\ "cleanup" \in Hook
        /\ ToSet(plugin_slots["cleanup"]) = {n \in DOMAIN data : Calls(n, "cleanup")}
    BY PluginTypes, PluginsAssumption
  <2>2. DOMAIN data = DOMAIN conf.modules /\ DOMAIN conf.modules = 1 .. Len(plugins)
    BY <1>0, PluginTypes DEF PluginInv, PluginsLoaded, PluginsReady, Initialised
  <2>3. \A i \in DOMAIN conf.modules : plugins[i] = conf.modules[i]
    BY <1>0, <2>2 DEF PluginInv, PluginsLoaded
  <2> QED
    BY <2>1, <2>2, <2>3 DEF Calls
<1>3. CleanedUp'
  BY <1>0, <1>1, <1>2 DEF CleanedUp
<1>4. PluginsLoaded' /\ PluginsReady'
  BY <1>0 DEF PluginsLoaded, PluginsReady, Uninitialised, Initialised
<1> QED
  BY <1>0, <1>1, <1>3, <1>4 DEF PluginInv

LEMMA PluginInvInit == Init => PluginInv
<1> SUFFICES ASSUME Init PROVE PluginInv
  OBVIOUS
<1>0. /\ pc = "options" /\ next = 1 /\ outcome # "stopped" /\ conf \in Configs
      /\ plugins = <<>> /\ plugin_slots = NoSlots /\ data = <<>> /\ refused = {} /\ cleaned = <<>>
  BY DEF Init, PluginsInit
<1>1. conf.modules \in Seq(DOMAIN HooksOf) /\ Len(conf.modules) \in Nat
  <2>1. conf.modules \in Seq(DOMAIN HooksOf)
    BY <1>0, ConfigsAssumption
  <2> QED
    BY <2>1, LenProperties
<1>2. PluginsTypeOK
  <2>1. /\ plugins \in Seq(DOMAIN HooksOf) /\ data \in Seq({"none", "ready", "failed"})
        /\ cleaned \in Seq(Nat)
    BY <1>0, EmptySeq
  <2>2. plugin_slots \in [Hook -> Seq(1 .. Len(plugins))]
    BY <1>0, EmptySeq DEF NoSlots
  <2> QED
    BY <1>0, <2>1, <2>2 DEF PluginsTypeOK
<1>3. SlotsInLoadOrder
  <2>1. \A h \in Hook : plugin_slots[h] = <<>>
    BY <1>0 DEF NoSlots
  <2>2. DOMAIN (<<>>) = {}
    OBVIOUS
  <2> QED
    BY <1>0, <2>1, <2>2 DEF SlotsInLoadOrder, ToSet
<1>4. PluginsLoaded
  <2>1. Len(plugins) = 0
    BY <1>0, EmptySeq
  <2> QED
    BY <1>0, <1>1, <2>1 DEF PluginsLoaded
<1>5. PluginsReady /\ CleanedUp
  BY <1>0 DEF PluginsReady, CleanedUp, Uninitialised, Initialised
<1> QED
  BY <1>0, <1>2, <1>3, <1>4, <1>5 DEF PluginInv

LEMMA PluginInvNext == PluginInv /\ [Next]_vars => PluginInv'
<1> SUFFICES ASSUME PluginInv, [Next]_vars PROVE PluginInv'
  OBVIOUS
<1>1. CASE Options \/ Load \/ PidFile \/ Limits \/ Names
  BY <1>1, OptionsPlugins, LoadPlugins, PreparePlugins
<1>2. CASE BindHost \/ Backend \/ Sockets \/ Privileges \/ Conns \/ InitPlugin
  BY <1>2, NetworkPlugins, PreparePlugins, InitPluginPlugins
<1>3. CASE Daemonize \/ OpenErrorLog \/ Keys \/ Cycle \/ Signal \/ Renamed
  BY <1>3, ServingPlugins
<1>4. CASE GoesDown \/ Preflight \/ Register
  BY <1>4, LeavingPlugins
<1>5. CASE SetDefaults \/ Hup \/ Trigger \/ Stop
  BY <1>5, HooksPlugins, StopPlugins
<1>6. CASE UNCHANGED vars
  <2>1. UNCHANGED <<conf, pluginvars, pc, next, outcome>>
    BY <1>6 DEF vars, mainvars
  <2>2. PluginsTypeOK' /\ SlotsInLoadOrder' /\ conf' \in Configs
    BY <2>1, PluginsSame
  <2> QED
    BY <2>1, <2>2 DEF PluginInv, PluginsLoaded, PluginsReady, CleanedUp, pluginvars
<1> QED
  BY <1>1, <1>2, <1>3, <1>4, <1>5, <1>6 DEF Next

\* PluginInv holds in every state, for every configuration and whatever the
\* plugins answer.
THEOREM PluginInvariance == Spec => []PluginInv
BY PluginInvInit, PluginInvNext, PTL DEF Spec

\* A server that serves has all its plugins, initialised and with their defaults
\* accepted, each in the slots of its functions and in the order of the
\* configuration, for every configuration and whatever the plugins answer.
THEOREM PluginsCorrect == Spec => []ServesWithPluginsReady
<1>1. PluginInv => ServesWithPluginsReady
  <2> SUFFICES ASSUME PluginInv PROVE ServesWithPluginsReady
    OBVIOUS
  <2>1. DOMAIN data = 1 .. Len(data)
    BY PluginTypes
  <2> QED
    BY <2>1 DEF PluginInv, PluginsReady, ServesWithPluginsReady, Serving, Initialised
<1> QED
  BY <1>1, PluginInvariance, PTL

-----------------------------------------------------------------------------
(***************************************************************************)
(* The descriptors.  Log, sockets, pid file and the pipe to the parent     *)
(* share one table of which each knows its own numbers only; that they     *)
(* keep out of each other's way follows from what stands at a number: a    *)
(* descriptor that is opened was closed before, and one that is shut is of *)
(* the kind its owner put there.                                           *)
(***************************************************************************)
Kinds  == {"closed", "terminal", "null", "log", "logpipe", "breakage", "pidfile", "listen", "other"}
Files  == [kind : Kinds, id : Nat]
Tables == [Fds -> Files]

\* Nothing of these kinds is lost from t to r.
Keeps(t, r, K) == \A d \in Fds : t[d].kind \in K => r[d] = t[d]

Typed ==
  /\ conf \in Configs
  /\ files \in Tables
  /\ pc = "options" => files = AtStart

BeforeSockets == {"options", "load", "pidfile", "limits", "names", "network"}
BeforeLog     == Uninitialised \cup {"init", "daemonize", "log"}
BeforeServing == BeforeLog \cup {"defaults", "keys"}

SocketsOwned ==
  /\ srv_sockets \in Seq([token : Tokens, fd : Fds \cup {-1}, registered : BOOLEAN])
  /\ \A i \in DOMAIN srv_sockets :
       IF conf.sockets_disabled THEN srv_sockets[i].fd = -1
       ELSE /\ srv_sockets[i].fd \in Fds
            /\ files[srv_sockets[i].fd] = File("listen", srv_sockets[i].token.id)
  /\ \A i, j \in DOMAIN srv_sockets :
       i # j => /\ srv_sockets[i].token # srv_sockets[j].token
                /\ srv_sockets[i].fd # srv_sockets[j].fd \/ conf.sockets_disabled
  /\ pc # "ended" => \A d \in Fds : files[d].kind = "listen" =>
                       \E i \in DOMAIN srv_sockets : srv_sockets[i].fd = d
  /\ pc \in BeforeSockets => srv_sockets = <<>>
  /\ conf.preflight_check => quiet

LogOwned ==
  /\ errorlog_fd \in Fds \cup {-1} /\ generation \in Nat /\ stale \in BOOLEAN
  /\ LogHasItsDescriptor
  /\ errorlog_mode = "SYSLOG" => errorlog_fd = STDERR_FILENO
  /\ errorlog_mode = "FILE" /\ errorlog_fd # -1 =>
       /\ files[errorlog_fd].id <= generation
       /\ stale <=> files[errorlog_fd].id < generation
  /\ errorlog_mode = "FILE" /\ pc \notin {"godown", "ended"} => conf.errorlog_file # "pipe"
  /\ pc \in BeforeLog =>
       /\ errorlog_mode = "FD" /\ errorlog_fd = STDERR_FILENO /\ ~stale
       /\ files[STDERR_FILENO] = File("terminal", 0)

FilesHeld ==
  /\ {pid_fd, parent_pipe_fd} \subseteq Fds \cup {-1}
  /\ pid_fd # -1 => files[pid_fd].kind = "pidfile"
  /\ pc \in BeforeServing /\ parent_pipe_fd # -1 => files[parent_pipe_fd].kind = "other"

TableInv == Typed /\ SocketsOwned /\ LogOwned /\ FilesHeld

\* open() and its like give a number that was closed.
LEMMA LowestIsFree ==
  ASSUME NEW t \in Tables, HasRoom(t)
  PROVE  Lowest(t) \in Fds /\ t[Lowest(t)] = Closed
<1>1. Free(t) \subseteq Nat /\ Free(t) # {}
  BY DescriptorsAssumption DEF Free, HasRoom, Fds
<1>2. PICK x \in Free(t) : \A y \in Free(t) : x <= y
  BY <1>1, LeastExists
<1>3. Min(Free(t)) \in Free(t)
  BY <1>2 DEF Min
<1> QED
  BY <1>3 DEF Lowest, Free

LEMMA OpenedTable ==
  ASSUME NEW t \in Tables, HasRoom(t), NEW f \in Files
  PROVE  /\ Opened(t, f) \in Tables
         /\ \A d \in Fds : Opened(t, f)[d] = IF d = Lowest(t) THEN f ELSE t[d]
BY LowestIsFree DEF Opened, Tables

LEMMA ShutTable ==
  ASSUME NEW t \in Tables, NEW n
  PROVE  /\ Shut(t, n) \in Tables
         /\ \A d \in Fds : Shut(t, n)[d] = IF d = n THEN Closed ELSE t[d]
<1>1. Closed \in Files
  BY DEF Closed, File, Files, Kinds
<1> QED
  BY <1>1 DEF Shut, Tables

\* openDevNull touches the descriptor it is called for, and no other.
LEMMA DevNullTable ==
  ASSUME NEW t \in Tables, NEW fd \in Fds
  PROVE  /\ DevNull(t, fd) \in Tables
         /\ \A d \in Fds \ {fd} : DevNull(t, fd)[d] = t[d]
         /\ DevNull(t, fd)[fd].kind \in {"closed", "null"}
<1> DEFINE u == Shut(t, fd)  n == Lowest(u)  f == File("null", 0)  s == Opened(u, f)
           v == Dup2(s, n, fd)
<1>1. u \in Tables /\ \A d \in Fds : u[d] = IF d = fd THEN Closed ELSE t[d]
  BY ShutTable
<1>2. HasRoom(u)
  BY <1>1 DEF HasRoom, Free
<1>3. n \in Fds /\ u[n] = Closed
  BY <1>1, <1>2, LowestIsFree
<1>4. f \in Files
  BY DEF File, Files, Kinds
<1>5. s \in Tables /\ \A d \in Fds : s[d] = IF d = n THEN f ELSE u[d]
  BY <1>1, <1>2, <1>4, OpenedTable
<1>6. v \in Tables /\ \A d \in Fds : v[d] = IF d = fd THEN f ELSE s[d]
  <2>1. s[n] = f
    BY <1>3, <1>5
  <2>2. v = [s EXCEPT ![fd] = f]
    BY <2>1 DEF Dup2
  <2> HIDE DEF s, v, f
  <2> QED
    BY <2>2, <1>4, <1>5 DEF Tables
<1>7. DevNull(t, fd) = Shut(v, n)
  BY DEF DevNull
<1>8. Shut(v, n) \in Tables /\ \A d \in Fds : Shut(v, n)[d] = IF d = n THEN Closed ELSE v[d]
  BY <1>6, ShutTable
<1>9. f.kind = "null" /\ Closed.kind = "closed"
  BY DEF File, Closed
<1> HIDE DEF u, n, f, s, v
<1>10. ASSUME NEW d \in Fds \ {fd} PROVE Shut(v, n)[d] = t[d]
  BY <1>1, <1>3, <1>5, <1>6, <1>8
<1>11. Shut(v, n)[fd] \in {Closed, f}
  BY <1>6, <1>8
<1> QED
  BY <1>7, <1>8, <1>9, <1>10, <1>11

\* open_logfile_or_pipe leaves one more descriptor open, whose number was closed,
\* whichever way it is asked for.
LEMMA OpenLogTable ==
  ASSUME NEW t \in Tables, NEW f \in Files, CanOpen(t, f)
  PROVE  /\ OpenLog(t, f).fd \in Fds /\ t[OpenLog(t, f).fd] = Closed
         /\ OpenLog(t, f).files \in Tables
         /\ \A d \in Fds : OpenLog(t, f).files[d] = IF d = OpenLog(t, f).fd THEN f ELSE t[d]
<1>1. HasRoom(t)
  BY DEF CanOpen
<1>2. Lowest(t) \in Fds /\ t[Lowest(t)] = Closed
  BY <1>1, LowestIsFree
<1>3. CASE f.kind # "logpipe"
  <2>1. OpenLog(t, f).files = Opened(t, f) /\ OpenLog(t, f).fd = Lowest(t)
    BY <1>3 DEF OpenLog
  <2> QED
    BY <1>1, <1>2, <2>1, OpenedTable
<1>4. CASE f.kind = "logpipe"
  <2> DEFINE o == File("other", 0)  s == Opened(t, o)  u == Opened(s, f)
  <2>1. o \in Files /\ o # Closed
    BY DEF File, Files, Kinds, Closed
  <2>2. s \in Tables /\ \A d \in Fds : s[d] = IF d = Lowest(t) THEN o ELSE t[d]
    BY <1>1, <2>1, OpenedTable
  <2>3. HasRoom(s)
    BY <1>4 DEF CanOpen
  <2>4. Lowest(s) \in Fds /\ s[Lowest(s)] = Closed
    BY <2>2, <2>3, LowestIsFree
  <2>5. u \in Tables /\ \A d \in Fds : u[d] = IF d = Lowest(s) THEN f ELSE s[d]
    BY <2>2, <2>3, OpenedTable
  <2>6. Shut(u, Lowest(t)) \in Tables
        /\ \A d \in Fds : Shut(u, Lowest(t))[d] = IF d = Lowest(t) THEN Closed ELSE u[d]
    BY <2>5, ShutTable
  <2>7. OpenLog(t, f).files = Shut(u, Lowest(t)) /\ OpenLog(t, f).fd = Lowest(s)
    BY <1>4 DEF OpenLog
  <2> HIDE DEF o, s, u
  <2>8. Lowest(s) # Lowest(t) /\ t[Lowest(s)] = Closed
    BY <1>2, <2>1, <2>2, <2>4
  <2> QED
    BY <1>2, <2>2, <2>4, <2>5, <2>6, <2>7, <2>8
<1> QED
  BY <1>3, <1>4

\* The breakage log is opened and takes the place of standard error.
LEMMA RedirectedTable ==
  ASSUME NEW t \in Tables, HasRoom(t), t[STDERR_FILENO] # Closed, NEW f \in Files
  PROVE  LET r == Shut(Dup2(Opened(t, f), Lowest(t), STDERR_FILENO), Lowest(t))
         IN  /\ r \in Tables
             /\ \A d \in Fds : r[d] = IF d = STDERR_FILENO THEN f ELSE t[d]
<1> DEFINE n == Lowest(t)  s == Opened(t, f)  v == Dup2(s, n, STDERR_FILENO)
<1>0. STDERR_FILENO \in Fds
  BY DescriptorsAssumption DEF STDERR_FILENO, Fds
<1>1. n \in Fds /\ t[n] = Closed
  BY LowestIsFree
<1>2. s \in Tables /\ \A d \in Fds : s[d] = IF d = n THEN f ELSE t[d]
  BY OpenedTable
<1>3. v \in Tables /\ \A d \in Fds : v[d] = IF d = STDERR_FILENO THEN f ELSE s[d]
  <2>1. v = [s EXCEPT ![STDERR_FILENO] = f]
    BY <1>1, <1>2 DEF Dup2
  <2> HIDE DEF s, v
  <2> QED
    BY <1>0, <1>2, <2>1 DEF Tables
<1>4. Shut(v, n) \in Tables /\ \A d \in Fds : Shut(v, n)[d] = IF d = n THEN Closed ELSE v[d]
  BY <1>3, ShutTable
<1> HIDE DEF n, s, v
<1>5. n # STDERR_FILENO
  BY <1>1
<1>6. \A d \in Fds : Shut(v, n)[d] = IF d = STDERR_FILENO THEN f ELSE t[d]
  BY <1>1, <1>2, <1>3, <1>4, <1>5
<1> QED
  BY <1>4, <1>6 DEF n, s, v

LEMMA ModeCases ==
  ASSUME conf \in Configs
  PROVE  /\ Mode \in {"SYSLOG", "FD", "PIPE", "FILE"}
         /\ Mode = "PIPE" => conf.errorlog_file = "pipe"
         /\ Mode = "FILE" => conf.errorlog_file # "pipe"
BY DEF Mode

LEMMA LogFileCases ==
  ASSUME generation \in Nat
  PROVE  /\ LogFile \in Files
         /\ conf.errorlog_file = "pipe" => LogFile.kind = "logpipe"
         /\ conf.errorlog_file # "pipe" => LogFile.kind = "log" /\ LogFile.id = generation
BY DEF LogFile, File, Files, Kinds

\* The descriptor that is chosen for the log.
LEMMA ChosenTable ==
  ASSUME Typed, LogOwned, RoomForLog
  PROVE  /\ Chosen.fd \in Fds /\ Chosen.files \in Tables
         /\ Opens => /\ files[Chosen.fd] = Closed
                     /\ \A d \in Fds : Chosen.files[d] = IF d = Chosen.fd THEN LogFile ELSE files[d]
         /\ ~Opens => Chosen.files = files /\ Chosen.fd = STDERR_FILENO
<1>1. CASE Opens
  <2>1. LogFile \in Files
    BY LogFileCases DEF LogOwned
  <2>2. CanOpen(files, LogFile) /\ files \in Tables
    BY <1>1 DEF RoomForLog, Typed
  <2>3. Chosen = OpenLog(files, LogFile)
    BY <1>1 DEF Chosen
  <2> QED
    BY <1>1, <2>1, <2>2, <2>3, OpenLogTable
<1>2. CASE ~Opens
  <2>1. Chosen.files = files /\ Chosen.fd = STDERR_FILENO
    BY <1>2 DEF Chosen
  <2>2. STDERR_FILENO \in Fds
    BY DescriptorsAssumption DEF STDERR_FILENO, Fds
  <2> QED
    BY <1>2, <2>1, <2>2 DEF Typed
<1> QED
  BY <1>1, <1>2

\* log_error_open as a whole: one descriptor that was closed may become the
\* log's, standard error may change, and nothing else does.
Placed(t, fd) ==
  /\ t \in Tables /\ fd \in Fds \cup {-1}
  /\ \A d \in Fds \ {STDERR_FILENO} :
       IF d = fd
       THEN /\ files[d] = Closed
            /\ t[d] = IF Opens THEN LogFile ELSE File("terminal", 0)
       ELSE t[d] = files[d]
  /\ t[STDERR_FILENO] = File("terminal", 0) \/ t[STDERR_FILENO].kind \in {"breakage", "null", "closed"}
  /\ fd = STDERR_FILENO => ~Opens /\ (Mode = "FD" => t[STDERR_FILENO] = File("terminal", 0))
  /\ Mode = "SYSLOG" => fd = STDERR_FILENO

LEMMA ChosenPlaced ==
  ASSUME Typed, LogOwned, pc = "log", RoomForLog
  PROVE  Placed(Chosen.files, Chosen.fd)
<1>1. STDERR_FILENO \in Fds /\ files[STDERR_FILENO] = File("terminal", 0)
      /\ File("terminal", 0) # Closed
  BY DescriptorsAssumption DEF STDERR_FILENO, Fds, LogOwned, BeforeLog, File, Closed
<1>2. CASE Opens
  <2>1. Mode # "SYSLOG" /\ Chosen.fd # STDERR_FILENO
    BY <1>1, <1>2, ChosenTable DEF Opens
  <2> QED
    BY <1>1, <1>2, <2>1, ChosenTable DEF Placed
<1>3. CASE ~Opens
  BY <1>1, <1>3, ChosenTable DEF Placed
<1> QED
  BY <1>2, <1>3

LEMMA CopiedPlaced ==
  ASSUME Typed, LogOwned, pc = "log", Mode = "FD", HasRoom(files)
  PROVE  /\ Placed(Copied, Lowest(files)) /\ Lowest(files) # STDERR_FILENO
         /\ Copied[STDERR_FILENO] = File("terminal", 0)
<1>1. STDERR_FILENO \in Fds /\ files[STDERR_FILENO] = File("terminal", 0)
      /\ File("terminal", 0) # Closed /\ File("terminal", 0) \in Files
  BY DescriptorsAssumption DEF STDERR_FILENO, Fds, LogOwned, BeforeLog, File, Closed, Files, Kinds
<1>2. Lowest(files) \in Fds /\ files[Lowest(files)] = Closed /\ files \in Tables
  BY LowestIsFree DEF Typed
<1>3. Copied \in Tables
      /\ \A d \in Fds : Copied[d] = IF d = Lowest(files) THEN File("terminal", 0) ELSE files[d]
  BY <1>1, <1>2, OpenedTable DEF Copied
<1> QED
  BY <1>1, <1>2, <1>3 DEF Placed, Opens

LEMMA BreakagePlaced ==
  ASSUME Typed, LogOwned, pc = "log", RoomForLog, RoomForBreakage
  PROVE  Placed(Breakage(Mode, Chosen).files, Breakage(Mode, Chosen).fd)
<1> DEFINE b == Breakage(Mode, Chosen)
<1>1. STDERR_FILENO \in Fds /\ files[STDERR_FILENO] = File("terminal", 0)
      /\ File("terminal", 0) # Closed /\ STDERR_FILENO # -1
  BY DescriptorsAssumption DEF STDERR_FILENO, Fds, LogOwned, BeforeLog, File, Closed
<1>2. Placed(Chosen.files, Chosen.fd)
  BY ChosenPlaced
<1>3. Chosen.files[STDERR_FILENO] = File("terminal", 0) /\ (~Opens => Chosen.fd = STDERR_FILENO)
      /\ (Opens => Chosen.fd # STDERR_FILENO)
  BY <1>1, <1>2, ChosenTable DEF Placed
<1>4. CASE conf.breakagelog_file
  <2> DEFINE f  == File("breakage", 0)
             c  == IF Mode = "FD" THEN Copied ELSE Chosen.files
             fd == IF Mode = "FD" THEN Lowest(files) ELSE Chosen.fd
  <2>1. f \in Files /\ f.kind = "breakage"
    BY DEF File, Files, Kinds
  <2>2. HasRoom(c) /\ Placed(c, fd) /\ c[STDERR_FILENO] = File("terminal", 0) /\ c \in Tables
        /\ (fd = STDERR_FILENO => Mode # "FD")
    <3>1. CASE Mode = "FD"
      BY <1>4, <3>1, CopiedPlaced DEF RoomForBreakage, Placed
    <3>2. CASE Mode # "FD"
      BY <1>2, <1>3, <1>4, <3>2 DEF RoomForBreakage, Placed
    <3> QED
      BY <3>1, <3>2
  <2>3. /\ b.files = Shut(Dup2(Opened(c, f), Lowest(c), STDERR_FILENO), Lowest(c))
        /\ b.fd = fd
    <3>1. CASE Mode = "FD"
      <4>1. Chosen.files = files
        BY <3>1, ChosenTable DEF Opens
      <4> QED
        BY <1>4, <3>1, <4>1 DEF Breakage, Copied
    <3>2. CASE Mode # "FD"
      BY <1>4, <3>2 DEF Breakage
    <3> QED
      BY <3>1, <3>2
  <2> HIDE DEF b, c, f, fd
  <2>4. b.files \in Tables /\ \A d \in Fds : b.files[d] = IF d = STDERR_FILENO THEN f ELSE c[d]
    BY <1>1, <2>1, <2>2, <2>3, RedirectedTable
  <2>5. Placed(b.files, b.fd)
    BY <1>1, <2>1, <2>2, <2>3, <2>4 DEF Placed
  <2> QED
    BY <2>5 DEF b
<1>5. CASE ~conf.breakagelog_file /\ ~conf.dont_daemonize
  <2>1. b.files = DevNull(Chosen.files, STDERR_FILENO)
        /\ b.fd = (IF Mode = "FD" THEN -1 ELSE Chosen.fd)
    BY <1>5 DEF Breakage
  <2> SUFFICES Placed(b.files, b.fd)
    OBVIOUS
  <2> HIDE DEF b
  <2>2. /\ b.files \in Tables
        /\ \A d \in Fds \ {STDERR_FILENO} : b.files[d] = Chosen.files[d]
        /\ b.files[STDERR_FILENO].kind \in {"closed", "null"}
    BY <1>1, <1>2, <2>1, DevNullTable DEF Placed
  <2>3. Mode = "FD" => ~Opens
    BY DEF Opens
  <2>4. CASE Mode = "FD"
    <3>1. b.fd = -1 /\ -1 \notin Fds
      BY <2>1, <2>4, DescriptorsAssumption DEF Fds
    <3> QED
      BY <1>1, <1>2, <1>3, <2>2, <2>3, <2>4, <3>1 DEF Placed
  <2>5. CASE Mode # "FD"
    BY <1>1, <1>2, <1>3, <2>1, <2>2, <2>5 DEF Placed
  <2> QED
    BY <2>4, <2>5
<1>6. CASE ~conf.breakagelog_file /\ conf.dont_daemonize
  <2>1. b = Chosen
    BY <1>6 DEF Breakage
  <2> QED
    BY <1>2, <2>1
<1> QED
  BY <1>4, <1>5, <1>6

-----------------------------------------------------------------------------
\* Opening one more descriptor loses nothing and adds nothing of another kind.
LEMMA OpenedKeeps ==
  ASSUME NEW t \in Tables, HasRoom(t), NEW f \in Files
  PROVE  /\ Keeps(t, Opened(t, f), Kinds \ {"closed"})
         /\ Keeps(Opened(t, f), t, Kinds \ {f.kind})
         /\ Opened(t, f) \in Tables
<1>1. Closed.kind = "closed"
  BY DEF Closed, File
<1> QED
  BY <1>1, LowestIsFree, OpenedTable DEF Keeps

LEMMA ShutKeeps ==
  ASSUME NEW t \in Tables, NEW n, NEW k, n \in Fds => t[n].kind = k
  PROVE  /\ Keeps(t, Shut(t, n), Kinds \ {k})
         /\ Keeps(Shut(t, n), t, Kinds \ {"closed"})
         /\ Shut(t, n) \in Tables
<1>1. Closed.kind = "closed"
  BY DEF Closed, File
<1> QED
  BY <1>1, ShutTable DEF Keeps

LEMMA KeepsFewer ==
  ASSUME NEW t, NEW r, NEW K, NEW L \in SUBSET K, Keeps(t, r, K)
  PROVE  Keeps(t, r, L)
BY DEF Keeps

\* A step keeps what is said of the sockets when no listening descriptor comes
\* or goes, and likewise for the log and for the other two.
LEMMA SocketsFrame ==
  ASSUME SocketsOwned, UNCHANGED <<conf, srv_sockets, quiet>>,
         Keeps(files, files', {"listen"}), Keeps(files', files, {"listen"}),
         pc # "ended", pc' \in BeforeSockets => pc \in BeforeSockets
  PROVE  SocketsOwned'
<1>1. \A i \in DOMAIN srv_sockets : ~conf.sockets_disabled =>
        files'[srv_sockets[i].fd] = files[srv_sockets[i].fd]
  <2> SUFFICES ASSUME NEW i \in DOMAIN srv_sockets, ~conf.sockets_disabled
               PROVE  files'[srv_sockets[i].fd] = files[srv_sockets[i].fd]
    OBVIOUS
  <2>1. srv_sockets[i].fd \in Fds
        /\ files[srv_sockets[i].fd] = File("listen", srv_sockets[i].token.id)
    BY DEF SocketsOwned
  <2>2. files[srv_sockets[i].fd].kind = "listen"
    BY <2>1 DEF File
  <2> QED
    BY <2>1, <2>2 DEF Keeps
<1>2. \A d \in Fds : files'[d].kind = "listen" => files[d].kind = "listen"
  BY DEF Keeps
<1> QED
  BY <1>1, <1>2 DEF SocketsOwned

LEMMA LogFrame ==
  ASSUME LogOwned, UNCHANGED <<conf, errorlog_fd, errorlog_mode, generation, stale>>,
         Keeps(files, files', {"terminal", "log", "logpipe"}),
         Keeps(files', files, {"log", "logpipe"}),
         pc' \in BeforeLog => pc \in BeforeLog,
         pc' \notin {"godown", "ended"} => pc \notin {"godown", "ended"}
  PROVE  LogOwned'
<1>1. STDERR_FILENO \in Fds /\ File("terminal", 0).kind = "terminal"
  BY DescriptorsAssumption DEF STDERR_FILENO, Fds, File
<1>2. LogHasItsDescriptor'
  <2>1. errorlog_mode # "SYSLOG" /\ errorlog_fd # -1 => files'[errorlog_fd] = files[errorlog_fd]
    BY DEF LogOwned, LogHasItsDescriptor, Keeps
  <2>2. \A d \in Fds \ {STDERR_FILENO} : files'[d].kind \in {"log", "logpipe"} => d = errorlog_fd
    BY DEF LogOwned, LogHasItsDescriptor, Keeps
  <2> QED
    BY <2>1, <2>2 DEF LogOwned, LogHasItsDescriptor
<1>3. errorlog_mode = "FILE" /\ errorlog_fd # -1 => files'[errorlog_fd] = files[errorlog_fd]
  BY DEF LogOwned, LogHasItsDescriptor, Keeps
<1>4. pc' \in BeforeLog => files'[STDERR_FILENO] = File("terminal", 0)
  BY <1>1 DEF LogOwned, Keeps
<1>5. /\ errorlog_fd' \in Fds \cup {-1} /\ generation' \in Nat /\ stale' \in BOOLEAN
      /\ errorlog_mode' = "SYSLOG" => errorlog_fd' = STDERR_FILENO
  BY DEF LogOwned
<1>6. errorlog_mode' = "FILE" /\ errorlog_fd' # -1 =>
       /\ files'[errorlog_fd'].id <= generation'
       /\ stale' <=> files'[errorlog_fd'].id < generation'
  BY <1>3 DEF LogOwned
<1>7. errorlog_mode' = "FILE" /\ pc' \notin {"godown", "ended"} => conf'.errorlog_file # "pipe"
  BY DEF LogOwned
<1>8. pc' \in BeforeLog =>
       /\ errorlog_mode' = "FD" /\ errorlog_fd' = STDERR_FILENO /\ ~stale'
       /\ files'[STDERR_FILENO] = File("terminal", 0)
  BY <1>4 DEF LogOwned
<1> QED
  BY <1>2, <1>5, <1>6, <1>7, <1>8 DEF LogOwned

LEMMA HeldFrame ==
  ASSUME FilesHeld, UNCHANGED <<pid_fd, parent_pipe_fd>>,
         Keeps(files, files', {"pidfile", "other"}),
         pc' \in BeforeServing => pc \in BeforeServing
  PROVE  FilesHeld'
<1>1. pid_fd # -1 => files'[pid_fd] = files[pid_fd]
  BY DEF FilesHeld, Keeps
<1>2. pc \in BeforeServing /\ parent_pipe_fd # -1 => files'[parent_pipe_fd] = files[parent_pipe_fd]
  BY DEF FilesHeld, Keeps
<1> QED
  BY <1>1, <1>2 DEF FilesHeld

\* Steps that leave the table and what is known of it alone.
LEMMA TableFrame ==
  ASSUME TableInv, UNCHANGED <<conf, logvars, srv_sockets, quiet, pid_fd, parent_pipe_fd>>,
         pc # "ended", pc' = "options" => pc = "options",
         pc' \in BeforeSockets => pc \in BeforeSockets,
         pc' \in BeforeLog => pc \in BeforeLog,
         pc' \in BeforeServing => pc \in BeforeServing,
         pc' \notin {"godown", "ended"} => pc \notin {"godown", "ended"}
  PROVE  TableInv'
<1>1. files' = files /\ UNCHANGED <<errorlog_fd, errorlog_mode, generation, stale>>
  BY DEF logvars
<1>2. \A K : Keeps(files, files', K) /\ Keeps(files', files, K)
  BY <1>1 DEF Keeps
<1> QED
  BY <1>1, <1>2, SocketsFrame, LogFrame, HeldFrame DEF TableInv, Typed

\* main() goes from one stage to a later one, or round the loop.
Onward ==
  /\ pc # "ended"
  /\ pc' = "options" => pc = "options"
  /\ pc' \in BeforeSockets => pc \in BeforeSockets
  /\ pc' \in BeforeLog => pc \in BeforeLog
  /\ pc' \in BeforeServing => pc \in BeforeServing
  /\ pc' \notin {"godown", "ended"} => pc \notin {"godown", "ended"}

LEMMA StepsOnward == ASSUME Next PROVE Onward
<1> USE DEF Onward, BeforeSockets, BeforeLog, BeforeServing, Uninitialised, Goto, Ends
<1>1. CASE Options \/ Load \/ PidFile \/ Limits \/ Names
  BY <1>1 DEF Options, Load, PidFile, Limits, Names
<1>2. CASE BindHost \/ Backend \/ Sockets \/ Privileges \/ Conns
  BY <1>2 DEF BindHost, Backend, Sockets, Privileges, Conns, NetworkFails, Crash
<1>3. CASE InitPlugin \/ Daemonize \/ OpenErrorLog
  BY <1>3 DEF InitPlugin, Daemonize, OpenErrorLog
<1>4. CASE GoesDown \/ SetDefaults \/ Keys \/ Preflight \/ Register
  BY <1>4 DEF GoesDown, GoDown, SetDefaults, Keys, Preflight, Register
<1>5. CASE Hup \/ Cycle \/ Trigger \/ Signal \/ Renamed \/ Stop
  BY <1>5 DEF Hup, Cycle, Trigger, Signal, Renamed, Stop, mainvars, flags
<1> QED
  BY <1>1, <1>2, <1>3, <1>4, <1>5 DEF Next

LEMMA StillTable ==
  ASSUME TableInv, Onward, UNCHANGED <<conf, logvars, srv_sockets, quiet, pid_fd, parent_pipe_fd>>
  PROVE  TableInv'
BY TableFrame DEF Onward

LEMMA StillSteps ==
  ASSUME TableInv, Onward,
         \/ Load \/ Limits \/ Names \/ Backend \/ Privileges \/ Conns \/ InitPlugin
         \/ SetDefaults \/ Hup \/ Trigger \/ Signal
  PROVE  TableInv'
<1> USE DEF logvars, logonly, netonly, pidfile, Stays
<1>1. CASE Load \/ Limits \/ Names \/ Backend \/ Privileges \/ Conns
  BY <1>1, StillTable DEF Load, Limits, Names, Backend, Privileges, Conns
<1>2. CASE InitPlugin
  BY <1>2, StillTable DEF InitPlugin
<1>3. CASE SetDefaults \/ Hup \/ Trigger \/ Signal
  BY <1>3, StillTable DEF SetDefaults, Hup, Trigger, Signal, mainvars
<1> QED
  BY <1>1, <1>2, <1>3

\* The table when main() starts, and after the standard descriptors were given up.
LEMMA OptionsTable == ASSUME TableInv, Options, Onward PROVE TableInv'
<1>0. /\ files = AtStart /\ pc = "options" /\ pc' \in {"load", "ended"}
      /\ UNCHANGED <<conf, logonly, netonly, pidfile>>
  BY DEF Options, TableInv, Typed, Goto, Ends
<1>1. CASE UNCHANGED files
  BY <1>0, <1>1, StillTable DEF logvars, logonly, netonly, pidfile
<1>2. CASE files' = DevNull(DevNull(files, STDIN_FILENO), STDOUT_FILENO) /\ pc' = "load"
  <2> DEFINE t == DevNull(files, STDIN_FILENO)
  <2>1. STDIN_FILENO \in Fds /\ STDOUT_FILENO \in Fds /\ STDERR_FILENO \in Fds
        /\ STDIN_FILENO # STDERR_FILENO /\ STDOUT_FILENO # STDERR_FILENO
    BY DescriptorsAssumption DEF STDIN_FILENO, STDOUT_FILENO, STDERR_FILENO, Fds
  <2>2. files \in Tables /\ \A d \in Fds : files[d].kind \in {"terminal", "closed"}
    BY <1>0 DEF TableInv, Typed, AtStart, File, Closed
  <2>3. /\ t \in Tables /\ \A d \in Fds \ {STDIN_FILENO} : t[d] = files[d]
        /\ t[STDIN_FILENO].kind \in {"closed", "null"}
    BY <2>1, <2>2, DevNullTable
  <2>4. /\ files' \in Tables /\ \A d \in Fds \ {STDOUT_FILENO} : files'[d] = t[d]
        /\ files'[STDOUT_FILENO].kind \in {"closed", "null"}
    BY <1>2, <2>1, <2>3, DevNullTable
  <2> HIDE DEF t
  <2>5. /\ \A d \in Fds : files'[d].kind \in {"terminal", "closed", "null"}
        /\ files'[STDERR_FILENO] = files[STDERR_FILENO]
    BY <2>1, <2>2, <2>3, <2>4
  <2>6. /\ Keeps(files, files', {"listen"}) /\ Keeps(files', files, {"listen"})
        /\ Keeps(files, files', {"pidfile", "other"})
    BY <2>2, <2>5 DEF Keeps
  <2>7. SocketsOwned' /\ FilesHeld'
    BY <1>0, <2>6, SocketsFrame, HeldFrame DEF TableInv, Onward, netonly, pidfile
  <2>8. LogOwned'
    <3>1. /\ errorlog_mode = "FD" /\ errorlog_fd = STDERR_FILENO /\ ~stale
          /\ files[STDERR_FILENO] = File("terminal", 0)
      BY <1>0 DEF TableInv, LogOwned, BeforeLog, Uninitialised
    <3>2. LogHasItsDescriptor'
      BY <1>0, <2>1, <2>5, <3>1 DEF LogHasItsDescriptor, File, logonly
    <3> QED
      BY <1>0, <2>5, <3>1, <3>2 DEF TableInv, LogOwned, logonly
  <2> QED
    BY <1>0, <1>2, <2>4, <2>7, <2>8 DEF TableInv, Typed
<1> QED
  BY <1>1, <1>2 DEF Options, Goto

LEMMA PidFileTable == ASSUME TableInv, PidFile, Onward PROVE TableInv'
<1>0. pc = "pidfile" /\ UNCHANGED <<conf, logonly, netonly>>
  BY DEF PidFile
<1>1. CASE UNCHANGED <<files, pidfile>>
  BY <1>0, <1>1, StillTable DEF logvars, logonly, netonly, pidfile
<1>2. CASE /\ HasRoom(files) /\ files' = Opened(files, File("pidfile", 0)) /\ pid_fd' = Lowest(files)
           /\ UNCHANGED parent_pipe_fd /\ Goto("limits")
  <2> DEFINE f == File("pidfile", 0)
  <2>1. f \in Files /\ f.kind = "pidfile" /\ files \in Tables
    BY DEF File, Files, Kinds, TableInv, Typed
  <2>2. /\ Keeps(files, files', Kinds \ {"closed"}) /\ Keeps(files', files, Kinds \ {"pidfile"})
        /\ files' \in Tables
    BY <1>2, <2>1, OpenedKeeps
  <2>3. /\ Keeps(files, files', {"listen"}) /\ Keeps(files', files, {"listen"})
        /\ Keeps(files, files', {"terminal", "log", "logpipe"})
        /\ Keeps(files', files, {"log", "logpipe"})
        /\ Keeps(files, files', {"other"})
    BY <2>2 DEF Keeps, Kinds
  <2>4. SocketsOwned'
    BY <1>0, <2>3, SocketsFrame DEF TableInv, Onward, netonly
  <2>5. LogOwned'
    BY <1>0, <2>3, LogFrame DEF TableInv, Onward, logonly
  <2>6. FilesHeld'
    <3>1. pid_fd' \in Fds /\ files'[pid_fd'] = f
      BY <1>2, <2>1, LowestIsFree, OpenedTable
    <3>2. parent_pipe_fd # -1 => files'[parent_pipe_fd] = files[parent_pipe_fd]
      BY <1>0, <2>3 DEF TableInv, FilesHeld, Keeps, BeforeServing, BeforeLog, Uninitialised
    <3> QED
      BY <1>0, <1>2, <2>1, <3>1, <3>2
         DEF TableInv, FilesHeld, BeforeServing, BeforeLog, Uninitialised
  <2> QED
    BY <1>0, <1>2, <2>2, <2>4, <2>5, <2>6 DEF TableInv, Typed, Goto
<1> QED
  BY <1>1, <1>2 DEF PidFile

\* Opening a descriptor that is no listening socket, no log and not the pid file.
LEMMA OtherOpenedTable ==
  ASSUME TableInv, Onward, HasRoom(files), files' = Opened(files, File("other", 0)), pc' # "options",
         UNCHANGED <<conf, logonly, srv_sockets, pidfile>>, conf.preflight_check => quiet'
  PROVE  TableInv'
<1> DEFINE f == File("other", 0)
<1>1. f \in Files /\ f.kind = "other" /\ files \in Tables
  BY DEF File, Files, Kinds, TableInv, Typed
<1>2. /\ Keeps(files, files', Kinds \ {"closed"}) /\ Keeps(files', files, Kinds \ {"other"})
      /\ files' \in Tables
  BY <1>1, OpenedKeeps
<1>3. /\ Keeps(files, files', {"listen"}) /\ Keeps(files', files, {"listen"})
      /\ Keeps(files, files', {"terminal", "log", "logpipe"})
      /\ Keeps(files', files, {"log", "logpipe"})
      /\ Keeps(files, files', {"pidfile", "other"})
  BY <1>2 DEF Keeps, Kinds
<1>4. LogOwned'
  BY <1>3, LogFrame DEF TableInv, Onward, logonly
<1>5. FilesHeld'
  BY <1>3, HeldFrame DEF TableInv, Onward, pidfile
<1>6. SocketsOwned'
  <2>1. \A i \in DOMAIN srv_sockets : ~conf.sockets_disabled =>
          files'[srv_sockets[i].fd] = files[srv_sockets[i].fd]
    <3> SUFFICES ASSUME NEW i \in DOMAIN srv_sockets, ~conf.sockets_disabled
                 PROVE  files'[srv_sockets[i].fd] = files[srv_sockets[i].fd]
      OBVIOUS
    <3>1. srv_sockets[i].fd \in Fds
          /\ files[srv_sockets[i].fd] = File("listen", srv_sockets[i].token.id)
      BY DEF TableInv, SocketsOwned
    <3>2. files[srv_sockets[i].fd].kind = "listen"
      BY <3>1 DEF File
    <3> QED
      BY <1>3, <3>1, <3>2 DEF Keeps
  <2>2. \A d \in Fds : files'[d].kind = "listen" => files[d].kind = "listen"
    BY <1>3 DEF Keeps
  <2> QED
    BY <2>1, <2>2 DEF TableInv, SocketsOwned, Onward
<1> QED
  BY <1>2, <1>4, <1>5, <1>6 DEF TableInv, Typed

\* srv_socket_append: the socket is a new one, and so is its descriptor.
LEMMA AppendedSockets ==
  ASSUME SocketsOwned, files \in Tables, conf' = conf, NEW token \in Tokens,
         \A i \in DOMAIN srv_sockets : srv_sockets[i].token # token,
         Listen(token) \/ AppendDisabled(token),
         pc # "ended", pc' \notin BeforeSockets
  PROVE  SocketsOwned'
<1> DEFINE fd == IF conf.sockets_disabled THEN -1 ELSE Lowest(files)
           s  == ServerSocket(token, fd)
           n  == Len(srv_sockets)
           S  == [token : Tokens, fd : Fds \cup {-1}, registered : BOOLEAN]
<1>1. ~conf.preflight_check /\ srv_sockets' = Append(srv_sockets, s)
  BY DEF Listen, AppendDisabled
<1>2. CASE conf.sockets_disabled
  <2>1. files' = files /\ fd = -1
    BY <1>2 DEF Listen, AppendDisabled
  <2>2. s \in S /\ s.fd = -1 /\ s.token = token
    BY <2>1 DEF ServerSocket
  <2>3. srv_sockets \in Seq(S) /\ n \in Nat /\ DOMAIN srv_sockets = 1 .. n
    BY LenProperties DEF SocketsOwned
  <2> HIDE DEF s, fd
  <2>4. /\ srv_sockets' \in Seq(S) /\ DOMAIN srv_sockets' = 1 .. n + 1
        /\ \A i \in 1 .. n : srv_sockets'[i] = srv_sockets[i]
        /\ srv_sockets'[n + 1] = s
    BY <1>1, <2>2, <2>3, AppendProperties, LenProperties
  <2> HIDE DEF n
  <2>5. \A i \in DOMAIN srv_sockets' : i \in 1 .. n \/ i = n + 1
    BY <2>3, <2>4
  <2>6. \A i \in DOMAIN srv_sockets' : srv_sockets'[i].fd = -1
    BY <1>2, <2>2, <2>3, <2>4, <2>5 DEF SocketsOwned
  <2>7. \A i, j \in DOMAIN srv_sockets' : i # j => srv_sockets'[i].token # srv_sockets'[j].token
    BY <2>2, <2>3, <2>4, <2>5 DEF SocketsOwned
  <2>8. pc # "ended" => \A d \in Fds : files'[d].kind # "listen"
    <3>1. -1 \notin Fds
      BY DescriptorsAssumption DEF Fds
    <3> QED
      BY <1>2, <2>1, <3>1 DEF SocketsOwned
  <2> QED
    BY <1>1, <1>2, <2>4, <2>6, <2>7, <2>8 DEF SocketsOwned
<1>3. CASE ~conf.sockets_disabled
  <2> DEFINE f == File("listen", token.id)
  <2>1. HasRoom(files) /\ files' = Opened(files, f) /\ fd = Lowest(files)
    BY <1>3 DEF Listen, AppendDisabled
  <2>2. fd \in Fds /\ files[fd] = Closed
    BY <2>1, LowestIsFree
  <2>3. s \in S /\ s.fd = fd /\ s.token = token
    BY <2>2 DEF ServerSocket
  <2>4. f \in Files /\ f.kind = "listen" /\ Closed.kind = "closed"
    BY DEF File, Files, Kinds, Tokens, Closed
  <2>5. \A d \in Fds : files'[d] = IF d = fd THEN f ELSE files[d]
    BY <2>1, <2>4, OpenedTable
  <2>6. srv_sockets \in Seq(S) /\ n \in Nat /\ DOMAIN srv_sockets = 1 .. n
    BY LenProperties DEF SocketsOwned
  <2> HIDE DEF s, fd, f
  <2>7. /\ srv_sockets' \in Seq(S) /\ DOMAIN srv_sockets' = 1 .. n + 1
        /\ \A i \in 1 .. n : srv_sockets'[i] = srv_sockets[i]
        /\ srv_sockets'[n + 1] = s
    BY <1>1, <2>3, <2>6, AppendProperties, LenProperties
  <2> HIDE DEF n
  <2>8. \A i \in DOMAIN srv_sockets' : i \in 1 .. n \/ i = n + 1
    BY <2>6, <2>7
  <2>9. \A i \in 1 .. n : /\ srv_sockets[i].fd \in Fds /\ srv_sockets[i].fd # fd
                          /\ files[srv_sockets[i].fd] = File("listen", srv_sockets[i].token.id)
    <3> SUFFICES ASSUME NEW i \in 1 .. n
                 PROVE  /\ srv_sockets[i].fd \in Fds /\ srv_sockets[i].fd # fd
                        /\ files[srv_sockets[i].fd] = File("listen", srv_sockets[i].token.id)
      OBVIOUS
    <3>1. srv_sockets[i].fd \in Fds
          /\ files[srv_sockets[i].fd] = File("listen", srv_sockets[i].token.id)
      BY <1>3, <2>6 DEF SocketsOwned
    <3>2. files[srv_sockets[i].fd].kind = "listen"
      BY <3>1 DEF File
    <3> QED
      BY <2>2, <2>4, <3>1, <3>2
  <2>10. \A i \in DOMAIN srv_sockets' :
           /\ srv_sockets'[i].fd \in Fds
           /\ files'[srv_sockets'[i].fd] = File("listen", srv_sockets'[i].token.id)
    <3>1. \A i \in 1 .. n : /\ srv_sockets'[i].fd \in Fds
                            /\ files'[srv_sockets'[i].fd] = File("listen", srv_sockets'[i].token.id)
      BY <2>5, <2>7, <2>9
    <3>2. files'[s.fd] = File("listen", s.token.id)
      BY <2>2, <2>3, <2>5 DEF f
    <3> QED
      BY <2>2, <2>3, <2>7, <2>8, <3>1, <3>2
  <2>11. \A i, j \in DOMAIN srv_sockets' :
           i # j => /\ srv_sockets'[i].token # srv_sockets'[j].token
                    /\ srv_sockets'[i].fd # srv_sockets'[j].fd
    <3>1. \A i, j \in 1 .. n : i # j => /\ srv_sockets[i].token # srv_sockets[j].token
                                        /\ srv_sockets[i].fd # srv_sockets[j].fd
      BY <1>3, <2>6 DEF SocketsOwned
    <3>2. \A i \in 1 .. n : srv_sockets[i].token # s.token /\ srv_sockets[i].fd # s.fd
      BY <2>3, <2>6, <2>9
    <3> QED
      BY <2>7, <2>8, <3>1, <3>2
  <2>12. \A d \in Fds : files'[d].kind = "listen" => \E i \in DOMAIN srv_sockets' : srv_sockets'[i].fd = d
    <3> SUFFICES ASSUME NEW d \in Fds, files'[d].kind = "listen"
                 PROVE  \E i \in DOMAIN srv_sockets' : srv_sockets'[i].fd = d
      OBVIOUS
    <3>1. CASE d = fd
      <4>1. n + 1 \in DOMAIN srv_sockets' /\ srv_sockets'[n + 1].fd = d
        BY <2>3, <2>6, <2>7, <3>1
      <4> QED
        BY <4>1
    <3>2. CASE d # fd
      <4>1. files[d].kind = "listen"
        BY <2>5, <3>2
      <4>2. PICK i \in 1 .. n : srv_sockets[i].fd = d
        BY <2>6, <4>1 DEF SocketsOwned
      <4>3. i \in DOMAIN srv_sockets' /\ srv_sockets'[i].fd = d
        BY <2>6, <2>7, <4>2
      <4> QED
        BY <4>3
    <3> QED
      BY <3>1, <3>2
  <2>13. \A i \in DOMAIN srv_sockets' :
           IF conf'.sockets_disabled THEN srv_sockets'[i].fd = -1
           ELSE /\ srv_sockets'[i].fd \in Fds
                /\ files'[srv_sockets'[i].fd] = File("listen", srv_sockets'[i].token.id)
    BY <1>3, <2>10
  <2>14. \A i, j \in DOMAIN srv_sockets' :
           i # j => /\ srv_sockets'[i].token # srv_sockets'[j].token
                    /\ srv_sockets'[i].fd # srv_sockets'[j].fd \/ conf'.sockets_disabled
    BY <2>11
  <2>15. /\ pc' \in BeforeSockets => srv_sockets' = <<>>
         /\ conf'.preflight_check => quiet'
    BY <1>1
  <2> QED
    BY <2>7, <2>12, <2>13, <2>14, <2>15 DEF SocketsOwned
<1> QED
  BY <1>2, <1>3

\* network_server_init, for a token that the list does not have yet.
LEMMA ServerInitTable ==
  ASSUME TableInv, Onward, NEW token \in Tokens, NEW err, NetworkServerInit(token, err),
         \A i \in DOMAIN srv_sockets : srv_sockets[i].token # token,
         UNCHANGED <<conf, logonly, pidfile>>, pc' \notin BeforeSockets \cup {"options"}
  PROVE  TableInv'
<1>1. CASE UNCHANGED <<files, srv_sockets, quiet>>
  BY <1>1, StillTable DEF logvars, logonly, pidfile
<1>2. CASE ListenFails(token)
  BY <1>2, OtherOpenedTable DEF ListenFails
<1>3. CASE Listen(token) \/ AppendDisabled(token)
  <2>1. SocketsOwned'
    BY <1>3, AppendedSockets DEF TableInv, Typed, Onward
  <2>2. /\ files' \in Tables
        /\ Keeps(files, files', {"terminal", "log", "logpipe"})
        /\ Keeps(files', files, {"log", "logpipe"})
        /\ Keeps(files, files', {"pidfile", "other"})
    <3>1. CASE Listen(token)
      <4> DEFINE f == File("listen", token.id)
      <4>1. f \in Files /\ f.kind = "listen" /\ files \in Tables
        BY DEF File, Files, Kinds, Tokens, TableInv, Typed
      <4>2. /\ Keeps(files, files', Kinds \ {"closed"}) /\ Keeps(files', files, Kinds \ {"listen"})
            /\ files' \in Tables
        BY <3>1, <4>1, OpenedKeeps DEF Listen
      <4> QED
        BY <4>2 DEF Keeps, Kinds
    <3>2. CASE AppendDisabled(token)
      BY <3>2 DEF AppendDisabled, Keeps, TableInv, Typed
    <3> QED
      BY <1>3, <3>1, <3>2
  <2>3. LogOwned'
    BY <2>2, LogFrame DEF TableInv, Onward, logonly
  <2>4. FilesHeld'
    BY <2>2, HeldFrame DEF TableInv, Onward, pidfile
  <2> QED
    BY <2>1, <2>2, <2>3, <2>4 DEF TableInv, Typed
<1> QED
  BY <1>1, <1>2, <1>3 DEF NetworkServerInit, NothingOpened, SocketFails

LEMMA NetworkTable == ASSUME TableInv, PluginInv, BindHost \/ Sockets, Onward PROVE TableInv'
<1>1. /\ conf.bindhost \in Tokens /\ conf.conditions \in Seq([token : Tokens, socket_eq : BOOLEAN])
      /\ next \in Nat \ {0}
  <2>1. conf \in Configs
    BY DEF PluginInv
  <2>2. conf.bindhost \in Tokens /\ conf.conditions \in Seq([token : Tokens, socket_eq : BOOLEAN])
    BY <2>1, ConfigsAssumption
  <2> QED
    BY <2>2, PluginTypes
<1>2. CASE BindHost
  <2>1. UNCHANGED <<conf, logonly, pidfile>> /\ pc = "network"
    BY <1>2 DEF BindHost
  <2>2. CASE Crash
    BY <2>1, <2>2, StillTable DEF Crash, NothingOpened, logvars, logonly, pidfile
  <2>3. ASSUME NEW err \in Garbage, NetworkServerInit(conf.bindhost, err),
               Goto("backend") \/ NetworkFails
        PROVE  TableInv'
    <3>1. srv_sockets = <<>>
      BY <2>1 DEF TableInv, SocketsOwned, BeforeSockets
    <3>2. \A i \in DOMAIN srv_sockets : srv_sockets[i].token # conf.bindhost
      BY <3>1
    <3>3. pc' \notin BeforeSockets \cup {"options"}
      BY <2>3 DEF Goto, NetworkFails, Ends, BeforeSockets
    <3> QED
      BY <1>1, <2>1, <2>3, <3>2, <3>3, ServerInitTable
  <2> QED
    BY <1>2, <2>2, <2>3 DEF BindHost
<1>3. CASE Sockets
  <2>1. UNCHANGED <<conf, logonly, pidfile>> /\ pc = "sockets"
    BY <1>3 DEF Sockets
  <2>2. CASE NothingOpened
    BY <2>1, <2>2, StillTable DEF NothingOpened, logvars, logonly, pidfile
  <2>3. ASSUME next <= Len(conf.conditions), Wanted(conf.conditions[next]),
               NEW err \in Garbage, NetworkServerInit(conf.conditions[next].token, err),
               Goto("sockets") \/ NetworkFails
        PROVE  TableInv'
    <3>1. next \in 1 .. Len(conf.conditions)
      <4>1. Len(conf.conditions) \in Nat
        BY <1>1, LenProperties
      <4> QED
        BY <1>1, <2>3, <4>1
    <3>2. conf.conditions[next] \in [token : Tokens, socket_eq : BOOLEAN]
      BY <1>1, <3>1, ElementOfSeq
    <3>3. \A i \in DOMAIN srv_sockets : srv_sockets[i].token # conf.conditions[next].token
      BY <2>3 DEF Wanted, Listed
    <3>4. pc' \notin BeforeSockets \cup {"options"}
      BY <2>3 DEF Goto, NetworkFails, Ends, BeforeSockets
    <3> QED
      BY <2>1, <2>3, <3>2, <3>3, <3>4, ServerInitTable
  <2>4. next \in Int /\ Len(conf.conditions) \in Int
    BY <1>1, LenProperties
  <2>5. ~(next > Len(conf.conditions)) => next <= Len(conf.conditions)
    BY <2>4
  <2> QED
    BY <1>3, <2>2, <2>3, <2>5 DEF Sockets, Crash
<1> QED
  BY <1>2, <1>3

\* daemonize() leaves the pipe to the parent.
LEMMA DaemonizeTable == ASSUME TableInv, Daemonize, Onward PROVE TableInv'
<1>0. /\ pc = "daemonize" /\ pc' \in {"log", "ended"}
      /\ UNCHANGED <<conf, logonly, netonly, pid_fd, pid_exists>>
  BY DEF Daemonize, Goto, Ends
<1>1. CASE UNCHANGED <<files, parent_pipe_fd>>
  BY <1>0, <1>1, StillTable DEF logvars, logonly, netonly
<1>2. CASE /\ CanOpen(files, File("logpipe", 0))
           /\ files' = [OpenLog(files, File("logpipe", 0)).files EXCEPT
                          ![OpenLog(files, File("logpipe", 0)).fd] = File("other", 0)]
           /\ parent_pipe_fd' = OpenLog(files, File("logpipe", 0)).fd
  <2> DEFINE g == File("logpipe", 0)  f == File("other", 0)
             t == OpenLog(files, g).files  n == OpenLog(files, g).fd
  <2>1. /\ f \in Files /\ g \in Files /\ f.kind = "other" /\ Closed.kind = "closed"
        /\ files \in Tables
    BY DEF File, Files, Kinds, TableInv, Typed, Closed
  <2>2. /\ n \in Fds /\ files[n] = Closed /\ t \in Tables
        /\ \A d \in Fds : t[d] = IF d = n THEN g ELSE files[d]
    BY <1>2, <2>1, OpenLogTable
  <2>3. files' = [t EXCEPT ![n] = f] /\ parent_pipe_fd' = n
    BY <1>2
  <2> HIDE DEF g, f, t, n
  <2>4. files' \in Tables /\ \A d \in Fds : files'[d] = IF d = n THEN f ELSE files[d]
    BY <2>1, <2>2, <2>3 DEF Tables
  <2>5. /\ Keeps(files, files', {"listen"}) /\ Keeps(files', files, {"listen"})
        /\ Keeps(files, files', {"terminal", "log", "logpipe"})
        /\ Keeps(files', files, {"log", "logpipe"})
        /\ Keeps(files, files', {"pidfile"})
    BY <2>1, <2>2, <2>4 DEF Keeps
  <2>6. SocketsOwned'
    BY <1>0, <2>5, SocketsFrame DEF TableInv, Onward, netonly
  <2>7. LogOwned'
    BY <1>0, <2>5, LogFrame DEF TableInv, Onward, logonly
  <2>8. FilesHeld'
    <3>1. pid_fd # -1 => files'[pid_fd].kind = "pidfile"
      BY <2>5 DEF TableInv, FilesHeld, Keeps
    <3>2. files'[parent_pipe_fd'].kind = "other"
      BY <2>1, <2>2, <2>3, <2>4
    <3> QED
      BY <1>0, <2>2, <2>3, <3>1, <3>2 DEF TableInv, FilesHeld
  <2> QED
    BY <1>0, <2>4, <2>6, <2>7, <2>8 DEF TableInv, Typed
<1> QED
  BY <1>1, <1>2 DEF Daemonize

\* The log has been opened, or as far as it could be.
LEMMA PlacedTable ==
  ASSUME TableInv, Onward, pc = "log", pc' \notin BeforeLog,
         Placed(files', errorlog_fd'), errorlog_mode' = Mode, stale' = FALSE,
         UNCHANGED <<conf, generation, netonly, pidfile>>
  PROVE  TableInv'
<1>1. /\ errorlog_fd = STDERR_FILENO /\ ~stale /\ STDERR_FILENO \in Fds /\ STDERR_FILENO # -1
      /\ files[STDERR_FILENO] = File("terminal", 0) /\ generation \in Nat /\ conf \in Configs
      /\ errorlog_mode = "FD"
  BY DescriptorsAssumption DEF TableInv, Typed, LogOwned, BeforeLog, STDERR_FILENO, Fds
<1>2. /\ File("terminal", 0).kind = "terminal" /\ Closed.kind = "closed"
      /\ LogFile.kind \in {"log", "logpipe"}
      /\ Mode = "FILE" => LogFile.id = generation
  BY <1>1, LogFileCases, ModeCases DEF File, Closed
<1>3. /\ files' \in Tables /\ errorlog_fd' \in Fds \cup {-1}
      /\ \A d \in Fds \ {STDERR_FILENO} :
           IF d = errorlog_fd'
           THEN /\ files[d] = Closed
                /\ files'[d] = IF Opens THEN LogFile ELSE File("terminal", 0)
           ELSE files'[d] = files[d]
      /\ files'[STDERR_FILENO] = File("terminal", 0)
           \/ files'[STDERR_FILENO].kind \in {"breakage", "null", "closed"}
      /\ errorlog_fd' = STDERR_FILENO =>
           ~Opens /\ (Mode = "FD" => files'[STDERR_FILENO] = File("terminal", 0))
      /\ Mode = "SYSLOG" => errorlog_fd' = STDERR_FILENO
  BY DEF Placed
<1>4. /\ Keeps(files, files', {"listen"}) /\ Keeps(files', files, {"listen"})
      /\ Keeps(files, files', {"pidfile", "other"})
  BY <1>1, <1>2, <1>3 DEF Keeps
<1>5. SocketsOwned' /\ FilesHeld'
  BY <1>4, SocketsFrame, HeldFrame DEF TableInv, Onward, netonly, pidfile
<1>6. LogHasItsDescriptor'
  <2>1. ASSUME errorlog_mode' # "SYSLOG", errorlog_fd' # -1
        PROVE  files'[errorlog_fd'].kind \in {"terminal", "log", "logpipe"}
    <3>1. CASE errorlog_fd' = STDERR_FILENO
      <4>1. Mode = "FD"
        BY <1>1, <1>3, <2>1, <3>1, ModeCases DEF Opens
      <4> QED
        BY <1>2, <1>3, <3>1, <4>1
    <3>2. CASE errorlog_fd' # STDERR_FILENO
      BY <1>2, <1>3, <2>1, <3>2
    <3> QED
      BY <3>1, <3>2
  <2>2. ASSUME NEW d \in Fds \ {STDERR_FILENO}, files'[d].kind \in {"log", "logpipe"}
        PROVE  d = errorlog_fd'
    <3>1. files[d].kind \notin {"log", "logpipe"}
      BY <1>1 DEF TableInv, LogOwned, LogHasItsDescriptor
    <3> QED
      BY <1>3, <2>2, <3>1
  <2> QED
    BY <2>1, <2>2 DEF LogHasItsDescriptor
<1>7. errorlog_mode' = "FILE" /\ errorlog_fd' # -1 =>
       /\ files'[errorlog_fd'].id <= generation'
       /\ stale' <=> files'[errorlog_fd'].id < generation'
  <2> SUFFICES ASSUME Mode = "FILE", errorlog_fd' # -1 PROVE files'[errorlog_fd'].id = generation
    BY <1>1
  <2>1. Opens /\ errorlog_fd' # STDERR_FILENO
    BY <1>3 DEF Opens
  <2> QED
    BY <1>2, <1>3, <2>1
<1>8. errorlog_mode' = "FILE" => conf'.errorlog_file # "pipe"
  BY <1>1, ModeCases
<1>9. LogOwned'
  BY <1>1, <1>3, <1>6, <1>7, <1>8 DEF LogOwned
<1> QED
  BY <1>1, <1>3, <1>5, <1>9 DEF TableInv, Typed, BeforeLog, Uninitialised

LEMMA OpenErrorLogTable == ASSUME TableInv, OpenErrorLog, Onward PROVE TableInv'
<1>0. /\ pc = "log" /\ pc' \notin BeforeLog /\ UNCHANGED <<conf, netonly, pidfile>>
      /\ pc' # "options"
  BY DEF OpenErrorLog, Goto, Ends, Onward, BeforeLog, Uninitialised
<1>1. /\ Typed /\ LogOwned /\ files \in Tables /\ conf \in Configs
      /\ ~stale /\ stale \in BOOLEAN /\ errorlog_fd = STDERR_FILENO /\ -1 # STDERR_FILENO
      /\ files[STDERR_FILENO] = File("terminal", 0) /\ errorlog_mode = "FD"
  BY <1>0 DEF TableInv, Typed, LogOwned, BeforeLog, STDERR_FILENO
<1>2. CASE UNCHANGED logvars
  BY <1>0, <1>2, StillTable DEF netonly, pidfile
<1>3. ASSUME NEW r, LogOpen(r) PROVE TableInv'
  <2>1. /\ RoomForLog /\ RoomForBreakage /\ errorlog_mode' = Mode
        /\ errorlog_fd' = Breakage(Mode, Chosen).fd /\ files' = Breakage(Mode, Chosen).files
        /\ stale' = FALSE /\ generation' = generation
    BY <1>3 DEF LogOpen
  <2>2. Placed(files', errorlog_fd')
    BY <1>0, <1>1, <2>1, BreakagePlaced
  <2> QED
    BY <1>0, <2>1, <2>2, PlacedTable
<1>4. CASE LogOpenFails
  <2>0. UNCHANGED <<generation, stale>> /\ stale' = FALSE
    BY <1>1, <1>4 DEF LogOpenFails
  <2>1. CASE Opens /\ errorlog_mode' = "FILE" /\ files' \in OpenLogFailed(files, LogFile)
             /\ errorlog_fd' = -1 /\ pc' = "godown"
    <3> DEFINE f == File("other", 0)  t == Opened(files, f)
    <3>1. f \in Files /\ f.kind = "other"
      BY DEF File, Files, Kinds
    <3>2. files' \in Tables /\ Keeps(files, files', Kinds \ {"closed"})
          /\ Keeps(files', files, Kinds \ {"other"})
      <4>1. CASE files' = files
        BY <1>1, <4>1 DEF Keeps
      <4>2. CASE CanOpen(files, LogFile) /\ LogFile.kind = "logpipe" /\ files' = Opened(t, f)
        <5>1. HasRoom(files) /\ HasRoom(t)
          BY <4>2 DEF CanOpen
        <5>2. t \in Tables /\ Keeps(files, t, Kinds \ {"closed"}) /\ Keeps(t, files, Kinds \ {"other"})
          BY <1>1, <3>1, <5>1, OpenedKeeps
        <5> HIDE DEF t, f
        <5>3. /\ files' \in Tables /\ Keeps(t, files', Kinds \ {"closed"})
              /\ Keeps(files', t, Kinds \ {"other"})
          BY <3>1, <4>2, <5>1, <5>2, OpenedKeeps
        <5> QED
          BY <5>2, <5>3 DEF Keeps
      <4> QED
        BY <2>1, <4>1, <4>2 DEF OpenLogFailed
    <3>3. /\ Keeps(files, files', {"listen"}) /\ Keeps(files', files, {"listen"})
          /\ Keeps(files', files, {"log", "logpipe"})
          /\ Keeps(files, files', {"pidfile", "other"})
      BY <3>2 DEF Keeps, Kinds
    <3>4. SocketsOwned' /\ FilesHeld'
      BY <1>0, <3>3, SocketsFrame, HeldFrame DEF TableInv, Onward, netonly, pidfile
    <3>5. LogHasItsDescriptor'
      <4>1. \A d \in Fds \ {STDERR_FILENO} : files[d].kind \notin {"log", "logpipe"}
        BY <1>1 DEF LogOwned, LogHasItsDescriptor
      <4>2. \A d \in Fds \ {STDERR_FILENO} : files'[d].kind \notin {"log", "logpipe"}
        BY <3>3, <4>1 DEF Keeps
      <4> QED
        BY <2>1, <4>2 DEF LogHasItsDescriptor
    <3>6. LogOwned'
      BY <1>0, <1>1, <2>0, <2>1, <3>5 DEF LogOwned
    <3> QED
      BY <1>0, <1>1, <3>2, <3>4, <3>6 DEF TableInv, Typed
  <2>2. CASE /\ conf.breakagelog_file /\ RoomForLog /\ errorlog_mode' = Mode
             /\ IF Mode # "FD" THEN files' = Chosen.files /\ errorlog_fd' = Chosen.fd
                ELSE IF HasRoom(files) THEN files' = Copied /\ errorlog_fd' = Lowest(files)
                ELSE UNCHANGED files /\ errorlog_fd' = -1
    <3>1. Placed(files', errorlog_fd')
      <4>1. CASE Mode # "FD"
        BY <1>0, <1>1, <2>2, <4>1, ChosenPlaced
      <4>2. CASE Mode = "FD" /\ HasRoom(files)
        BY <1>0, <1>1, <2>2, <4>2, CopiedPlaced
      <4>3. CASE Mode = "FD" /\ ~HasRoom(files)
        <5>1. -1 \notin Fds
          BY DescriptorsAssumption DEF Fds
        <5> QED
          BY <1>1, <2>2, <4>3, <5>1 DEF Placed
      <4> QED
        BY <4>1, <4>2, <4>3
    <3> QED
      BY <1>0, <2>0, <2>2, <3>1, PlacedTable
  <2>3. pc' = "godown" \/ UNCHANGED logvars \/ \E r \in Garbage : LogOpen(r)
    BY DEF OpenErrorLog, Goto, Garbage
  <2> QED
    BY <1>2, <1>3, <1>4, <2>1, <2>2, <2>3 DEF LogOpenFails
<1> QED
  BY <1>2, <1>3, <1>4 DEF OpenErrorLog

\* network_close closes the listening sockets, all of them and nothing else.
LEMMA ClosingTable ==
  ASSUME SocketsOwned, pc # "ended", NEW t \in Tables,
         Keeps(files, t, {"listen"}), Keeps(t, files, {"listen"})
  PROVE  /\ Closing(t) \in Tables
         /\ \A d \in Fds : Closing(t)[d].kind # "listen"
         /\ Keeps(t, Closing(t), Kinds \ {"listen"})
         /\ Keeps(Closing(t), t, Kinds \ {"closed"})
<1>0. Closed \in Files /\ Closed.kind = "closed" /\ -1 \notin Fds
  BY DescriptorsAssumption DEF Closed, File, Files, Kinds, Fds
<1>1. /\ Closing(t) \in Tables
      /\ \A d \in Fds : Closing(t)[d] = IF \E s \in Listed : s.fd = d THEN Closed ELSE t[d]
  BY <1>0 DEF Closing, Tables
<1>2. ASSUME NEW d \in Fds, \E s \in Listed : s.fd = d PROVE t[d].kind = "listen"
  <2>1. PICK i \in DOMAIN srv_sockets : srv_sockets[i].fd = d
    BY <1>2 DEF Listed
  <2>2. files[d] = File("listen", srv_sockets[i].token.id)
    BY <1>0, <2>1 DEF SocketsOwned
  <2>3. files[d].kind = "listen"
    BY <2>2 DEF File
  <2> QED
    BY <2>3 DEF Keeps
<1>3. ASSUME NEW d \in Fds, t[d].kind = "listen" PROVE \E s \in Listed : s.fd = d
  <2>1. files[d].kind = "listen"
    BY <1>3 DEF Keeps
  <2>2. PICK i \in DOMAIN srv_sockets : srv_sockets[i].fd = d
    BY <2>1 DEF SocketsOwned
  <2> QED
    BY <2>2 DEF Listed
<1>4. \A d \in Fds : Closing(t)[d] = IF t[d].kind = "listen" THEN Closed ELSE t[d]
  BY <1>1, <1>2, <1>3
<1> QED
  BY <1>0, <1>1, <1>4 DEF Keeps

\* The sockets are closed and the list is empty.
LEMMA NoSockets ==
  ASSUME SocketsOwned, UNCHANGED <<conf, quiet>>, srv_sockets' = <<>>,
         pc' = "ended" \/ \A d \in Fds : files'[d].kind # "listen"
  PROVE  SocketsOwned'
<1>1. /\ srv_sockets' \in Seq([token : Tokens, fd : Fds \cup {-1}, registered : BOOLEAN])
      /\ DOMAIN srv_sockets' = {}
  BY EmptySeq
<1> QED
  BY <1>1 DEF SocketsOwned

\* The ways out that close the sockets.
LEMMA GoDownTable ==
  ASSUME TableInv, Onward, UNCHANGED <<conf, logonly, pidfile, quiet>>,
         files' = Closing(files), srv_sockets' = <<>>, pc' = "ended"
  PROVE  TableInv'
<1>1. files \in Tables /\ Keeps(files, files, {"listen"})
  BY DEF TableInv, Typed, Keeps
<1>2. /\ files' \in Tables
      /\ Keeps(files, files', Kinds \ {"listen"}) /\ Keeps(files', files, Kinds \ {"closed"})
  BY <1>1, ClosingTable DEF TableInv, Onward
<1>3. /\ Keeps(files, files', {"terminal", "log", "logpipe"})
      /\ Keeps(files', files, {"log", "logpipe"})
      /\ Keeps(files, files', {"pidfile", "other"})
  BY <1>2 DEF Keeps, Kinds
<1>4. SocketsOwned'
  BY NoSockets DEF TableInv
<1>5. LogOwned'
  BY <1>3, LogFrame DEF TableInv, Onward, logonly
<1>6. FilesHeld'
  BY <1>3, HeldFrame DEF TableInv, Onward, pidfile
<1> QED
  BY <1>2, <1>4, <1>5, <1>6 DEF TableInv, Typed

LEMMA LeavingTable == ASSUME TableInv, GoesDown \/ Preflight \/ Register, Onward PROVE TableInv'
<1>0. UNCHANGED <<conf, logonly, pidfile, quiet>>
  BY DEF GoesDown, GoDown, Preflight, Register, Stays, netonly
<1>1. CASE files' = Closing(files) /\ srv_sockets' = <<>> /\ pc' = "ended"
  BY <1>0, <1>1, GoDownTable
<1>2. CASE UNCHANGED <<files, srv_sockets>>
  BY <1>0, <1>2, StillTable DEF logvars, logonly, pidfile
<1>3. CASE srv_sockets' = Registered /\ UNCHANGED files /\ pc' = "loop"
  <2> DEFINE S == [token : Tokens, fd : Fds \cup {-1}, registered : BOOLEAN]
  <2>1. conf.sockets_disabled \in BOOLEAN
    <3>1. conf \in Configs
      BY DEF TableInv, Typed
    <3> QED
      BY <3>1, ConfigsAssumption
  <2>2. /\ DOMAIN srv_sockets' = DOMAIN srv_sockets
        /\ \A i \in DOMAIN srv_sockets : /\ srv_sockets'[i].token = srv_sockets[i].token
                                         /\ srv_sockets'[i].fd = srv_sockets[i].fd
                                         /\ srv_sockets'[i] \in S
    <3>1. \A i \in DOMAIN srv_sockets : srv_sockets[i] \in S
      <4>1. srv_sockets \in Seq(S)
        BY DEF TableInv, SocketsOwned
      <4> HIDE DEF S
      <4> QED
        BY <4>1, ElementOfSeq, LenProperties
    <3> QED
      BY <1>3, <2>1, <3>1 DEF Registered
  <2>3. srv_sockets' \in Seq(S)
    <3>1. DOMAIN srv_sockets = 1 .. Len(srv_sockets) /\ Len(srv_sockets) \in Nat
      BY LenProperties DEF TableInv, SocketsOwned
    <3>2. srv_sockets' = [i \in 1 .. Len(srv_sockets) |-> srv_sockets'[i]]
      BY <1>3, <3>1 DEF Registered
    <3> HIDE DEF S
    <3> QED
      BY <2>2, <3>1, <3>2, IsASeq
  <2>4. SocketsOwned'
    <3> HIDE DEF S
    <3>1. \A i \in DOMAIN srv_sockets' :
            IF conf'.sockets_disabled THEN srv_sockets'[i].fd = -1
            ELSE /\ srv_sockets'[i].fd \in Fds
                 /\ files'[srv_sockets'[i].fd] = File("listen", srv_sockets'[i].token.id)
      BY <1>0, <1>3, <2>2 DEF TableInv, SocketsOwned
    <3>2. \A i, j \in DOMAIN srv_sockets' :
            i # j => /\ srv_sockets'[i].token # srv_sockets'[j].token
                     /\ srv_sockets'[i].fd # srv_sockets'[j].fd \/ conf'.sockets_disabled
      BY <1>0, <2>2 DEF TableInv, SocketsOwned
    <3>3. pc' # "ended" => \A d \in Fds : files'[d].kind = "listen" =>
                             \E i \in DOMAIN srv_sockets' : srv_sockets'[i].fd = d
      BY <1>3, <2>2 DEF TableInv, SocketsOwned, Onward
    <3>4. /\ pc' \in BeforeSockets => srv_sockets' = <<>>
          /\ conf'.preflight_check => quiet'
      BY <1>0, <1>3 DEF TableInv, SocketsOwned, BeforeSockets
    <3> QED
      BY <2>3, <3>1, <3>2, <3>3, <3>4 DEF SocketsOwned, S
  <2>5. \A K : Keeps(files, files', K) /\ Keeps(files', files, K)
    BY <1>3 DEF Keeps
  <2>6. LogOwned' /\ FilesHeld'
    BY <1>0, <2>5, LogFrame, HeldFrame DEF TableInv, Onward, logonly, pidfile
  <2> QED
    BY <1>0, <1>3, <2>4, <2>6 DEF TableInv, Typed
<1> QED
  BY <1>1, <1>2, <1>3 DEF GoesDown, GoDown, Preflight, Register, Stays, Ends, Goto

\* The pipe to the parent is closed when the server is about to serve.
LEMMA KeysTable == ASSUME TableInv, Keys, Onward PROVE TableInv'
<1>0. UNCHANGED <<conf, logonly, pidfile, srv_sockets, quiet>> /\ pc = "keys" /\ pc' \notin BeforeServing
  BY DEF Keys, Stays, Goto, Ends, Onward, BeforeServing, BeforeLog, Uninitialised
<1>1. CASE UNCHANGED files
  BY <1>0, <1>1, StillTable DEF logvars, logonly, pidfile
<1>2. CASE files' = Shut(files, parent_pipe_fd)
  <2>1. files \in Tables /\ (parent_pipe_fd \in Fds => files[parent_pipe_fd].kind = "other")
    <3>1. -1 \notin Fds
      BY DescriptorsAssumption DEF Fds
    <3> QED
      BY <1>0, <3>1 DEF TableInv, Typed, FilesHeld, BeforeServing
  <2>2. /\ Keeps(files, files', Kinds \ {"other"}) /\ Keeps(files', files, Kinds \ {"closed"})
        /\ files' \in Tables
    BY <1>2, <2>1, ShutKeeps
  <2>3. /\ Keeps(files, files', {"listen"}) /\ Keeps(files', files, {"listen"})
        /\ Keeps(files, files', {"terminal", "log", "logpipe"})
        /\ Keeps(files', files, {"log", "logpipe"})
        /\ Keeps(files, files', {"pidfile"})
    BY <2>2 DEF Keeps, Kinds
  <2>4. SocketsOwned' /\ LogOwned'
    BY <1>0, <2>3, SocketsFrame, LogFrame DEF TableInv, Onward, logonly
  <2>5. FilesHeld'
    BY <1>0, <2>3 DEF TableInv, FilesHeld, Keeps, pidfile
  <2> QED
    BY <1>0, <2>2, <2>4, <2>5 DEF TableInv, Typed, BeforeServing, BeforeLog, Uninitialised
<1> QED
  BY <1>1, <1>2 DEF Keys, Stays

\* log_error_cycle: the new file has the log's name, and the old one is shut.
LEMMA CycleTable == ASSUME TableInv, Cycle, Onward PROVE TableInv'
<1>0. /\ pc = "cycle" /\ pc' = "loop"
      /\ UNCHANGED <<conf, errorlog_mode, generation, netonly, pidfile>>
  BY DEF Cycle, Goto
<1>1. CASE UNCHANGED <<files, errorlog_fd, stale>>
  BY <1>0, <1>1, StillTable DEF logvars, netonly, pidfile
<1>2. CASE errorlog_mode = "FILE" /\ ~UNCHANGED <<files, errorlog_fd, stale>>
  <2>0. /\ files \in Tables /\ generation \in Nat /\ stale \in BOOLEAN /\ conf.errorlog_file # "pipe"
        /\ errorlog_fd \in Fds \cup {-1} /\ -1 \notin Fds
        /\ errorlog_fd # -1 => files[errorlog_fd].kind \in {"terminal", "log", "logpipe"}
        /\ \A d \in Fds \ {STDERR_FILENO} : files[d].kind \in {"log", "logpipe"} => d = errorlog_fd
    BY <1>0, <1>2, DescriptorsAssumption DEF TableInv, Typed, LogOwned, LogHasItsDescriptor, Fds
  <2>1. LogFile \in Files /\ LogFile.kind = "log" /\ LogFile.id = generation /\ Closed.kind = "closed"
    BY <2>0, LogFileCases DEF Closed, File
  <2> DEFINE n == OpenLog(files, LogFile).fd  t == OpenLog(files, LogFile).files
  <2>2. CASE CanOpen(files, LogFile) /\ files' = Shut(t, errorlog_fd) /\ errorlog_fd' = n
             /\ stale' = FALSE
    <3>1. /\ n \in Fds /\ files[n] = Closed /\ t \in Tables
          /\ \A d \in Fds : t[d] = IF d = n THEN LogFile ELSE files[d]
      BY <2>0, <2>1, <2>2, OpenLogTable
    <3> HIDE DEF n, t
    <3>2. /\ files' \in Tables
          /\ \A d \in Fds : files'[d] = IF d = errorlog_fd THEN Closed ELSE t[d]
      BY <2>2, <3>1, ShutTable
    <3>3. n # errorlog_fd /\ n # -1
      BY <2>0, <2>1, <3>1
    <3>4. \A d \in Fds : files'[d] = IF d = errorlog_fd THEN Closed
                                     ELSE IF d = n THEN LogFile ELSE files[d]
      BY <3>1, <3>2
    <3>5. /\ Keeps(files, files', {"listen"}) /\ Keeps(files', files, {"listen"})
          /\ Keeps(files, files', {"pidfile", "other"})
      BY <2>0, <2>1, <3>1, <3>4 DEF Keeps
    <3>6. SocketsOwned' /\ FilesHeld'
      BY <1>0, <3>5, SocketsFrame, HeldFrame DEF TableInv, Onward, netonly, pidfile
    <3>7. files'[errorlog_fd'] = LogFile
      BY <2>2, <3>1, <3>3, <3>4
    <3>8. LogHasItsDescriptor'
      <4>1. ASSUME NEW d \in Fds \ {STDERR_FILENO}, files'[d].kind \in {"log", "logpipe"}
            PROVE  d = n
        BY <2>0, <2>1, <3>4, <4>1
      <4> QED
        BY <2>1, <2>2, <3>7, <4>1 DEF LogHasItsDescriptor
    <3>9. LogOwned'
      <4>1. errorlog_fd' \in Fds \cup {-1} /\ generation' \in Nat /\ stale' \in BOOLEAN
        BY <1>0, <2>0, <2>2, <3>1
      <4>2. /\ files'[errorlog_fd'].id <= generation'
            /\ stale' <=> files'[errorlog_fd'].id < generation'
        BY <1>0, <2>0, <2>1, <2>2, <3>7
      <4>3. errorlog_mode' = "FILE" /\ pc' \notin BeforeLog /\ conf'.errorlog_file # "pipe"
        BY <1>0, <1>2, <2>0 DEF BeforeLog, Uninitialised
      <4> QED
        BY <3>8, <4>1, <4>2, <4>3 DEF LogOwned
    <3> QED
      BY <1>0, <3>2, <3>6, <3>9 DEF TableInv, Typed
  <2>3. CASE files' = Shut(files, errorlog_fd) /\ errorlog_fd' = -1 /\ UNCHANGED stale
    <3>1. /\ files' \in Tables
          /\ \A d \in Fds : files'[d] = IF d = errorlog_fd THEN Closed ELSE files[d]
      BY <2>0, <2>3, ShutTable
    <3>2. /\ Keeps(files, files', {"listen"}) /\ Keeps(files', files, {"listen"})
          /\ Keeps(files, files', {"pidfile", "other"})
      BY <2>0, <2>1, <3>1 DEF Keeps
    <3>3. SocketsOwned' /\ FilesHeld'
      BY <1>0, <3>2, SocketsFrame, HeldFrame DEF TableInv, Onward, netonly, pidfile
    <3>4. LogHasItsDescriptor'
      BY <2>0, <2>1, <2>3, <3>1 DEF LogHasItsDescriptor
    <3>5. LogOwned'
      BY <1>0, <1>2, <2>0, <2>3, <3>4 DEF LogOwned, BeforeLog, Uninitialised
    <3> QED
      BY <1>0, <3>1, <3>3, <3>5 DEF TableInv, Typed
  <2> QED
    BY <1>2, <2>2, <2>3 DEF Cycle, LogCycle
<1> QED
  BY <1>1, <1>2 DEF Cycle, LogCycle

LEMMA RenamedTable == ASSUME TableInv, Renamed, Onward PROVE TableInv'
<1>0. /\ pc = "loop" /\ pc' = "loop" /\ UNCHANGED <<conf, netonly, pidfile>>
      /\ errorlog_mode = "FILE" /\ generation' = generation + 1 /\ stale' = TRUE
      /\ UNCHANGED <<files, errorlog_fd, errorlog_mode>>
  BY DEF Renamed, Rotate, mainvars, pidfile
<1>1. \A K : Keeps(files, files', K) /\ Keeps(files', files, K)
  BY <1>0 DEF Keeps
<1>2. SocketsOwned' /\ FilesHeld'
  BY <1>0, <1>1, SocketsFrame, HeldFrame DEF TableInv, Onward, netonly, pidfile
<1>3. errorlog_fd # -1 => files[errorlog_fd].id \in Nat /\ files[errorlog_fd].id <= generation
  BY <1>0 DEF TableInv, Typed, LogOwned, Tables, Files
<1>4. generation \in Nat /\ LogHasItsDescriptor /\ conf.errorlog_file # "pipe"
      /\ errorlog_fd \in Fds \cup {-1}
  BY <1>0 DEF TableInv, LogOwned
<1>5. LogHasItsDescriptor'
  BY <1>0, <1>4 DEF LogHasItsDescriptor
<1>6. generation' \in Nat
      /\ errorlog_fd' # -1 => /\ files'[errorlog_fd'].id <= generation'
                              /\ stale' <=> files'[errorlog_fd'].id < generation'
  BY <1>0, <1>3, <1>4
<1>7. LogOwned'
  BY <1>0, <1>4, <1>5, <1>6 DEF LogOwned, BeforeLog, Uninitialised
<1> QED
  BY <1>0, <1>2, <1>7 DEF TableInv, Typed

\* What an ordinary stop leaves open.
Released ==
  outcome = "stopped" => \A d \in Fds \ {STDERR_FILENO} : files[d].kind \notin {"listen", "log", "logpipe"}

LEMMA StopTable == ASSUME TableInv, Stop, Onward PROVE TableInv' /\ Released'
<1> DEFINE t == IF graceful_shutdown THEN files ELSE Shut(files, pid_fd)
           u == Closing(t)
<1>0. /\ pc = "loop" /\ pc' = "ended" /\ srv_sockets' = <<>>
      /\ UNCHANGED <<conf, quiet, parent_pipe_fd>> /\ LogClose(u)
      /\ (graceful_shutdown /\ pid_fd' = pid_fd) \/ (~graceful_shutdown /\ pid_fd' = -1)
  BY DEF Stop, Ends, RemovePidFile
<1>1. /\ files \in Tables /\ -1 \notin Fds /\ STDERR_FILENO # -1
      /\ pid_fd \in Fds \cup {-1} /\ parent_pipe_fd \in Fds \cup {-1}
      /\ pid_fd \in Fds => files[pid_fd].kind = "pidfile"
      /\ errorlog_fd \in Fds \cup {-1} /\ generation \in Nat /\ stale \in BOOLEAN
      /\ errorlog_mode = "SYSLOG" => errorlog_fd = STDERR_FILENO
      /\ LogHasItsDescriptor
  BY DescriptorsAssumption DEF TableInv, Typed, FilesHeld, LogOwned, Fds, STDERR_FILENO
<1>2. /\ t \in Tables
      /\ Keeps(files, t, Kinds \ {"pidfile"}) /\ Keeps(t, files, Kinds \ {"closed"})
      /\ graceful_shutdown => t = files
  <2>1. CASE graceful_shutdown
    BY <1>1, <2>1 DEF Keeps
  <2>2. CASE ~graceful_shutdown
    BY <1>1, <2>2, ShutKeeps
  <2> QED
    BY <2>1, <2>2
<1> HIDE DEF t
<1>3. Keeps(files, t, {"listen"}) /\ Keeps(t, files, {"listen"})
  BY <1>2 DEF Keeps, Kinds
<1>4. /\ u \in Tables /\ \A d \in Fds : u[d].kind # "listen"
      /\ Keeps(t, u, Kinds \ {"listen"}) /\ Keeps(u, t, Kinds \ {"closed"})
  BY <1>2, <1>3, ClosingTable DEF TableInv, Onward
<1> HIDE DEF u
<1>5. /\ Closed.kind = "closed" /\ UNCHANGED <<errorlog_mode, generation, stale>>
      /\ errorlog_fd' = IF errorlog_mode # "SYSLOG" THEN -1 ELSE errorlog_fd
      /\ files' = IF errorlog_mode # "SYSLOG" /\ errorlog_fd # STDERR_FILENO
                  THEN Shut(u, errorlog_fd) ELSE u
  BY <1>0 DEF LogClose, Closed, File
<1>6. /\ files' \in Tables
      /\ \A d \in Fds : files'[d] \in {Closed, u[d]}
      /\ errorlog_fd \in Fds \ {STDERR_FILENO} => files'[errorlog_fd] = Closed
      /\ \A d \in Fds : d # errorlog_fd => files'[d] = u[d]
  BY <1>1, <1>4, <1>5, ShutTable
<1>7. \A d \in Fds \ {STDERR_FILENO} : files'[d].kind \notin {"listen", "log", "logpipe"}
  <2> SUFFICES ASSUME NEW d \in Fds \ {STDERR_FILENO}, files'[d].kind \in {"listen", "log", "logpipe"}
               PROVE  FALSE
    OBVIOUS
  <2>1. files'[d] = u[d] /\ d # errorlog_fd /\ u[d].kind \in {"log", "logpipe"}
    BY <1>4, <1>5, <1>6
  <2>2. u[d] = files[d]
    BY <1>2, <1>4, <2>1 DEF Keeps, Kinds
  <2> QED
    BY <1>1, <2>1, <2>2 DEF LogHasItsDescriptor
<1>8. SocketsOwned'
  BY <1>0, NoSockets DEF TableInv
<1>9. LogOwned'
  <2>1. LogHasItsDescriptor'
    BY <1>5, <1>7 DEF LogHasItsDescriptor
  <2>2. errorlog_fd' \in Fds \cup {-1} /\ generation' \in Nat /\ stale' \in BOOLEAN
    BY <1>1, <1>5
  <2>3. /\ errorlog_mode' = "SYSLOG" => errorlog_fd' = STDERR_FILENO
        /\ errorlog_mode' = "FILE" => errorlog_fd' = -1
    BY <1>1, <1>5
  <2>4. pc' = "ended" /\ pc' \notin BeforeLog
    BY <1>0 DEF BeforeLog, Uninitialised
  <2> QED
    BY <2>1, <2>2, <2>3, <2>4 DEF LogOwned
<1>10. FilesHeld'
  <2>1. pid_fd' # -1 => pid_fd \in Fds /\ pid_fd' = pid_fd /\ files'[pid_fd].kind = "pidfile"
    <3> SUFFICES ASSUME pid_fd' # -1 PROVE pid_fd \in Fds /\ pid_fd' = pid_fd /\ files'[pid_fd].kind = "pidfile"
      OBVIOUS
    <3>1. pid_fd \in Fds /\ pid_fd' = pid_fd /\ t = files /\ t[pid_fd].kind = "pidfile"
      BY <1>0, <1>1, <1>2
    <3>2. u[pid_fd].kind = "pidfile"
      BY <1>4, <3>1 DEF Keeps, Kinds
    <3>3. pid_fd # errorlog_fd \/ errorlog_mode = "SYSLOG"
      BY <1>1, <3>1 DEF LogHasItsDescriptor
    <3> QED
      BY <1>1, <1>5, <1>6, <3>1, <3>2, <3>3
  <2> QED
    BY <1>0, <1>1, <2>1 DEF FilesHeld, BeforeServing, BeforeLog, Uninitialised
<1> QED
  BY <1>0, <1>6, <1>7, <1>8, <1>9, <1>10 DEF TableInv, Typed, Released

-----------------------------------------------------------------------------
LEMMA TableInvInit == Init => TableInv
<1> SUFFICES ASSUME Init PROVE TableInv
  OBVIOUS
<1>0. /\ pc = "options" /\ conf \in Configs /\ files = AtStart
      /\ pid_fd = -1 /\ parent_pipe_fd = -1
      /\ srv_sockets = <<>> /\ quiet = TRUE
      /\ errorlog_fd = STDERR_FILENO /\ errorlog_mode = "FD" /\ generation = 1 /\ stale = FALSE
  BY DEF Init, LogInit, NetworkInit
<1>1. STDERR_FILENO \in Fds /\ STDERR_FILENO = 2
  BY DescriptorsAssumption DEF STDERR_FILENO, Fds
<1>2. /\ files \in Tables /\ \A d \in Fds : files[d].kind \in {"terminal", "closed"}
      /\ files[STDERR_FILENO] = File("terminal", 0)
  <2>1. File("terminal", 0) \in Files /\ Closed \in Files
        /\ File("terminal", 0).kind = "terminal" /\ Closed.kind = "closed"
    BY DEF File, Closed, Files, Kinds
  <2>2. \A d \in Fds : files[d] = IF d <= 2 THEN File("terminal", 0) ELSE Closed
    BY <1>0 DEF AtStart
  <2>3. files \in Tables
    BY <1>0, <2>1 DEF AtStart, Tables
  <2> QED
    BY <1>1, <2>1, <2>2, <2>3
<1>3. SocketsOwned
  <2>1. /\ srv_sockets \in Seq([token : Tokens, fd : Fds \cup {-1}, registered : BOOLEAN])
        /\ DOMAIN srv_sockets = {}
    BY <1>0, EmptySeq
  <2> QED
    BY <1>0, <1>2, <2>1 DEF SocketsOwned
<1>4. LogOwned
  <2>1. LogHasItsDescriptor
    BY <1>0, <1>1, <1>2 DEF LogHasItsDescriptor, File
  <2> QED
    BY <1>0, <1>1, <1>2, <2>1 DEF LogOwned
<1>5. FilesHeld
  BY <1>0 DEF FilesHeld
<1> QED
  BY <1>0, <1>2, <1>3, <1>4, <1>5 DEF TableInv, Typed

LEMMA TableInvNext == TableInv /\ PluginInv /\ [Next]_vars => TableInv'
<1> SUFFICES ASSUME TableInv, PluginInv, [Next]_vars PROVE TableInv'
  OBVIOUS
<1>1. CASE Next
  <2>0. Onward
    BY <1>1, StepsOnward
  <2>1. CASE Options \/ PidFile
    BY <2>0, <2>1, OptionsTable, PidFileTable
  <2>2. CASE \/ Load \/ Limits \/ Names \/ Backend \/ Privileges \/ Conns \/ InitPlugin
             \/ SetDefaults \/ Hup \/ Trigger \/ Signal
    BY <2>0, <2>2, StillSteps
  <2>3. CASE BindHost \/ Sockets \/ Daemonize \/ OpenErrorLog
    BY <2>0, <2>3, NetworkTable, DaemonizeTable, OpenErrorLogTable
  <2>4. CASE GoesDown \/ Keys \/ Preflight \/ Register
    BY <2>0, <2>4, LeavingTable, KeysTable
  <2>5. CASE Cycle \/ Renamed \/ Stop
    BY <2>0, <2>5, CycleTable, RenamedTable, StopTable
  <2> QED
    BY <1>1, <2>1, <2>2, <2>3, <2>4, <2>5 DEF Next
<1>2. CASE UNCHANGED vars
  BY <1>2 DEF vars, mainvars, logvars, netvars, TableInv, Typed, SocketsOwned, LogOwned,
     LogHasItsDescriptor, FilesHeld
<1> QED
  BY <1>1, <1>2

\* TableInv holds in every state, for every configuration and every number of
\* descriptors that the kernel gives out.
THEOREM TableInvariance == Spec => []TableInv
BY TableInvInit, TableInvNext, PluginInvariance, PTL DEF Spec

\* A descriptor the log writes to is one of a log, and no other descriptor of a
\* log is left over, whatever was opened before, failed, or was rotated.
THEOREM LogCorrect == Spec => []LogHasItsDescriptor
<1>1. TableInv => LogHasItsDescriptor
  BY DEF TableInv, LogOwned
<1> QED
  BY <1>1, TableInvariance, PTL

\* A log that was opened or cycled is the file that has the name, until that file
\* is renamed.
THEOREM RotationCorrect == Spec => []LogFollowsRotation
<1>1. TableInv => LogFollowsRotation
  BY DEF TableInv, LogOwned, LogFollowsRotation
<1> QED
  BY <1>1, TableInvariance, PTL

\* Every socket of the list is open, listens for its own token and shares neither
\* token nor descriptor with another; the preflight check asks for none.
THEOREM SocketsCorrect == Spec => []SocketsListen
<1>1. TableInv => SocketsListen
  <2> SUFFICES ASSUME TableInv PROVE SocketsListen
    OBVIOUS
  <2>1. \A i \in DOMAIN srv_sockets :
          srv_sockets[i].fd # -1 => files[srv_sockets[i].fd] = File("listen", srv_sockets[i].token.id)
    BY DEF TableInv, SocketsOwned
  <2>2. \A s \in Listed : s.fd # -1 => files[s.fd] = File("listen", s.token.id)
    BY <2>1 DEF Listed
  <2>3. \A i, j \in DOMAIN srv_sockets :
          /\ srv_sockets[i].token = srv_sockets[j].token => i = j
          /\ srv_sockets[i].fd = srv_sockets[j].fd => i = j \/ conf.sockets_disabled
    BY DEF TableInv, SocketsOwned
  <2> QED
    BY <2>2, <2>3 DEF SocketsListen, TableInv, SocketsOwned
<1> QED
  BY <1>1, TableInvariance, PTL

\* An ordinary stop leaves open no socket of the list and no log, and has called
\* the cleanup of every plugin that has one, in order, unless one refused.
THEOREM StopCorrect == Spec => []StopReleases
<1>1. Init => Released
  BY DEF Init, Released
<1>2. TableInv /\ PluginInv /\ Released /\ [Next]_vars => Released'
  <2> SUFFICES ASSUME TableInv, PluginInv, Released, [Next]_vars PROVE Released'
    OBVIOUS
  <2>1. CASE Stop
    <3>1. Onward
      BY <2>1, StepsOnward DEF Next
    <3> QED
      BY <2>1, <3>1, StopTable
  <2>2. CASE Next /\ ~Stop
    <3>1. pc # "ended"
      BY <2>2, StepsOnward DEF Onward
    <3>2. outcome # "stopped"
      BY <3>1 DEF PluginInv, PluginsLoaded
    <3>3. outcome' # "stopped"
      <4> USE <2>2, <3>2 DEF Goto, Ends
      <4>1. CASE Options \/ Load \/ PidFile \/ Limits \/ Names
        BY <4>1 DEF Options, Load, PidFile, Limits, Names
      <4>2. CASE BindHost \/ Backend \/ Sockets \/ Privileges \/ Conns
        BY <4>2 DEF BindHost, Backend, Sockets, Privileges, Conns, NetworkFails, Crash
      <4>3. CASE InitPlugin \/ Daemonize \/ OpenErrorLog
        BY <4>3 DEF InitPlugin, Daemonize, OpenErrorLog
      <4>4. CASE GoesDown \/ SetDefaults \/ Keys \/ Preflight \/ Register
        BY <4>4 DEF GoesDown, GoDown, SetDefaults, Keys, Preflight, Register
      <4>5. CASE Hup \/ Cycle \/ Trigger \/ Signal \/ Renamed
        BY <4>5 DEF Hup, Cycle, Trigger, Signal, Renamed, mainvars
      <4> QED
        BY <4>1, <4>2, <4>3, <4>4, <4>5 DEF Next
    <3> QED
      BY <3>3 DEF Released
  <2>3. CASE UNCHANGED vars
    BY <2>3 DEF vars, mainvars, logvars, Released
  <2> QED
    BY <2>1, <2>2, <2>3
<1>3. PluginInv /\ Released => StopReleases
  <2> SUFFICES ASSUME PluginInv, Released PROVE StopReleases
    OBVIOUS
  <2>1. DOMAIN cleaned = 1 .. Len(cleaned)
    BY PluginTypes, LenProperties
  <2> QED
    BY <2>1 DEF PluginInv, CleanedUp, Ascending, Released, StopReleases
<1> QED
  BY <1>1, <1>2, <1>3, TableInvariance, PluginInvariance, PTL DEF Spec
=============================================================================
