------------------------------ MODULE Plugins ------------------------------
(***************************************************************************)
(* The plugins of mplugin.c: loading them, the slots that say which of     *)
(* them has a function for which hook, and calling a hook.                 *)
(*                                                                         *)
(* A plugin is known by its place in srv->plugins, so that a module that   *)
(* is loaded twice is two plugins.  What a plugin does is external code: a *)
(* call of it is accepted (HANDLER_GO_ON) or refused.                      *)
(***************************************************************************)
EXTENDS Integers, SequencesExt

CONSTANTS
  Hook,       \* the hooks, plugin_t
  HooksOf,    \* the hooks for which a module has a function
  HasInit,    \* the modules that have an init function
  SlotSize    \* PLUGIN_FUNC_SIZEOF, the room in every slot

ASSUME PluginsAssumption ==
  /\ {"set_defaults", "cleanup", "handle_sighup", "handle_trigger"} \subseteq Hook
  /\ HasInit \subseteq DOMAIN HooksOf
  /\ HooksOf \in [DOMAIN HooksOf -> SUBSET Hook]
  /\ SlotSize \in Nat \ {0}

VARIABLES
  plugins,         \* srv->plugins: the modules, in the order they were loaded
  plugin_slots,    \* the plugins in each slot, <<>> while there is no slot
  data,            \* p->data: "none", "ready", or "failed" when init() gave NULL
  refused,         \* history: hooks, and init, that a plugin refused
  cleaned          \* history: the plugins whose cleanup was called, in order

pluginvars == <<plugins, plugin_slots, data, refused, cleaned>>

NoSlots == [h \in Hook |-> <<>>]

PluginsTypeOK ==
  /\ plugins \in Seq(DOMAIN HooksOf)
  /\ plugin_slots \in [Hook -> Seq(1 .. Len(plugins))]
  /\ data \in Seq({"none", "ready", "failed"})
  /\ refused \subseteq Hook \cup {"init"}
  /\ cleaned \in Seq(Nat)

\* server_init leaves the members unset; they are taken to be zero.
PluginsInit ==
  plugins = <<>> /\ plugin_slots = NoSlots /\ data = <<>> /\ refused = {} /\ cleaned = <<>>

Calls(n, h) == h \in HooksOf[plugins[n]]

\* plugins_load takes one more module.  The search for a module named twice only
\* warns: its `continue' is that of the inner loop.
PluginLoad(m) ==
  /\ plugins' = Append(plugins, m)
  /\ UNCHANGED <<plugin_slots, data, refused, cleaned>>

\* PLUGIN_TO_SLOT of plugins_call_init: into the first free place of the slot.
ToSlot(slot, n) == Append(slot, n)

\* The loop of PLUGIN_TO_SLOT, and that of a call, runs up to the number of
\* plugins, and a slot has room for SlotSize of them.
Overruns(slot) == Len(slot) = SlotSize

\* plugins_call_init registers the next plugin and then calls its init function.
\* Faulty variant: that init() gives NULL is not looked at.
PluginInit_Ignored(n, answer) ==
  /\ plugin_slots' = [h \in Hook |-> IF Calls(n, h) THEN ToSlot(plugin_slots[h], n)
                                                    ELSE plugin_slots[h]]
  /\ data' = Append(data, IF plugins[n] \in HasInit THEN answer ELSE "none")
  /\ UNCHANGED <<plugins, refused, cleaned>>

PluginInit(n, answer) ==
  /\ plugin_slots' = [h \in Hook |-> IF Calls(n, h) THEN ToSlot(plugin_slots[h], n)
                                                    ELSE plugin_slots[h]]
  /\ data' = Append(data, IF plugins[n] \in HasInit THEN answer ELSE "none")
  /\ refused' = IF answer = "failed" THEN refused \cup {"init"} ELSE refused
  /\ UNCHANGED <<plugins, cleaned>>

\* A call of a hook: the first k plugins of the slot accept it; when there are
\* more, the next one refuses and the rest is not called.
Call(h, k) ==
  /\ k \in 0 .. Len(plugin_slots[h])
  /\ refused' = IF k < Len(plugin_slots[h]) THEN refused \cup {h} ELSE refused
  /\ UNCHANGED <<plugins, plugin_slots, data, cleaned>>

\* plugins_free: the cleanup hook as any other, so that a plugin that refuses
\* keeps the later ones from being cleaned up.
PluginsFree(k) ==
  LET slot == plugin_slots["cleanup"]
  IN  /\ k \in 0 .. Len(slot)
      /\ cleaned' = cleaned \o SubSeq(slot, 1, IF k < Len(slot) THEN k + 1 ELSE k)
      /\ refused' = IF k < Len(slot) THEN refused \cup {"cleanup"} ELSE refused
      /\ plugins' = <<>> /\ plugin_slots' = NoSlots /\ data' = <<>>

-----------------------------------------------------------------------------
\* The plugins of a slot are the initialised ones that have a function for it,
\* in the order in which the configuration names the modules, and no place is
\* left empty between them (a call ends at the first empty place).
SlotsInLoadOrder ==
  \A h \in Hook :
    /\ \A i, j \in DOMAIN plugin_slots[h] : i < j => plugin_slots[h][i] < plugin_slots[h][j]
    /\ ToSet(plugin_slots[h]) = {n \in DOMAIN data : Calls(n, h)}
=============================================================================
