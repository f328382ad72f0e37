------------------------------ MODULE Plugins ------------------------------
(***************************************************************************)
(* The plugins of pkg/pool/extension.go: PluginManager, whose map is       *)
(* guarded by a read-write lock, and RegisterPlugin, which enters a plugin *)
(* under the lock and initialises it outside.  Plugins are code of users:  *)
(* each of Init, Start and Stop may fail.                                  *)
(*                                                                         *)
(* Writers hold the lock for one step.  StartAll and StopAll hold it for   *)
(* reading while they call one plugin after the other, in any order, and   *)
(* both may be under way at once.                                          *)
(***************************************************************************)
EXTENDS FiniteSets

CONSTANTS PluginSet,   \* the plugins
          Names,       \* what Plugin.Name can return
          NameOf,      \* the name of each plugin
          NoPlugin     \* no plugin

ASSUME PluginAssumption ==
    /\ NameOf \in [PluginSet -> Names]
    /\ NoPlugin \notin PluginSet

VARIABLES
    plugins,     \* PluginManager.plugins
    poolSet,     \* ExtensionManager.pool is not nil
    registrar,   \* next step of the RegisterPlugin call of each plugin
    starting,    \* names a StartAll has yet to visit
    stopping,    \* names a StopAll has yet to visit
    up,          \* history: plugins whose Start was the last to return nil
    stopped,     \* history: plugins whose Stop has returned nil
    removed,     \* history: plugins that have left the map
    lateStart,   \* history: plugins started after they had left the map
    stopAllRan,  \* history: StopAll has been called
    twice        \* history: plugins stopped again after a Stop returned nil

history == <<up, stopped, removed, lateStart, stopAllRan, twice>>
pluginVars == <<plugins, poolSet, registrar, starting, stopping, history>>

PluginInit ==
    /\ plugins = [n \in Names |-> NoPlugin]
    /\ poolSet = FALSE
    /\ registrar = [p \in PluginSet |-> "idle"]
    /\ starting = {} /\ stopping = {}
    /\ up = {} /\ stopped = {} /\ removed = {} /\ lateStart = {}
    /\ stopAllRan = FALSE /\ twice = {}

Taken == {n \in Names : plugins[n] # NoPlugin}

(* A reader holds the lock: StartAll or StopAll is in its loop.            *)
ReadLocked == starting # {} \/ stopping # {}
-----------------------------------------------------------------------------
(* What becomes of the histories when the Stop of p returns nil.           *)
StopCalled(p) ==
    /\ twice' = IF p \in stopped THEN twice \cup {p} ELSE twice
    /\ stopped' = stopped \cup {p}
    /\ up' = up \ {p}

SetPool ==
    /\ poolSet' = TRUE
    /\ UNCHANGED <<plugins, registrar, starting, stopping, history>>

(* RegisterPlugin, first half: a name that is taken is refused.  A plugin  *)
(* that has left the map may come back.                                    *)
Register(p) ==
    /\ ~ReadLocked
    /\ registrar[p] = "idle"
    /\ plugins[NameOf[p]] = NoPlugin
    /\ plugins' = [plugins EXCEPT ![NameOf[p]] = p]
    /\ registrar' = [registrar EXCEPT ![p] = "init"]
    /\ removed' = removed \ {p}
    /\ stopped' = stopped \ {p} /\ twice' = twice \ {p}
    /\ UNCHANGED <<poolSet, starting, stopping, up, lateStart, stopAllRan>>

(* Second half: Init, if the manager knows its pool.  Nothing of the       *)
(* library calls SetPool, so the plugins of a pool are not initialised.    *)
InitPlugin(p) ==
    /\ registrar[p] = "init"
    /\ \/ registrar' = [registrar EXCEPT ![p] = "idle"]
       \/ poolSet /\ registrar' = [registrar EXCEPT ![p] = "undo"]
    /\ UNCHANGED <<plugins, poolSet, starting, stopping, history>>

(* Variant: Unregister reads the map without the lock.                     *)
StopAndDeleteUnlocked(n) ==
    LET p == plugins[n] IN
    \/ /\ p # NoPlugin
       /\ StopCalled(p)
       /\ plugins' = [plugins EXCEPT ![n] = NoPlugin]
       /\ removed' = removed \cup {p}
    \/ UNCHANGED <<plugins, up, stopped, twice, removed>>

(* Variant: Unregister keeps a stopped plugin in the map.                  *)
StopOnly(n) ==
    LET p == plugins[n] IN
    /\ ~ReadLocked
    /\ \/ p # NoPlugin /\ StopCalled(p)
       \/ UNCHANGED <<up, stopped, twice>>
    /\ UNCHANGED <<plugins, removed>>

(* PluginManager.Unregister: without a plugin of that name, or when its    *)
(* Stop fails, nothing changes.                                            *)
StopAndDelete(n) ==
    LET p == plugins[n] IN
    /\ ~ReadLocked
    /\ \/ /\ p # NoPlugin
          /\ StopCalled(p)
          /\ plugins' = [plugins EXCEPT ![n] = NoPlugin]
          /\ removed' = removed \cup {p}
       \/ UNCHANGED <<plugins, up, stopped, twice, removed>>

Unregister(n) ==
    /\ StopAndDelete(n)
    /\ UNCHANGED <<poolSet, registrar, starting, stopping, lateStart, stopAllRan>>

(* Init failed: whatever plugin has the name by now is unregistered.       *)
UndoRegister(p) ==
    /\ registrar[p] = "undo"
    /\ StopAndDelete(NameOf[p])
    /\ registrar' = [registrar EXCEPT ![p] = "idle"]
    /\ UNCHANGED <<poolSet, starting, stopping, lateStart, stopAllRan>>
-----------------------------------------------------------------------------
StartAll ==
    /\ starting = {} /\ Taken # {}
    /\ starting' = Taken
    /\ UNCHANGED <<plugins, poolSet, registrar, stopping, history>>

(* A plugin that does not start ends the loop.                             *)
StartPlugin(n) ==
    /\ n \in starting
    /\ LET p == plugins[n] IN
       \/ /\ starting' = starting \ {n}
          /\ up' = up \cup {p}
          /\ lateStart' = IF p \in removed \cup {NoPlugin}
                          THEN lateStart \cup {n} ELSE lateStart
       \/ starting' = {} /\ UNCHANGED <<up, lateStart>>
    /\ UNCHANGED <<plugins, poolSet, registrar, stopping, stopped, removed,
                   stopAllRan, twice>>

StopAll ==
    /\ stopping = {} /\ Taken # {}
    /\ stopping' = Taken
    /\ stopAllRan' = TRUE
    /\ UNCHANGED <<plugins, poolSet, registrar, starting, up, stopped, removed,
                   lateStart, twice>>

(* A plugin that does not stop is remembered in the error only.            *)
StopPlugin(n) ==
    /\ n \in stopping
    /\ stopping' = stopping \ {n}
    /\ StopCalled(plugins[n]) \/ UNCHANGED <<up, stopped, twice>>
    /\ UNCHANGED <<plugins, poolSet, registrar, starting, removed, lateStart,
                   stopAllRan>>
-----------------------------------------------------------------------------
PluginNext ==
    \/ SetPool \/ StartAll \/ StopAll
    \/ \E p \in PluginSet : Register(p) \/ InitPlugin(p) \/ UndoRegister(p)
    \/ \E n \in Names : Unregister(n) \/ StartPlugin(n) \/ StopPlugin(n)

PluginSpec == PluginInit /\ [][PluginNext]_pluginVars
-----------------------------------------------------------------------------
(* A plugin that has left the map has been stopped, does not run, and is   *)
(* not started by a StartAll that still had it on its list, which is what  *)
(* the lock is held for while plugins are called (extension.go:94-108 and  *)
(* 133-142).                                                               *)
RemovedStaysDown ==
    /\ removed \subseteq stopped
    /\ removed \cap up = {}
    /\ lateStart = {}

(* Unless somebody calls StopAll, which leaves the map as it is, no plugin *)
(* is stopped a second time in one registration: MonitoringPlugin closes   *)
(* its channel in Stop and would panic (builtin_extensions.go:165).        *)
StoppedOnce == ~stopAllRan => twice = {}
=============================================================================
