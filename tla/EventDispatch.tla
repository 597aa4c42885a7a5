--------------------------- MODULE EventDispatch ----------------------------
(***************************************************************************)
(* What koe_event_poll does with an event it has taken from the queue of   *)
(* EventFifo: the plugins (src/src/koe_plugin.c), then every listener      *)
(* (src/src/koe_event.c).  A listener is a callback of the application on  *)
(* the main thread, which may itself register and unregister listeners     *)
(* and post events while the loop over the listeners is under way.         *)
(*                                                                         *)
(* The plugins matter here for whether they suppress the event.  A plugin  *)
(* that raises an exception is only counted, so it is one that does not    *)
(* suppress.  Plugins without the permission to modify events are skipped  *)
(* by the code and are not among Plugins.                                  *)
(***************************************************************************)
EXTENDS EventFifo, SequencesExt

CONSTANTS
    Listeners,      \* callback functions of the application
    MaxListeners,   \* KOE_MAX_LISTENERS
    Plugins         \* entries of the plugin registry

ASSUME DispatchAssumption == MaxListeners \in Nat

VARIABLES
    listeners,      \* s_listeners[0 .. s_listener_count - 1]
    ev,             \* [id, suppressed] of the event in dispatch, id 0: none
    i,              \* callbacks of the loop over the listeners begun so far
    called,         \* history: the listeners called for this event
    due,            \* history: registered when it was taken, and ever since
    skipped,        \* history: listeners moved behind the loop before their turn
    plugin,         \* [loaded, vm] of each plugin
    replaced        \* history: loaded plugins whose latest enable failed

loop == <<ev, i, called>>
plugins == <<plugin, replaced>>
dispatchVars == <<listeners, loop, due, skipped, plugins>>
allVars == <<vars, dispatchVars>>

NoEvent == [id |-> 0, suppressed |-> FALSE]

Unloaded == [loaded |-> FALSE, vm |-> FALSE]

DispatchInit ==
    /\ Init
    /\ listeners = << >>
    /\ ev = NoEvent /\ i = 0 /\ called = << >>
    /\ due = {} /\ skipped = {}
    /\ plugin = [p \in Plugins |-> Unloaded] /\ replaced = {}

-----------------------------------------------------------------------------
(* The registry of listeners *)

(* The application registers a function once.  A callback registered while *)
(* an event is in dispatch is called for it too, as the loop reads         *)
(* s_listener_count on every turn.                                         *)
koe_event_register(l) ==
    /\ Len(listeners) < MaxListeners
    /\ l \notin Range(listeners)
    /\ listeners' = Append(listeners, l)
    /\ UNCHANGED <<vars, loop, due, skipped, plugins>>

(* The last listener, whose turn has not come, moves to a place that the   *)
(* loop has passed.                                                        *)
Overtaken(k) == k <= i /\ i < Len(listeners)

(* Mutant: the later listeners are shifted down.                           *)
UnregisterShifts(l) ==
    \E k \in 1..Len(listeners) :
       /\ listeners[k] = l
       /\ listeners' = RemoveAt(listeners, k)
       /\ skipped' = skipped \cup (IF Overtaken(k) THEN {Last(listeners)} ELSE {})
       /\ due' = due \ {l}
       /\ UNCHANGED <<vars, loop, plugins>>

(* The last listener takes the place of the removed one.                   *)
koe_event_unregister(l) ==
    \E k \in 1..Len(listeners) :
       /\ listeners[k] = l
       /\ listeners' = Front([listeners EXCEPT ![k] = Last(listeners)])
       /\ skipped' = skipped \cup (IF Overtaken(k) THEN {Last(listeners)} ELSE {})
       /\ due' = due \ {l}
       /\ UNCHANGED <<vars, loop, plugins>>

-----------------------------------------------------------------------------
(* The life cycle of a plugin.                                            *)

(* Any of the steps of loading may fail; the VM is then freed again, and   *)
(* what the flag said before the call stays.                               *)
Enabled(was, loads) == [loaded |-> was.loaded \/ loads, vm |-> loads]

(* The pointer to the VM is overwritten at once, also that of a plugin     *)
(* that is loaded.                                                         *)
koe_plugin_enable(p, loads) ==
    /\ plugin' = [plugin EXCEPT ![p] = Enabled(@, loads)]
    /\ replaced' = IF plugin[p].loaded /\ ~loads THEN replaced \cup {p} ELSE replaced \ {p}
    /\ UNCHANGED <<vars, listeners, loop, due, skipped>>

(* Mutant: the VM is freed but the plugin still counts as loaded.          *)
DisableKeepsLoaded(p) ==
    /\ plugin' = [plugin EXCEPT ![p].vm = FALSE]
    /\ replaced' = replaced \ {p}
    /\ UNCHANGED <<vars, listeners, loop, due, skipped>>

koe_plugin_disable(p) ==
    /\ plugin' = [plugin EXCEPT ![p] = Unloaded]
    /\ replaced' = replaced \ {p}
    /\ UNCHANGED <<vars, listeners, loop, due, skipped>>

(* A disable followed by an enable.                                        *)
koe_plugin_reload(p, loads) ==
    /\ plugin' = [plugin EXCEPT ![p] = Enabled(Unloaded, loads)]
    /\ replaced' = replaced \ {p}
    /\ UNCHANGED <<vars, listeners, loop, due, skipped>>

(* Every loaded plugin runs, also after one has suppressed the event, and  *)
(* none can take a suppression back: those in "suppressors" ask for it.    *)
koe_plugin_dispatch(suppressors) ==
    \E p \in suppressors : plugin[p].loaded

-----------------------------------------------------------------------------
(* koe_event_poll *)

(* Only messages and media offers go to the plugins.                       *)
PollTake ==
    /\ ev = NoEvent
    /\ Take
    /\ \E filtered \in BOOLEAN, suppressors \in SUBSET Plugins :
          /\ filtered => \A p \in Plugins : plugin[p].loaded => plugin[p].vm
          /\ ev' = [id |-> Head(pending),
                    suppressed |-> filtered /\ koe_plugin_dispatch(suppressors)]
    /\ i' = 0 /\ called' = << >>
    /\ due' = Range(listeners) /\ skipped' = {}
    /\ UNCHANGED <<listeners, plugins>>

(* koe_plugin_dispatch dereferences the VM of a loaded plugin unseen: the  *)
(* process ends, and starts again with nothing in memory.                  *)
DispatchCrashes ==
    /\ ev = NoEvent /\ pending # << >>
    /\ \E p \in Plugins : plugin[p].loaded /\ ~plugin[p].vm
    /\ posted' = 0 /\ pending' = << >> /\ taken' = << >> /\ dropped' = 0
    /\ listeners' = << >>
    /\ ev' = NoEvent /\ i' = 0 /\ called' = << >>
    /\ due' = {} /\ skipped' = {}
    /\ plugin' = [p \in Plugins |-> Unloaded] /\ replaced' = {}

CallListener ==
    /\ ev # NoEvent /\ ~ev.suppressed
    /\ i < Len(listeners)
    /\ i' = i + 1
    /\ called' = Append(called, listeners[i + 1])
    /\ UNCHANGED <<vars, listeners, ev, due, skipped, plugins>>

(* Mutant: a suppressed event never leaves the loop.                       *)
FinishDelivered ==
    /\ ev # NoEvent /\ ~ev.suppressed
    /\ i >= Len(listeners)
    /\ ev' = NoEvent
    /\ UNCHANGED <<vars, listeners, i, called, due, skipped, plugins>>

FinishEvent ==
    /\ ev # NoEvent
    /\ ev.suppressed \/ i >= Len(listeners)
    /\ ev' = NoEvent
    /\ UNCHANGED <<vars, listeners, i, called, due, skipped, plugins>>

PollStep == PollTake \/ DispatchCrashes \/ CallListener \/ FinishEvent

(* koe_event_post, by a callback or another part of the program.           *)
PostStep == (Post \/ DiscardOldest) /\ UNCHANGED dispatchVars

(* The application acts between polls, or from a callback.                 *)
AppStep ==
    /\ ev = NoEvent \/ i > 0
    /\ \/ \E l \in Listeners : koe_event_register(l) \/ koe_event_unregister(l)
       \/ \E p \in Plugins : koe_plugin_disable(p)
       \/ \E p \in Plugins, loads \in BOOLEAN :
             koe_plugin_enable(p, loads) \/ koe_plugin_reload(p, loads)

DispatchNext == PollStep \/ PostStep \/ AppStep

(* The main loop keeps polling.                                            *)
DispatchSpec ==
    DispatchInit /\ [][DispatchNext]_allVars /\ WF_allVars(PollStep)

-----------------------------------------------------------------------------

(* An event that is not suppressed reaches every listener that stays       *)
(* registered exactly once, and a suppressed one reaches none, although    *)
(* callbacks register and unregister others or themselves meanwhile.  The  *)
(* one exception is a defect of koe_event_unregister: the last listener,   *)
(* moved to a place that the loop of koe_event_poll has passed before its  *)
(* turn came, misses the event.  It is then not called at all.             *)
CalledOnce ==
    ev # NoEvent =>
       /\ ev.suppressed => called = << >>
       /\ ~ev.suppressed /\ i >= Len(listeners) =>
             \A l \in due : Cardinality({k \in 1..Len(called) : called[k] = l})
                            = IF l \in skipped THEN 0 ELSE 1

(* koe_plugin_dispatch meets a loaded plugin without a VM only where an    *)
(* enable of a loaded plugin has failed: a disable, a reload that fails    *)
(* half way and a later enable that succeeds all put the flag and the VM   *)
(* in step again.                                                          *)
LoadedHasVm == \A p \in Plugins : plugin[p].loaded /\ ~plugin[p].vm => p \in replaced

(* The poll gets through the queue: once nothing is posted any more, every *)
(* event has been dispatched or suppressed, or the process has ended,      *)
(* whatever the callbacks do to the array that the loop runs over.         *)
PollReturns == (posted = MaxPosts) ~> (pending = << >> /\ ev = NoEvent)

=============================================================================
