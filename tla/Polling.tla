------------------------------- MODULE Polling -------------------------------
(***************************************************************************)
(* The value-change probes of the UVM library: the hook records and the    *)
(* change list of dpi/uvm_hdl_polling.c, and the SystemVerilog side of     *)
(* base/uvm_hdl_polling.svh that creates probes and drains the list.       *)
(*                                                                         *)
(* The simulator calls the VPI handler of every enabled hook of a signal   *)
(* that changes, one after the other, in any order.  The first hook to     *)
(* find the list empty toggles a notifier bit; the SystemVerilog thread    *)
(* that waits for the bit pops the list until it is empty, and each        *)
(* notification may itself write signals, so that handlers run inside the  *)
(* drain.  An interactive reset calls cbStartOfReset and starts the        *)
(* SystemVerilog side from its beginning; the C variables live on.         *)
(* Memory that a reset has freed may be handed out again, to a new record. *)
(*                                                                         *)
(* A definition marked "mutant" is a wrong version of the one below it,    *)
(* kept to show that the properties tell them apart; nothing uses it.      *)
(***************************************************************************)
EXTENDS Integers, Sequences

CONSTANTS
  MaxHooks,      \* chunks of memory for records: the records at one time
  MaxProbes,     \* probes created in one behaviour, over all resets
  Signals,       \* what vpi_handle_by_name finds
  Integral,      \* those isVerilogType accepts
  NoObject,      \* the obj of memory that was never handed out
  MaxReentrant,  \* changes made by the notifications of one drain
  MaxResets      \* interactive resets of one behaviour

ASSUME PollingAssumption ==
  /\ MaxHooks \in Nat \ {0} /\ MaxProbes \in Nat /\ MaxReentrant \in Nat /\ MaxResets \in Nat
  /\ Integral \subseteq Signals /\ NoObject \notin Signals

Hooks == 1..MaxHooks

VARIABLES
  allHooks,       \* the live records, the list that reset will free
  obj, cb,        \* of each record: its signal, "a callback is registered"
  on_changeList,
  changeList,     \* the records pushed and not popped, the newest first
  stale,          \* history: a reset freed records that are on changeList
  notifier,       \* "null", "held", or "released": freed but not NULL
  reset_callbacks, \* cbStartOfReset callbacks registered with the simulator
  registered,     \* value-change callbacks the simulator has for each record
  due,            \* records whose handler has yet to be called
  running,        \* the static bit of uvm_hdl_polling_probes_run
  thread,         \* the probes_run thread forked by each create_probe
  visible,        \* is the notifier bit open to the PLI?  Never changes
  owed,           \* history: changed, and SystemVerilog not told yet
  created, reentrant, resets, sim

hooks == <<allHooks, obj, created>>
callbacks == <<cb, registered, reset_callbacks>>
list == <<on_changeList, changeList, stale>>
sv == <<running, thread>>
env == <<visible, resets>>
vars == <<hooks, callbacks, list, notifier, due, sv, env, owed, reentrant, sim>>

Range(s) == {s[i] : i \in DOMAIN s}

Notifying == \E t \in Hooks : thread[t] = "notifying"
InHandler == due # {}

TypeOK ==
  /\ allHooks \subseteq Hooks
  /\ obj \in [Hooks -> Signals \union {NoObject}] /\ cb \in [Hooks -> BOOLEAN]
  /\ on_changeList \in [Hooks -> BOOLEAN] /\ changeList \in Seq(Hooks)
  /\ stale \in BOOLEAN
  /\ notifier \in {"null", "held", "released"} /\ reset_callbacks \in 0..1
  /\ registered \in [Hooks -> Nat] /\ due \subseteq Hooks
  /\ running \in BOOLEAN /\ visible \in BOOLEAN
  /\ thread \in [Hooks -> {"none", "forked", "waiting", "woken",
                           "notifying", "done"}]
  /\ owed \in [Hooks -> BOOLEAN]
  /\ created \in 0..MaxProbes /\ reentrant \in 0..MaxReentrant /\ resets \in 0..MaxResets
  /\ sim \in {"run", "fatal"}

Init ==
  /\ allHooks = {} /\ obj = [h \in Hooks |-> NoObject]
  /\ cb = [h \in Hooks |-> FALSE] /\ registered = [h \in Hooks |-> 0]
  /\ on_changeList = [h \in Hooks |-> FALSE] /\ changeList = <<>>
  /\ stale = FALSE
  /\ notifier = "null" /\ reset_callbacks = 0 /\ due = {}
  /\ running = FALSE /\ thread = [h \in Hooks |-> "none"]
  /\ visible \in BOOLEAN
  /\ owed = [h \in Hooks |-> FALSE]
  /\ created = 0 /\ reentrant = 0 /\ resets = 0 /\ sim = "run"

-----------------------------------------------------------------------------
(* Callbacks of the simulator on a record. *)

\* mutant: enables a record again that is enabled already
EnableAgain(h) ==
  /\ cb' = [cb EXCEPT ![h] = TRUE]
  /\ registered' = [registered EXCEPT ![h] = @ + 1]

enable_cb(h) ==
  /\ cb' = [cb EXCEPT ![h] = TRUE]
  /\ registered' = [registered EXCEPT ![h] = IF cb[h] THEN @ ELSE @ + 1]

disable_cb(h) ==
  /\ cb' = [cb EXCEPT ![h] = FALSE]
  /\ registered' = [registered EXCEPT ![h] = IF cb[h] THEN @ - 1 ELSE @]

\* uvm_polling_set_enable_callback on a handle that create has returned.
SetEnable(h, enable) ==
  /\ sim = "run" /\ ~InHandler /\ h \in allHooks
  /\ IF enable THEN enable_cb(h) ELSE disable_cb(h)
  /\ UNCHANGED <<hooks, reset_callbacks, list, notifier, due, sv, env, owed,
                 reentrant, sim>>

\* allocate_hook_record and the fields that create fills in: a record in any
\* chunk that holds none (chunks are numbered as they are first handed out).
\* One that the change list still points to after a reset is as good as
\* another, and is marked as not listed.
allocate_hook_record(h, s) ==
  /\ h \notin allHooks /\ \A g \in Hooks : g < h => obj[g] # NoObject
  /\ allHooks' = allHooks \union {h}
  /\ obj' = [obj EXCEPT ![h] = s]
  /\ on_changeList' = [on_changeList EXCEPT ![h] = FALSE]

\* create_probe: a name that is not found or not of an integral type is
\* fatal; else a new record, its callback, and a forked probes_run.
CreateProbe(s, enable) ==
  /\ sim = "run" /\ ~InHandler
  /\ \/ /\ s \in Integral
        /\ \E h \in Hooks :
             /\ allocate_hook_record(h, s)
             /\ cb' = [cb EXCEPT ![h] = enable]
             /\ registered' = [registered EXCEPT ![h] = IF enable THEN @ + 1 ELSE @]
             /\ thread' = [thread EXCEPT ![h] = "forked"]
        /\ UNCHANGED sim
        /\ created < MaxProbes /\ created' = created + 1
     \/ /\ s \notin Integral
        /\ sim' = "fatal"
        /\ UNCHANGED <<hooks, cb, registered, on_changeList, thread>>
  /\ UNCHANGED <<reset_callbacks, changeList, stale, notifier, due, running, env,
                 owed, reentrant>>
-----------------------------------------------------------------------------
(* uvm_hdl_polling_probes_run, up to its first wait. *)

\* mutant: registers a reset callback and keeps the old one
StackResetCallback == reset_callbacks' = reset_callbacks + 1

ResetCallback == reset_callbacks' = 1

RunProbes(t) ==
  /\ sim = "run" /\ ~InHandler /\ ~Notifying /\ thread[t] = "forked"
  /\ IF running
     THEN /\ thread' = [thread EXCEPT ![t] = "done"]
          /\ UNCHANGED <<running, notifier, reset_callbacks>>
     ELSE /\ thread' = [thread EXCEPT ![t] = "waiting"]
          /\ running' = visible
          /\ IF visible THEN notifier' = "held" /\ ResetCallback
                        ELSE UNCHANGED <<notifier, reset_callbacks>>
  /\ UNCHANGED <<hooks, cb, registered, list, due, env, owed, reentrant, sim>>
-----------------------------------------------------------------------------
(* A signal changes; the simulator calls the handlers. *)

Watching(s) == {h \in Hooks : registered[h] > 0 /\ obj[h] = s}

\* Outside a drain, or written by a notification inside it.
SignalChange(s) ==
  /\ sim = "run" /\ ~InHandler /\ Watching(s) # {}
  /\ reentrant' = IF Notifying THEN reentrant + 1 ELSE reentrant
  /\ reentrant' <= MaxReentrant
  /\ due' = Watching(s)
  /\ owed' = [h \in Hooks |-> owed[h] \/ h \in Watching(s)]
  /\ UNCHANGED <<hooks, callbacks, list, notifier, sv, env, sim>>

\* The thread at its event control wakes; one inside the drain does not.
WakeWaiting ==
  thread' = [t \in Hooks |-> IF thread[t] = "waiting" THEN "woken" ELSE thread[t]]

\* What a released handle does is undefined: the write is lost, or fatal.
toggle_notifier ==
  \/ notifier = "null" /\ sim' = "fatal" /\ UNCHANGED thread
  \/ notifier = "held" /\ WakeWaiting /\ UNCHANGED sim
  \/ notifier = "released" /\ sim' \in {"run", "fatal"} /\ UNCHANGED thread

\* mutant: looks at the list after it has pushed the record
LateLook(h) ==
  /\ on_changeList' = [on_changeList EXCEPT ![h] = TRUE]
  /\ changeList' = IF on_changeList[h] THEN changeList ELSE <<h>> \o changeList
  /\ IF changeList' = <<>> THEN toggle_notifier ELSE UNCHANGED <<thread, sim>>

\* mutant: toggles the notifier for every change
AlwaysNotify(h) ==
  /\ on_changeList' = [on_changeList EXCEPT ![h] = TRUE]
  /\ changeList' = IF on_changeList[h] THEN changeList ELSE <<h>> \o changeList
  /\ toggle_notifier

PushAndNotify(h) ==
  /\ on_changeList' = [on_changeList EXCEPT ![h] = TRUE]
  /\ changeList' = IF on_changeList[h] THEN changeList ELSE <<h>> \o changeList
  /\ IF changeList = <<>> THEN toggle_notifier ELSE UNCHANGED <<thread, sim>>

value_change_callback(h) ==
  /\ sim = "run" /\ h \in due
  /\ due' = due \ {h}
  /\ PushAndNotify(h)
  /\ UNCHANGED <<hooks, callbacks, stale, notifier, running, env, owed, reentrant>>
-----------------------------------------------------------------------------
(* uvm_polling_process_changelist, called by the thread that was woken. *)

\* mutant: the record stays marked as listed
PopMarked == changeList' = Tail(changeList) /\ UNCHANGED on_changeList

get_newest_entry ==
  /\ changeList' = Tail(changeList)
  /\ on_changeList' = [on_changeList EXCEPT ![Head(changeList)] = FALSE]

\* One turn of the loop: the popped record's probe is notified.
DrainPop(t) ==
  /\ sim = "run" /\ ~InHandler
  /\ \/ thread[t] = "woken" /\ ~Notifying
     \/ thread[t] = "notifying"
  /\ changeList # <<>>
  /\ get_newest_entry
  /\ owed' = [owed EXCEPT ![Head(changeList)] = FALSE]
  /\ thread' = [thread EXCEPT ![t] = "notifying"]
  /\ UNCHANGED <<hooks, callbacks, stale, notifier, due, running, env, reentrant, sim>>

\* mutant: one notification and the thread waits again
DrainOne(t) ==
  /\ sim = "run" /\ ~InHandler /\ thread[t] = "notifying"
  /\ thread' = [thread EXCEPT ![t] = "waiting"]
  /\ reentrant' = 0
  /\ UNCHANGED <<hooks, callbacks, list, notifier, due, running, env, owed, sim>>

\* The list is empty: back to the event control.
DrainEnd(t) ==
  /\ sim = "run" /\ ~InHandler
  /\ thread[t] = "notifying" /\ changeList = <<>>
  /\ thread' = [thread EXCEPT ![t] = "waiting"]
  /\ reentrant' = 0
  /\ UNCHANGED <<hooks, callbacks, list, notifier, due, running, env, owed, sim>>
-----------------------------------------------------------------------------
\* uvm_polling_simulator_callback frees every record, if it was registered;
\* the change list is left as it is, and so is the notifier's pointer.
free_mem_structures ==
  /\ notifier' = IF notifier = "null" THEN "null" ELSE "released"
  /\ allHooks' = {} /\ stale' = (changeList # <<>>)
  /\ registered' = [h \in Hooks |-> IF h \in allHooks /\ cb[h] THEN registered[h] - 1
                                                              ELSE registered[h]]
  /\ owed' = [h \in Hooks |-> owed[h] /\ h \notin allHooks]

Reset ==
  /\ sim = "run" /\ ~InHandler /\ ~Notifying /\ resets < MaxResets
  /\ resets' = resets + 1
  /\ IF reset_callbacks > 0 THEN free_mem_structures
     ELSE UNCHANGED <<notifier, allHooks, stale, registered, owed>>
  /\ running' = FALSE /\ thread' = [t \in Hooks |-> "none"] /\ reentrant' = 0
  /\ UNCHANGED <<obj, created, cb, reset_callbacks, on_changeList, changeList, due,
                 visible, sim>>
-----------------------------------------------------------------------------
Next ==
  \/ \E s \in Signals, enable \in BOOLEAN : CreateProbe(s, enable)
  \/ \E h \in Hooks, enable \in BOOLEAN : SetEnable(h, enable)
  \/ \E s \in Signals : SignalChange(s)
  \/ \E h \in Hooks : value_change_callback(h)
  \/ \E t \in Hooks : RunProbes(t) \/ DrainPop(t) \/ DrainEnd(t)
  \/ Reset

Spec == Init /\ [][Next]_vars

\* The simulator calls the handlers of a change at once, and runs every
\* ready thread before time moves on.  Strong fairness of the threads: only
\* signals that oscillate for ever in zero time could keep them from running.
Fairness ==
  /\ WF_vars(\E h \in Hooks : value_change_callback(h))
  /\ SF_vars(\E t \in Hooks : RunProbes(t))
  /\ SF_vars(\E t \in Hooks : DrainPop(t) \/ DrainEnd(t))

FairSpec == Spec /\ Fairness
-----------------------------------------------------------------------------
(* What the probes promise. *)

\* A live record is marked as listed exactly as long as its probe has a change
\* to be told of (or its handler is about to be called): no change is
\* forgotten, none is told twice, resets and reused memory included.  Until a
\* reset frees records that are on the list, the list agrees with the marks
\* and has no record twice.
PendingExactly ==
  /\ \A h \in allHooks : owed[h] <=> on_changeList[h] \/ h \in due
  /\ ~stale =>
       /\ \A h \in Hooks : on_changeList[h] <=> h \in Range(changeList)
       /\ \A i, j \in DOMAIN changeList : changeList[i] = changeList[j] => i = j

\* The thread that drains the list finds live records on it, each of them
\* once: never one that a reset has freed, and never, when the memory of a
\* listed record was handed out again and pushed a second time, a list that
\* runs back into itself.
DrainsLiveRecords ==
  (\E t \in Hooks : thread[t] \in {"woken", "notifying"}) =>
    /\ Range(changeList) \subseteq allHooks
    /\ \A i, j \in DOMAIN changeList : changeList[i] = changeList[j] => i = j

\* The simulator has one callback for a live record that is enabled and none
\* for any other: enabling twice, disabling twice and reset leak nothing,
\* and no handler can be called with a record that was freed.
CallbackRegistrations ==
  \A h \in Hooks : registered[h] = IF h \in allHooks /\ cb[h] THEN 1 ELSE 0

\* Once the notifier is set up, a probe that has not been told of a change
\* has the thread that will tell it on its way (value_change_callback:
\* "avoids any risk of races whereby a notification might be missed").
NoMissedNotification ==
  sim = "run" /\ notifier = "held" /\ (\E h \in allHooks : owed[h] /\ h \notin due)
    => \E t \in Hooks : thread[t] \in {"woken", "notifying"}

\* ... which a simulation that is never reset keeps.
NoneMissedBeforeReset == resets = 0 => NoMissedNotification

\* Every change is reported in the end, the ones made inside a drain too,
\* unless the simulation ends or is reset.
EveryChangeServed ==
  \A h \in Hooks :
    owed[h] /\ resets = 0 ~> ~owed[h] \/ sim = "fatal" \/ resets > 0
=============================================================================
