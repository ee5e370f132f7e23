----------------------------- MODULE MixerEvents -----------------------------
(***************************************************************************)
(* Control events of a mixer with a hardware and a plugin group: how a     *)
(* client subscribes, waits and reads (src/src/mixer.c), and how the       *)
(* plugin wrapper (src/src/mixer_plugin.c) turns the plugin's callbacks,   *)
(* which come from threads of the plugin, into a pollable semaphore.       *)
(*                                                                         *)
(* Two client threads: the listener waits and reads, the controller        *)
(* subscribes and closes.  Threads of the plugin are alike and are only    *)
(* counted.  What a mutex protects is one atomic step.                     *)
(***************************************************************************)
EXTENDS Integers

CONSTANTS
  HasHw,        \* the card has a control device besides the plugin
  Shared,       \* listener and controller call at the same time
  Wrap,         \* 2^32: a negative event_cnt becomes an unsigned count
  MaxQueued,    \* bound: events, and callbacks, under way in a group
  MaxCredit     \* bound: waits the client is ahead of its reads

ASSUME ModeAssumption == {HasHw, Shared} \subseteq BOOLEAN
ASSUME WrapAssumption == Wrap \in Nat \ {0}
ASSUME LimitAssumption == MaxQueued \in Nat /\ MaxCredit \in Nat

VARIABLES
  paired,         \* every wait that returns 1 is followed by one read
  waits,          \* the plugin's unsubscribe waits for callbacks under way
  queued,         \* the plugin's list of unread events
  callback,       \* the plugin holds mixer_plug_notifier_cb, not NULL
  called,         \* plugin threads entering mixer_plug_notifier_cb
  posting,        \* plugin threads between its unlock and eventfd_write
  event_cnt,      \* plugin->event_cnt
  eventfd,        \* the value of plugin->eventfd (EFD_SEMAPHORE)
  subscribed,     \* plugin->subscribed
  alive,          \* plugin->mutex is initialised
  misused,        \* history: it was locked when it was not
  hw_subscribed, hw_queued,   \* the kernel's side of the control device
  h_credit,       \* mixer->h_grp->event_cnt
  v_credit,       \* mixer->v_grp->event_cnt
  lpc, lreads,    \* listener: where it is, eventfd_reads it has to do
  cpc, creads,    \* controller: the same
  subscribe,      \* mixer_subscribe_events: the argument, passed by address
  cret,           \* and what it last returned
  borrowed        \* history: what negative counts added to creads

pluginVars == <<queued, callback, called, posting>>
countVars == <<event_cnt, eventfd, subscribed, alive, misused, borrowed>>
hwVars == <<hw_subscribed, hw_queued>>
listenerVars == <<h_credit, v_credit, lpc, lreads>>
controllerVars == <<cpc, creads, subscribe, cret>>
habits == <<paired, waits>>
vars == <<habits, queued, callback, called, posting, event_cnt, eventfd, subscribed,
          alive, misused, hw_subscribed, hw_queued, h_credit, v_credit, lpc,
          lreads, cpc, creads, subscribe, cret, borrowed>>

FlagsOK ==
  /\ callback \in BOOLEAN /\ subscribed \in BOOLEAN
  /\ alive \in BOOLEAN /\ misused \in BOOLEAN
  /\ hw_subscribed \in BOOLEAN
  /\ paired \in BOOLEAN /\ waits \in BOOLEAN

CountsOK ==
  /\ queued \in Nat /\ called \in Nat /\ posting \in Nat
  /\ event_cnt \in Int /\ eventfd \in Nat
  /\ hw_queued \in Nat /\ h_credit \in Nat /\ v_credit \in Nat
  /\ lreads \in Nat /\ creads \in Nat
  /\ subscribe \in -1 .. 2 /\ cret \in -1 .. 0
  /\ borrowed \in Nat

PlacesOK ==
  /\ lpc \in {"idle", "poll", "hw_read", "plugin_read", "uncount", "drain"}
  /\ cpc \in {"idle", "hw", "plugin", "uncount", "drain",
              "close", "close_drain", "close_plugin", "closed"}

TypeOK == FlagsOK /\ CountsOK /\ PlacesOK

(* Clients and plugins have their habits for good.                         *)
Init ==
  /\ paired \in BOOLEAN /\ waits \in BOOLEAN
  /\ queued = 0 /\ callback = FALSE /\ called = 0 /\ posting = 0
  /\ event_cnt = 0 /\ eventfd = 0
  /\ subscribed = FALSE /\ alive = TRUE /\ misused = FALSE
  /\ hw_subscribed = FALSE /\ hw_queued = 0
  /\ h_credit = 0 /\ v_credit = 0
  /\ lpc = "idle" /\ lreads = 0
  /\ cpc = "idle" /\ creads = 0
  /\ subscribe = 0 /\ cret = 0
  /\ borrowed = 0

Destroyed == cpc \in {"close_drain", "close_plugin", "closed"}
Closing == cpc \in {"close", "close_drain", "close_plugin", "closed"}
InFlight == called + posting

LockMutex == misused' = (misused \/ ~alive)

------------------------------------------------------------------------------
(* The plugin and the kernel raise events                                  *)

(* The plugin (external) lists an event, then calls back.                  *)
Raise ==
  /\ callback /\ cpc # "closed"
  /\ queued + InFlight < MaxQueued
  /\ queued' = queued + 1
  /\ called' = called + 1
  /\ UNCHANGED <<callback, posting, countVars, hwVars, listenerVars,
                 controllerVars>>

(* mixer_plug_notifier_cb: event_cnt++ under the mutex ...                 *)
NotifierCount ==
  /\ called > 0 /\ cpc # "closed"
  /\ LockMutex
  /\ event_cnt' = event_cnt + 1
  /\ called' = called - 1
  /\ posting' = posting + 1
  /\ UNCHANGED <<queued, callback, eventfd, subscribed, alive, borrowed, hwVars,
                 listenerVars, controllerVars>>

(* ... and eventfd_write(plugin->eventfd, 1) after it.                     *)
NotifierPost ==
  /\ posting > 0 /\ cpc # "closed"
  /\ eventfd' = eventfd + 1
  /\ posting' = posting - 1
  /\ UNCHANGED <<queued, callback, called, event_cnt, subscribed, alive,
                 misused, borrowed, hwVars, listenerVars, controllerVars>>

HwRaise ==
  /\ HasHw /\ hw_subscribed
  /\ hw_queued < MaxQueued
  /\ hw_queued' = hw_queued + 1
  /\ UNCHANGED <<pluginVars, countVars, hw_subscribed, listenerVars,
                 controllerVars>>

------------------------------------------------------------------------------
(* The listener                                                            *)

ListenerMayCall == lpc = "idle" /\ ~Closing /\ (Shared \/ cpc = "idle")

Goto(label) == lpc' = label

(* mixer_wait_event                                                        *)
Wait ==
  /\ ListenerMayCall
  /\ h_credit + v_credit < MaxCredit
  /\ paired => h_credit + v_credit = 0
  /\ Goto("poll")
  /\ UNCHANGED <<pluginVars, countVars, hwVars, h_credit, v_credit, lreads,
                 controllerVars>>

HwReady == HasHw /\ hw_subscribed /\ hw_queued > 0
PluginReady_Forgotten == ~HasHw /\ eventfd > 0
PluginReady == eventfd > 0

PollReady_FirstGroup ==
  /\ lpc = "poll"
  /\ HwReady \/ PluginReady
  /\ h_credit' = h_credit + 1
  /\ Goto("idle")
  /\ UNCHANGED <<pluginVars, countVars, hwVars, v_credit, lreads,
                 controllerVars>>

(* The first descriptor that is ready credits its group with one event.    *)
PollReady ==
  /\ lpc = "poll"
  /\ \/ HwReady /\ h_credit' = h_credit + 1 /\ UNCHANGED v_credit
     \/ ~HwReady /\ PluginReady /\ v_credit' = v_credit + 1
        /\ UNCHANGED h_credit
  /\ Goto("idle")
  /\ UNCHANGED <<pluginVars, countVars, hwVars, lreads, controllerVars>>

PollTimeout ==
  /\ lpc = "poll"
  /\ ~HwReady /\ ~PluginReady
  /\ Goto("idle")
  /\ UNCHANGED <<pluginVars, countVars, hwVars, h_credit, v_credit, lreads,
                 controllerVars>>

ReadEvent_NoCredit ==
  /\ ListenerMayCall
  /\ v_credit' = v_credit - 1
  /\ Goto("plugin_read")
  /\ UNCHANGED <<pluginVars, countVars, hwVars, lreads, h_credit,
                 controllerVars>>

(* mixer_read_event and mixer_consume_event: the credits choose the group, *)
(* and without any the call returns 0 at once.                             *)
ReadEvent ==
  /\ ListenerMayCall
  /\ \/ v_credit > 0 /\ v_credit' = v_credit - 1 /\ Goto("plugin_read")
        /\ UNCHANGED h_credit
     \/ v_credit = 0 /\ h_credit > 0 /\ h_credit' = h_credit - 1
        /\ Goto("hw_read") /\ UNCHANGED v_credit
     \/ v_credit = 0 /\ h_credit = 0 /\ UNCHANGED <<v_credit, h_credit, lpc>>
  /\ UNCHANGED <<pluginVars, countVars, hwVars, lreads, controllerVars>>

(* read() of the control device: EBADFD unless subscribed, and it blocks   *)
(* until there is an event.                                                *)
HwRead ==
  /\ lpc = "hw_read"
  /\ \/ ~hw_subscribed /\ UNCHANGED hw_queued
     \/ hw_subscribed /\ hw_queued > 0 /\ hw_queued' = hw_queued - 1
  /\ Goto("idle")
  /\ UNCHANGED <<pluginVars, countVars, hw_subscribed, h_credit, v_credit,
                 lreads, controllerVars>>

(* mixer_plug_read_event: ops->read_event, which has room for one event.   *)
PluginRead ==
  /\ lpc = "plugin_read"
  /\ \/ queued > 0 /\ queued' = queued - 1 /\ Goto("uncount")
     \/ queued = 0 /\ Goto("idle") /\ UNCHANGED queued
  /\ UNCHANGED <<callback, called, posting, countVars, hwVars, h_credit,
                 v_credit, lreads, controllerVars>>

PluginUncount_AllAtOnce ==
  /\ lpc = "uncount"
  /\ LockMutex
  /\ event_cnt' = 0
  /\ lreads' = event_cnt
  /\ Goto("drain")
  /\ UNCHANGED <<pluginVars, eventfd, subscribed, alive, borrowed, hwVars,
                 h_credit, v_credit, controllerVars>>

PluginUncount_NoRead ==
  /\ lpc = "uncount"
  /\ LockMutex
  /\ event_cnt' = event_cnt - 1
  /\ lreads' = 0
  /\ Goto("drain")
  /\ UNCHANGED <<pluginVars, eventfd, subscribed, alive, borrowed, hwVars,
                 h_credit, v_credit, controllerVars>>

PluginUncount ==
  /\ lpc = "uncount"
  /\ LockMutex
  /\ event_cnt' = event_cnt - 1
  /\ lreads' = 1
  /\ Goto("drain")
  /\ UNCHANGED <<pluginVars, eventfd, subscribed, alive, borrowed, hwVars,
                 h_credit, v_credit, controllerVars>>

(* A blocking eventfd_read.                                                *)
ListenerDrain ==
  /\ lpc = "drain"
  /\ \/ lreads > 0 /\ eventfd > 0
        /\ lreads' = lreads - 1 /\ eventfd' = eventfd - 1 /\ UNCHANGED lpc
     \/ lreads = 0 /\ Goto("idle") /\ UNCHANGED <<lreads, eventfd>>
  /\ UNCHANGED <<pluginVars, event_cnt, subscribed, alive, misused, borrowed,
                 hwVars, h_credit, v_credit, controllerVars>>

------------------------------------------------------------------------------
(* The controller                                                          *)

ControllerMayCall ==
  /\ cpc = "idle"
  /\ Shared \/ lpc = "idle"
  /\ paired => h_credit + v_credit = 0

(* mixer_subscribe_events; borrowed = 0 ends the run of a model whose      *)
(* count went wrong.                                                       *)
Subscribe(value) ==
  /\ ControllerMayCall
  /\ borrowed = 0
  /\ subscribe' = value
  /\ cpc' = IF HasHw THEN "hw" ELSE "plugin"
  /\ UNCHANGED <<pluginVars, countVars, hwVars, listenerVars, creads, cret>>

(* The kernel answers a negative value with the current one, unsubscribing *)
(* empties its queue.                                                      *)
SubscribeHw ==
  /\ cpc = "hw"
  /\ \/ /\ subscribe < 0
        /\ subscribe' = IF hw_subscribed THEN 1 ELSE 0
        /\ UNCHANGED hwVars
     \/ /\ subscribe = 0
        /\ hw_subscribed' = FALSE
        /\ hw_queued' = 0
        /\ UNCHANGED subscribe
     \/ /\ subscribe > 0
        /\ hw_subscribed' = TRUE
        /\ UNCHANGED <<hw_queued, subscribe>>
  /\ cpc' = "plugin"
  /\ UNCHANGED <<pluginVars, countVars, listenerVars, creads, cret>>

SubscribeReturns(r) == cpc' = "idle" /\ cret' = r

(* mixer_plug_subscribe_events up to ops->subscribe_events; a plugin that  *)
(* is told to stop forgets its unread events.                              *)
SubscribePlugin ==
  /\ cpc = "plugin"
  /\ \/ /\ subscribe \notin 0 .. 1
        /\ subscribe' = IF subscribed THEN 1 ELSE 0
        /\ SubscribeReturns(-1)
        /\ UNCHANGED <<queued, callback, subscribed>>
     \/ /\ subscribe = 1
        /\ callback' = TRUE
        /\ subscribed' = TRUE
        /\ SubscribeReturns(0)
        /\ UNCHANGED <<queued, subscribe>>
     \/ /\ subscribe = 0 /\ subscribed
        /\ waits => InFlight = 0
        /\ callback' = FALSE
        /\ queued' = 0
        /\ cpc' = "uncount"
        /\ UNCHANGED <<subscribed, subscribe, cret>>
     \/ /\ subscribe = 0 /\ ~subscribed
        /\ SubscribeReturns(0)
        /\ UNCHANGED <<queued, callback, subscribed, subscribe>>
  /\ UNCHANGED <<called, posting, event_cnt, eventfd, alive, misused, borrowed,
                 hwVars, listenerVars, creads>>

(* count = plugin->event_cnt; count is unsigned.                           *)
UnsignedCount == IF event_cnt < 0 THEN event_cnt + Wrap ELSE event_cnt

UnsubscribeCount_NoReset ==
  /\ cpc = "uncount"
  /\ LockMutex
  /\ creads' = UnsignedCount
  /\ borrowed' = borrowed + UnsignedCount - event_cnt
  /\ cpc' = "drain"
  /\ UNCHANGED <<pluginVars, event_cnt, eventfd, subscribed, alive, hwVars,
                 listenerVars, subscribe, cret>>

UnsubscribeCount ==
  /\ cpc = "uncount"
  /\ LockMutex
  /\ creads' = UnsignedCount
  /\ borrowed' = borrowed + UnsignedCount - event_cnt
  /\ event_cnt' = 0
  /\ cpc' = "drain"
  /\ UNCHANGED <<pluginVars, eventfd, subscribed, alive, hwVars, listenerVars,
                 subscribe, cret>>

UnsubscribeDrain_KeepsFlag ==
  /\ cpc = "drain"
  /\ \/ /\ creads > 0 /\ eventfd > 0
        /\ creads' = creads - 1 /\ eventfd' = eventfd - 1
        /\ UNCHANGED <<cpc, cret>>
     \/ /\ creads = 0
        /\ SubscribeReturns(0)
        /\ UNCHANGED <<creads, eventfd>>
  /\ UNCHANGED <<pluginVars, event_cnt, subscribed, alive, misused, borrowed,
                 hwVars, listenerVars, subscribe>>

UnsubscribeDrain ==
  /\ cpc = "drain"
  /\ \/ /\ creads > 0 /\ eventfd > 0
        /\ creads' = creads - 1 /\ eventfd' = eventfd - 1
        /\ UNCHANGED <<subscribed, cpc, cret>>
     \/ /\ creads = 0
        /\ subscribed' = FALSE
        /\ SubscribeReturns(0)
        /\ UNCHANGED <<creads, eventfd>>
  /\ UNCHANGED <<pluginVars, event_cnt, alive, misused, borrowed, hwVars,
                 listenerVars, subscribe>>

(* mixer_close: the hardware group first, then mixer_plug_close.           *)
Close ==
  /\ ControllerMayCall
  /\ lpc = "idle"
  /\ hw_subscribed' = FALSE /\ hw_queued' = 0
  /\ cpc' = "close"
  /\ UNCHANGED <<pluginVars, countVars, listenerVars, creads, subscribe, cret>>

(* The count is read under the mutex, which is destroyed at once.          *)
CloseCount ==
  /\ cpc = "close"
  /\ LockMutex
  /\ creads' = UnsignedCount
  /\ borrowed' = borrowed + UnsignedCount - event_cnt
  /\ alive' = FALSE
  /\ cpc' = "close_drain"
  /\ UNCHANGED <<pluginVars, event_cnt, eventfd, subscribed, hwVars,
                 listenerVars, subscribe, cret>>

CloseDrain ==
  /\ cpc = "close_drain"
  /\ \/ creads > 0 /\ eventfd > 0
        /\ creads' = creads - 1 /\ eventfd' = eventfd - 1 /\ UNCHANGED cpc
     \/ creads = 0 /\ cpc' = "close_plugin" /\ UNCHANGED <<creads, eventfd>>
  /\ UNCHANGED <<pluginVars, event_cnt, subscribed, alive, misused, borrowed,
                 hwVars, listenerVars, subscribe, cret>>

(* ops->close, as in the sample plugin: one last callback, from this       *)
(* thread, then the plugin is freed.                                       *)
ClosePlugin ==
  /\ cpc = "close_plugin"
  /\ IF callback
     THEN LockMutex /\ event_cnt' = event_cnt + 1 /\ eventfd' = eventfd + 1
     ELSE UNCHANGED <<misused, event_cnt, eventfd>>
  /\ callback' = FALSE
  /\ queued' = 0
  /\ cpc' = "closed"
  /\ UNCHANGED <<called, posting, subscribed, alive, borrowed, hwVars,
                 listenerVars, creads, subscribe, cret>>

------------------------------------------------------------------------------
Notifier == NotifierCount \/ NotifierPost

ListenerStep ==
  PollReady \/ PollTimeout \/ HwRead \/ PluginRead \/ PluginUncount
  \/ ListenerDrain

ControllerStep ==
  SubscribeHw \/ SubscribePlugin \/ UnsubscribeCount \/ UnsubscribeDrain
  \/ CloseCount \/ CloseDrain \/ ClosePlugin

Step ==
  \/ Raise \/ NotifierCount \/ NotifierPost \/ HwRaise
  \/ Wait \/ PollReady \/ PollTimeout
  \/ ReadEvent \/ HwRead \/ PluginRead \/ PluginUncount \/ ListenerDrain
  \/ \E value \in -1 .. 2 : Subscribe(value)
  \/ SubscribeHw \/ SubscribePlugin \/ UnsubscribeCount \/ UnsubscribeDrain
  \/ Close \/ CloseCount \/ CloseDrain \/ ClosePlugin

Next == Step /\ UNCHANGED habits

Spec == Init /\ [][Next]_vars

(* Threads that are inside the library or its callback keep running.       *)
FairSpec ==
  /\ Spec
  /\ WF_vars(Notifier /\ UNCHANGED habits)
  /\ WF_vars(ListenerStep /\ UNCHANGED habits)
  /\ WF_vars(ControllerStep /\ UNCHANGED habits)
==============================================================================
