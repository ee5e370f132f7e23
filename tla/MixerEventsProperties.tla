------------------------ MODULE MixerEventsProperties ------------------------
(***************************************************************************)
(* What must hold of mixer events, for TLC and for MixerEvents_proofs.     *)
(***************************************************************************)
EXTENDS MixerEvents

(* The semaphore and the counter beside it are updated at different times  *)
(* by different threads, and never drift apart: what is in the eventfd or  *)
(* about to be written is what event_cnt says plus the reads still to do.  *)
Accounts ==
  ~Destroyed => eventfd + posting = event_cnt + lreads + creads - borrowed

(* Poll stays unblocked until all events are read: a listener that sleeps  *)
(* has no unread event whose callback is over.                             *)
PollUnblocked ==
  lpc = "poll" /\ InFlight = 0 => eventfd >= queued

(* Nor is poll ever unblocked for nothing, with a plugin that lets its     *)
(* callbacks finish before it is unsubscribed.                             *)
NoSpuriousWakeup == waits /\ lpc = "poll" => eventfd <= queued

(* After mixer_subscribe_events returns 0 both groups are subscribed, or   *)
(* neither, whatever earlier calls that failed half way left behind.       *)
SubscribeAgrees ==
  HasHw /\ cpc = "idle" /\ cret = 0 => hw_subscribed = subscribed

(* Nobody locks the plugin's mutex after mixer_plug_close destroyed it,    *)
(* the callback the sample plugin makes to unblock a waiter included.      *)
MutexAlive == ~misused

(* The eventfd reads that take back counted events never block for good:   *)
(* for each of them the write is done or under way.                        *)
DrainEnds ==
  /\ (lpc = "drain") ~> (lpc = "idle")
  /\ (cpc = "drain") ~> (cpc = "idle")
  /\ (cpc = "close_drain") ~> (cpc = "closed")

(* In the client loop of the mixer tests, one read after each successful   *)
(* wait, and with a plugin that lets its callbacks finish,                 *)
(* mixer_read_event returns, with 0 if there is no pending event.          *)
ReadReturns ==
  (paired /\ waits /\ lpc \in {"hw_read", "plugin_read"}) ~> (lpc = "idle")

(* A client in that loop that keeps waiting and reading has read every     *)
(* plugin event some time after the last event, although poll serves the   *)
(* hardware first and a plugin event may be listed before its callback is  *)
(* counted.                                                                *)
EventsDelivered ==
  /\ SF_vars(Wait /\ UNCHANGED habits)
  /\ SF_vars(ReadEvent /\ UNCHANGED habits)
  /\ <>[][hw_queued' <= hw_queued /\ queued' <= queued]_vars
  => <>[](paired /\ waits => queued = 0)
==============================================================================
