------------------------- MODULE MixerEvents_proofs -------------------------
(***************************************************************************)
(* Proofs about mixer events, for every value of the constants: any number *)
(* of events and callbacks under way, any wrap of the unsigned count.      *)
(***************************************************************************)
EXTENDS MixerEventsProperties, TLAPS

(* Reads are owed only where they are done, and closing leaves the         *)
(* listener outside the library.                                           *)
Reads ==
  /\ lreads \in 0 .. 1
  /\ lpc # "drain" => lreads = 0
  /\ cpc \notin {"drain", "close_drain"} => creads = 0
  /\ Closing => lpc = "idle"

(* Between ops->subscribe_events(NULL) and the end of the call the plugin  *)
(* has nothing to read.                                                    *)
Unsubscribing == cpc \in {"uncount", "drain"}
Stopped == Unsubscribing => ~callback /\ queued = 0

(* The groups while mixer_subscribe_events is under way.                   *)
Agreeing ==
  HasHw =>
    /\ cpc = "plugin" => subscribe >= 0 /\ (IF subscribe = 0 THEN ~hw_subscribed ELSE hw_subscribed)
    /\ Unsubscribing => ~hw_subscribed
    /\ cpc = "idle" /\ cret = 0 => (hw_subscribed <=> subscribed)

(* eventfd values the listener will take back for events it has read.      *)
Owed == lreads + IF lpc = "uncount" THEN 1 ELSE 0

(* With one call at a time no count is ever negative, and every unread     *)
(* event has a write in the eventfd or on its way.                         *)
OneAtATime ==
  ~Shared =>
    /\ lpc = "idle" \/ cpc = "idle"
    /\ ~Closing => borrowed = 0
    /\ ~Closing => eventfd + InFlight >= queued + Owed

(* With a plugin that waits for its callbacks, exactly one.                *)
Matched ==
  ~Shared /\ waits /\ ~Closing =>
    /\ Unsubscribing => InFlight = 0
    /\ cpc = "drain" => event_cnt = 0
    /\ ~Unsubscribing => eventfd + InFlight = queued + Owed

IInv ==
  /\ TypeOK
  /\ Reads
  /\ Stopped
  /\ Agreeing
  /\ Accounts
  /\ OneAtATime
  /\ Matched

LEMMA Initially == Init => IInv
<1> SUFFICES ASSUME Init PROVE IInv
  OBVIOUS
<1>1. FlagsOK /\ CountsOK /\ PlacesOK
  <2>1. FlagsOK
    BY DEF Init, FlagsOK
  <2>2. CountsOK /\ PlacesOK
    BY DEF Init, CountsOK, PlacesOK
  <2> QED
    BY <2>1, <2>2
<1>2. Reads /\ Stopped
  BY DEF Init, Reads, Stopped, Unsubscribing, Closing
<1>3. Agreeing
  BY DEF Init, Agreeing, Unsubscribing
<1>4. Accounts /\ OneAtATime /\ Matched
  BY DEF Init, Accounts, OneAtATime, Matched, Unsubscribing, Owed, InFlight
<1> QED
  BY <1>1, <1>2, <1>3, <1>4 DEF IInv, TypeOK

LEMMA SubscribeHwStep ==
  ASSUME IInv, SubscribeHw, UNCHANGED habits PROVE IInv'
<1> USE DEF IInv, TypeOK, habits
<1>1. FlagsOK'
  BY DEF SubscribeHw, FlagsOK, pluginVars, countVars, hwVars
<1>2. CountsOK'
  <2>1. subscribe' \in -1 .. 2
    BY DEF SubscribeHw, CountsOK
  <2>2. hw_queued' \in Nat
    BY DEF SubscribeHw, CountsOK, hwVars
  <2> QED
    BY <2>1, <2>2
    DEF SubscribeHw, CountsOK, pluginVars, countVars, listenerVars
<1>3. PlacesOK'
  BY DEF SubscribeHw, PlacesOK, listenerVars
<1>4. Reads' /\ Stopped'
  BY DEF SubscribeHw, Reads, Stopped, Unsubscribing, Closing, pluginVars,
         listenerVars
<1>5. Agreeing'
  <2>1. cpc' = "plugin"
    BY DEF SubscribeHw
  <2>2. subscribe' >= 0
    BY DEF SubscribeHw, CountsOK
  <2>3. IF subscribe' = 0 THEN ~hw_subscribed' ELSE hw_subscribed'
    <3>1. CASE subscribe < 0 /\ hw_subscribed
      <4>1. subscribe' = 1
        BY <3>1 DEF SubscribeHw, CountsOK
      <4>2. UNCHANGED hwVars
        BY <3>1 DEF SubscribeHw, CountsOK
      <4>3. UNCHANGED hw_subscribed
        BY <4>2 DEF hwVars
      <4> QED
        BY <3>1, <4>1, <4>3
    <3>2. CASE subscribe < 0 /\ ~hw_subscribed
      BY <3>2 DEF SubscribeHw, hwVars
    <3>3. CASE subscribe = 0
      BY <3>3 DEF SubscribeHw
    <3>4. CASE subscribe > 0
      <4>1. UNCHANGED subscribe
        BY <3>4 DEF SubscribeHw, CountsOK
      <4>2. hw_subscribed' = TRUE
        BY <3>4 DEF SubscribeHw, CountsOK
      <4> QED
        BY <3>4, <4>1, <4>2
    <3> QED
      BY <3>1, <3>2, <3>3, <3>4 DEF CountsOK
  <2> QED
    BY <2>1, <2>2, <2>3 DEF Agreeing, Unsubscribing
<1>6. Accounts' /\ OneAtATime' /\ Matched'
  BY DEF SubscribeHw, Accounts, OneAtATime, Matched, Unsubscribing, Destroyed,
         Closing, InFlight, Owed, pluginVars, countVars, listenerVars
<1> QED
  BY <1>1, <1>2, <1>3, <1>4, <1>5, <1>6

LEMMA SubscribePluginStep ==
  ASSUME IInv, SubscribePlugin, UNCHANGED habits PROVE IInv'
<1> USE DEF IInv, TypeOK, habits
<1>1. FlagsOK'
  BY DEF SubscribePlugin, FlagsOK, hwVars
<1>2. CountsOK'
  <2>1. subscribe' \in -1 .. 2
    BY DEF SubscribePlugin, CountsOK
  <2>2. cret' \in -1 .. 0 /\ queued' \in Nat
    BY DEF SubscribePlugin, CountsOK, SubscribeReturns
  <2> QED
    BY <2>1, <2>2 DEF SubscribePlugin, CountsOK, hwVars, listenerVars
<1>3. PlacesOK'
  BY DEF SubscribePlugin, SubscribeReturns, PlacesOK, listenerVars
<1>4. Reads' /\ Stopped'
  BY DEF SubscribePlugin, SubscribeReturns, Reads, Stopped, Unsubscribing,
         Closing, listenerVars
<1>5. Agreeing'
  BY DEF SubscribePlugin, SubscribeReturns, Agreeing, Unsubscribing, CountsOK,
         FlagsOK, hwVars
<1>6. Accounts' /\ OneAtATime' /\ Matched'
  BY DEF SubscribePlugin, SubscribeReturns, Accounts, OneAtATime, Matched,
         Unsubscribing, Destroyed, Closing, InFlight, Owed, CountsOK, Reads,
         listenerVars
<1> QED
  BY <1>1, <1>2, <1>3, <1>4, <1>5, <1>6

LEMMA Inductive == IInv /\ [Next]_vars => IInv'
<1> SUFFICES ASSUME IInv, [Next]_vars PROVE IInv'
  OBVIOUS
<1>0. UNCHANGED habits
  BY DEF Next, vars
<1> USE <1>0, ModeAssumption, WrapAssumption, LimitAssumption
     DEF habits, IInv, TypeOK, FlagsOK, CountsOK, PlacesOK, Reads, Stopped, Agreeing, Accounts, OneAtATime, Matched,
         Closing, Destroyed, InFlight, Owed, Unsubscribing, pluginVars, countVars, hwVars,
         listenerVars, controllerVars
<1>1. CASE Raise
  BY <1>1 DEF Raise
<1>2. CASE NotifierCount
  BY <1>2 DEF NotifierCount, LockMutex
<1>3. CASE NotifierPost
  BY <1>3 DEF NotifierPost
<1>4. CASE HwRaise
  BY <1>4 DEF HwRaise
<1>5. CASE Wait
  BY <1>5 DEF Wait, ListenerMayCall, Goto
<1>6. CASE PollReady
  BY <1>6 DEF PollReady, HwReady, PluginReady, Goto
<1>7. CASE PollTimeout
  BY <1>7 DEF PollTimeout, Goto
<1>8. CASE ReadEvent
  BY <1>8 DEF ReadEvent, ListenerMayCall, Goto
<1>9. CASE HwRead
  BY <1>9 DEF HwRead, Goto
<1>10. CASE PluginRead
  BY <1>10 DEF PluginRead, Goto
<1>11. CASE PluginUncount
  BY <1>11 DEF PluginUncount, LockMutex, Goto
<1>12. CASE ListenerDrain
  BY <1>12 DEF ListenerDrain, Goto
<1>13. ASSUME NEW value \in -1 .. 2, Subscribe(value) PROVE IInv'
  BY <1>13 DEF Subscribe, ControllerMayCall
<1>14. CASE SubscribeHw
  BY <1>0, <1>14, SubscribeHwStep
<1>15. CASE SubscribePlugin
  BY <1>0, <1>15, SubscribePluginStep
<1>16. CASE UnsubscribeCount
  BY <1>16 DEF UnsubscribeCount, LockMutex, UnsignedCount
<1>17. CASE UnsubscribeDrain
  <2>f. FlagsOK'
    BY <1>17 DEF UnsubscribeDrain, SubscribeReturns
  <2>c. (CountsOK /\ PlacesOK)'
    BY <1>17 DEF UnsubscribeDrain, SubscribeReturns
  <2>i. (Reads /\ Stopped /\ Agreeing)'
    BY <1>17 DEF UnsubscribeDrain, SubscribeReturns
  <2>a. (Accounts /\ OneAtATime /\ Matched)'
    BY <1>17 DEF UnsubscribeDrain, SubscribeReturns
  <2> QED
    BY <2>f, <2>c, <2>i, <2>a
<1>18. CASE Close
  BY <1>18 DEF Close, ControllerMayCall
<1>19. CASE CloseCount
  <2>f. FlagsOK'
    BY <1>19 DEF CloseCount, LockMutex, UnsignedCount
  <2>c. (CountsOK /\ PlacesOK)'
    BY <1>19 DEF CloseCount, LockMutex, UnsignedCount
  <2>i. (Reads /\ Stopped /\ Agreeing)'
    BY <1>19 DEF CloseCount, LockMutex, UnsignedCount
  <2>a. (Accounts /\ OneAtATime /\ Matched)'
    BY <1>19 DEF CloseCount, LockMutex, UnsignedCount
  <2> QED
    BY <2>f, <2>c, <2>i, <2>a
<1>20. CASE CloseDrain
  BY <1>20 DEF CloseDrain
<1>21. CASE ClosePlugin
  <2>f. FlagsOK'
    BY <1>21 DEF ClosePlugin, LockMutex
  <2>c. (CountsOK /\ PlacesOK)'
    BY <1>21 DEF ClosePlugin, LockMutex
  <2>i. (Reads /\ Stopped /\ Agreeing)'
    BY <1>21 DEF ClosePlugin, LockMutex
  <2>a. (Accounts /\ OneAtATime /\ Matched)'
    BY <1>21 DEF ClosePlugin, LockMutex
  <2> QED
    BY <2>f, <2>c, <2>i, <2>a
<1>22. CASE UNCHANGED vars
  BY <1>22 DEF vars
<1> QED
  BY <1>1, <1>2, <1>3, <1>4, <1>5, <1>6, <1>7, <1>8, <1>9, <1>10, <1>11, <1>12, <1>13, <1>14, <1>15, <1>16, <1>17, <1>18, <1>19, <1>20, <1>21, <1>22 DEF Next, Step

LEMMA Invariant == Spec => []IInv
  BY Initially, Inductive, PTL DEF Spec

(* Every variable keeps its type: of all the counts only event_cnt is ever *)
(* negative, and never so far that its unsigned copy would still be.       *)
THEOREM TypeCorrect == Spec => []TypeOK
<1>1. IInv => TypeOK
  BY DEF IInv
<1> QED
  BY <1>1, Invariant, PTL

(* eventfd and event_cnt never drift apart, however the plugin's threads,  *)
(* the listener and the controller interleave: the mutex and the order of  *)
(* counting and posting in mixer_plugin.c are enough for that.             *)
THEOREM AccountsCorrect == Spec => []Accounts
<1>1. IInv => Accounts
  BY DEF IInv
<1> QED
  BY <1>1, Invariant, PTL

(* A client that makes one call at a time never sleeps in                  *)
(* mixer_wait_event with an unread plugin event whose callback is over.    *)
THEOREM PollUnblockedCorrect ==
  ASSUME ~Shared PROVE Spec => []PollUnblocked
<1>1. IInv => PollUnblocked
  BY DEF IInv, TypeOK, CountsOK, PlacesOK, Reads, OneAtATime, PollUnblocked,
         Owed, Closing
<1> QED
  BY <1>1, Invariant, PTL

(* Nor is it woken for nothing, if the plugin lets its callbacks finish    *)
(* before mixer_plug_subscribe_events takes their counts back.             *)
THEOREM NoSpuriousWakeupCorrect ==
  ASSUME ~Shared PROVE Spec => []NoSpuriousWakeup
<1>1. IInv => NoSpuriousWakeup
  BY DEF IInv, TypeOK, CountsOK, PlacesOK, Reads, OneAtATime, Matched,
         NoSpuriousWakeup, Owed, InFlight, Closing, Unsubscribing
<1> QED
  BY <1>1, Invariant, PTL

(* A successful mixer_subscribe_events leaves both groups in the same      *)
(* state, also after one that failed between the two.                      *)
THEOREM SubscribeAgreesCorrect == Spec => []SubscribeAgrees
<1>1. IInv => SubscribeAgrees
  BY DEF IInv, TypeOK, FlagsOK, Agreeing, SubscribeAgrees
<1> QED
  BY <1>1, Invariant, PTL
==============================================================================
