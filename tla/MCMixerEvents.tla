---------------------------- MODULE MCMixerEvents ----------------------------
(***************************************************************************)
(* Mixer events for TLC.                                                   *)
(***************************************************************************)
EXTENDS MixerEventsProperties
==============================================================================
