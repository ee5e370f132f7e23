--------------------------- MODULE MCPcmLifecycle ---------------------------
(***************************************************************************)
(* PcmLifecycle for TLC.                                                   *)
(***************************************************************************)
EXTENDS PcmLifecycleProperties

SomeFlagSets ==
  {{}, {"PCM_IN"}, {"PCM_NOIRQ"}, {"PCM_MMAP", "PCM_MONOTONIC"},
   {"PCM_MMAP", "PCM_NOIRQ", "PCM_IN"}}

Config(period, frame, start, stop) ==
  [period_size |-> period, frame_bytes |-> frame,
   start_threshold |-> start, stop_threshold |-> stop]

(* Periods the device supports, refines and refuses; two frame sizes;      *)
(* thresholds left to the library.                                         *)
SomeConfigs ==
  {Config(2, 1, 1, 4), Config(1, 2, 0, 0), Config(4, 1, 2, 8)}

Default == Config(1, 2, 2, 2)
=============================================================================
