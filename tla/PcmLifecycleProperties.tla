----------------------- MODULE PcmLifecycleProperties -----------------------
(***************************************************************************)
(* What must hold of the life of a PCM handle.                             *)
(***************************************************************************)
EXTENDS PcmLifecycle

Places ==
  {"idle", "hw_open", "open_node", "plug_open", "info", "params_alloc",
   "params_refine", "err_hw_refine", "err_calloc", "params_close", "params",
   "set_config", "hw_params", "map_buffer", "sw_params", "mmap_status",
   "ttstamp", "ready", "fail", "fail_buffer", "fail_close",
   "fail_close_dev_node", "close_stop", "close_buffer", "close_node",
   "bad", "closed", "returned", "crashed"}

Callers == {"none", "pcm_open", "pcm_set_config", "pcm_close",
            "pcm_params_get"}

Faults == {"node", "sw_params", "set_config", "not_setup", "drop"}
Wrongs == {"released", "called", "length"}

(* The types of the variables: the state of pcm_open, pcm_set_config,      *)
(* pcm_close and pcm_params_get.                                           *)
TypeOK ==
  /\ flags \in FlagSets
  /\ pc \in Places
  /\ caller \in Callers
  /\ given \in Configs \cup {NullConfig}
  /\ ops \in {"hw", "plug"}
  /\ ptrs \subseteq Pointers
  /\ config \in ConfigType
  /\ buffer_size \in Nat
  /\ held \subseteq Resources
  /\ dev \in {"none", "OPEN", "SETUP", "PREPARED", "RUNNING"}
  /\ hw \in [period_size : Nat, frame_bytes : Nat]
  /\ mapped \in Nat
  /\ set_configs \in 0 .. MaxSetConfigs
  /\ faults \subseteq Faults
  /\ wrong \subseteq Wrongs

(* What a handle in use owns, by its pointers and flags. *)
Owned ==
  {"pcm"} \cup Backend \cup NodeHeld \cup StatusHeld
    \cup (IF "PCM_MMAP" \in flags THEN {"buffer"} ELSE {})

(* A handle pcm_open returned owns exactly what its pointers and flags     *)
(* say, whichever of the mappings, openings and later configurations       *)
(* failed: nothing it refers to is gone, nothing is kept that it does not  *)
(* refer to.                                                               *)
HandleOwns ==
  pc = "ready" =>
    /\ held = Owned
    /\ {"data", "mmap_status", "mmap_control"} \subseteq ptrs

(* No line releases what is not held, or calls a backend that was closed:  *)
(* the ladders of pcm_open, the order in pcm_close and the two ways to     *)
(* hold the status.                                                        *)
ReleasedOnce == wrong \cap {"released", "called"} = {}

LeakOf ==
  [node |-> Node, sw_params |-> {"buffer"}, set_config |-> {"buffer"},
   not_setup |-> {"status", "control"}, drop |-> {"buffer"}]

(* When a call is over, by error or by pcm_close, everything is released,  *)
(* but for five failures that each leave something behind: a node without  *)
(* a plugin in pcm_params_get, SW_PARAMS refused in pcm_open, a later      *)
(* pcm_set_config that failed, and a plugin that is closed when not in     *)
(* SETUP or that refuses to be stopped.  The parameters pcm_params_get     *)
(* returns are all it holds.                                               *)
ClosedClean ==
  /\ pc \in {"bad", "closed", "returned"} =>
       held \subseteq UNION {LeakOf[f] : f \in faults}
  /\ pc = "params" => held = {"params"}

(* The buffer is unmapped with the length it was mapped with, unless a     *)
(* later pcm_set_config failed and left its own frame size in the handle.  *)
UnmappedWhole == "length" \in wrong => "set_config" \in faults

(* The configuration of an open handle is what the device was set up with, *)
(* whoever called pcm_set_config how often, unless the last call failed;   *)
(* the mapping has the size the handle says; and the thresholds are set,   *)
(* unless the buffer asked for has one frame or none, of which a default   *)
(* would be the half.                                                      *)
ConfigAgrees ==
  pc = "ready" /\ "set_config" \notin faults =>
    /\ dev # "OPEN"
    /\ config.period_size = hw.period_size
    /\ config.frame_bytes = hw.frame_bytes
    /\ AskedSize >= 2 =>
         config.start_threshold # 0 /\ config.stop_threshold # 0
    /\ "PCM_MMAP" \in flags => mapped = BufferBytes
    /\ \/ given # NullConfig /\ given.period_size # hw.period_size
       \/ buffer_size = PeriodCount * hw.period_size

(* pcm_get_buffer_size gives the buffer size of the PCM. *)
BufferSizeIsDevices ==
  pc = "ready" /\ "set_config" \notin faults =>
    buffer_size = PeriodCount * hw.period_size

(* If an error occurs, pcm_open returns &bad_pcm. *)
OpenReturns == caller = "pcm_open" => pc # "crashed"
=============================================================================
