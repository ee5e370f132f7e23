---------------------------- MODULE PcmLifecycle ----------------------------
(***************************************************************************)
(* The life of a PCM handle: pcm_open, pcm_set_config, pcm_close and the   *)
(* calls between them, and pcm_params_get, which opens and closes a device *)
(* without a handle.  Every call of the backend, every allocation and      *)
(* every dlopen may fail.  The backend is the kernel's device or, when     *)
(* that cannot be opened, a plugin found through the card definition.      *)
(*                                                                         *)
(* What was acquired and not released is held; what the handle's pointers  *)
(* say is ptrs.  The two are changed by different lines of the code.       *)
(***************************************************************************)
EXTENDS Integers

CONSTANTS
  FlagSets,       \* the flags a stream may be opened with
  Configs,        \* the configurations a client passes
  NullConfig,     \* a null pointer for a configuration
  DefaultConfig,  \* what pcm_set_config takes it for
  DevicePeriods,  \* the period sizes the device supports
  PeriodCount,    \* config.period_count
  MaxSetConfigs   \* bound on calls of pcm_set_config on one handle

ConfigType ==
  [period_size : Nat, frame_bytes : Nat,
   start_threshold : Nat, stop_threshold : Nat]

ASSUME LifecycleAssumption ==
  /\ FlagSets \subseteq SUBSET {"PCM_MMAP", "PCM_NOIRQ", "PCM_MONOTONIC",
                                "PCM_IN"}
  /\ Configs \subseteq ConfigType
  /\ DefaultConfig \in ConfigType
  /\ NullConfig \notin ConfigType
  /\ DevicePeriods \subseteq Nat
  /\ PeriodCount \in Nat
  /\ MaxSetConfigs \in Nat

HwBackend == {"hw_data", "fd"}
PlugBackend == {"plug_data", "dl", "plugin"}
Node == {"node", "node_dl", "card"}
StatusPages == {"status", "control"}

Resources ==
  HwBackend \cup PlugBackend \cup Node \cup StatusPages
    \cup {"pcm", "buffer", "sync_ptr", "params"}

Pointers ==
  {"data", "snd_node", "mmap_buffer", "mmap_status", "mmap_control",
   "sync_ptr"}

VARIABLES
  flags,        \* pcm->flags
  pc,           \* the next line, or how the call ended
  caller,       \* the exported function pc is in
  given,        \* the argument config
  ops,          \* pcm->ops
  ptrs,         \* the pointers of the handle that are not null
  config,       \* pcm->config
  buffer_size,  \* pcm->buffer_size
  held,         \* resources acquired and not released
  dev,          \* the state of the kernel's stream or of the plugin
  hw,           \* what the device was set up with
  mapped,       \* bytes of its buffer that are mapped
  set_configs,  \* calls of pcm_set_config so far
  faults,       \* failures that have happened, for the properties
  wrong         \* releases and calls that should not have been made

handle == <<ptrs, config, buffer_size>>
device == <<dev, hw, mapped>>
history == <<set_configs, faults, wrong>>
vars == <<flags, pc, caller, given, ops, handle, held, device, history>>

NoSetup == [period_size |-> 0, frame_bytes |-> 0]
NoConfig ==
  [period_size |-> 0, frame_bytes |-> 0,
   start_threshold |-> 0, stop_threshold |-> 0]

Init ==
  /\ flags \in FlagSets
  /\ pc = "idle" /\ caller = "none" /\ given = NullConfig
  /\ ops = "hw" /\ ptrs = {} /\ config = NoConfig /\ buffer_size = 0
  /\ held = {} /\ dev = "none" /\ hw = NoSetup /\ mapped = 0
  /\ set_configs = 0 /\ faults = {} /\ wrong = {}

Backend == IF ops = "hw" THEN HwBackend ELSE PlugBackend

(* What goes wrong with a release of rs, and with a call of the backend.   *)
Releasing(rs) == IF rs \subseteq held THEN {} ELSE {"released"}
Calling == IF Backend \subseteq held THEN {} ELSE {"called"}

(* An opener acquires one thing after the other; when a step of it fails   *)
(* it jumps into a ladder of releases.                                     *)
HwAcquired ==
  [calloc |-> {}, open |-> {"hw_data"}, fcntl |-> {"hw_data", "fd"}]
HwReleased_KeepsFd ==
  [calloc |-> {}, open |-> {"hw_data"}, fcntl |-> {"hw_data"}]
HwReleased ==
  [calloc |-> {}, open |-> {"hw_data"}, fcntl |-> {"fd", "hw_data"}]

NodeAcquired ==
  [calloc |-> {}, dlopen |-> {"node"}, dlsym |-> {"node", "node_dl"},
   open_card |-> {"node", "node_dl"}, get_pcm |-> Node]
NodeReleased ==
  [calloc |-> {}, dlopen |-> {"node"}, dlsym |-> {"node_dl", "node"},
   open_card |-> {"node_dl", "node"},
   get_pcm |-> {"card", "node_dl", "node"}]

PlugAcquired ==
  [calloc |-> {}, get_str |-> {"plug_data"}, dlopen |-> {"plug_data"},
   dlsym |-> {"plug_data", "dl"}, open |-> {"plug_data", "dl"}]
PlugReleased ==
  [calloc |-> {}, get_str |-> {"plug_data"}, dlopen |-> {"plug_data"},
   dlsym |-> {"dl", "plug_data"}, open |-> {"dl", "plug_data"}]

(* The failures for which pcm_plug_open returns a negative rc; for the     *)
(* other two rc is still the zero of snd_utils_get_str.                    *)
PlugErrors == {"calloc", "get_str", "open"}

-----------------------------------------------------------------------------
(* Opening, for pcm_open and for pcm_params_get *)

(* pcm_open_by_name with a malformed name returns &bad_pcm at once; with a *)
(* good one it is pcm_open.                                                *)
pcm_open_by_name ==
  /\ pc = "idle"
  /\ pc' = "bad"
  /\ UNCHANGED <<flags, caller, given, ops, handle, held, device, history>>

pcm_open(cfg) ==
  /\ pc = "idle"
  /\ caller' = "pcm_open"
  /\ given' = cfg
  /\ \/ pc' = "hw_open" /\ held' = held \cup {"pcm"}
     \/ pc' = "bad" /\ UNCHANGED held
  /\ UNCHANGED <<flags, ops, handle, device, history>>

pcm_params_get ==
  /\ pc = "idle"
  /\ caller' = "pcm_params_get"
  /\ pc' = "hw_open"
  /\ UNCHANGED <<flags, given, ops, handle, held, device, history>>

Opened == IF caller = "pcm_open" THEN "info" ELSE "params_alloc"

pcm_hw_open ==
  /\ pc = "hw_open"
  /\ \/ /\ pc' = Opened
        /\ held' = held \cup HwBackend
        /\ ptrs' = ptrs \cup {"data"}
        /\ dev' = "OPEN"
     \/ /\ \E step \in DOMAIN HwAcquired :
             held' = held \cup (HwAcquired[step] \ HwReleased[step])
        /\ pc' = "open_node"
        /\ UNCHANGED <<ptrs, dev>>
  /\ UNCHANGED <<flags, caller, given, ops, config, buffer_size, hw, mapped,
                 history>>

(* Where it goes when there is neither a device nor a plugin:              *)
(* pcm_params_get returns without closing the node.                        *)
NoDevice == IF caller = "pcm_open" THEN "fail_close_dev_node" ELSE "returned"
NoDeviceFault == IF caller = "pcm_open" THEN {} ELSE {"node"}

(* snd_utils_open_pcm and snd_utils_get_node_type *)
OpenNode ==
  /\ pc = "open_node"
  /\ \/ /\ held' = held \cup Node
        /\ ptrs' = ptrs \cup {"snd_node"}
        /\ \/ pc' = "plug_open" /\ ops' = "plug" /\ UNCHANGED faults
           \/ /\ pc' = NoDevice /\ UNCHANGED ops
              /\ faults' = faults \cup NoDeviceFault
     \/ /\ \E step \in DOMAIN NodeAcquired :
             held' = held \cup (NodeAcquired[step] \ NodeReleased[step])
        /\ pc' = NoDevice
        /\ UNCHANGED <<ptrs, ops, faults>>
  /\ UNCHANGED <<flags, caller, given, config, buffer_size, device,
                 set_configs, wrong>>

(* A plugin library that cannot be loaded leaves *data alone and returns   *)
(* zero, which is taken for a file descriptor.                             *)
pcm_plug_open ==
  /\ pc = "plug_open"
  /\ \/ /\ pc' = Opened
        /\ held' = held \cup PlugBackend
        /\ ptrs' = ptrs \cup {"data"}
        /\ dev' = "OPEN"
        /\ UNCHANGED faults
     \/ \E step \in DOMAIN PlugAcquired :
          /\ held' = held \cup (PlugAcquired[step] \ PlugReleased[step])
          /\ UNCHANGED <<ptrs, dev>>
          /\ IF step \in PlugErrors
             THEN /\ pc' = NoDevice
                  /\ faults' = faults \cup NoDeviceFault
             ELSE pc' = Opened /\ UNCHANGED faults
  /\ UNCHANGED <<flags, caller, given, ops, config, buffer_size, hw, mapped,
                 set_configs, wrong>>

(* The ioctl of a backend that has no data reads through a null pointer in *)
(* pcm_open, an uninitialized one in pcm_params_get, as does its close.    *)
NoData ==
  /\ pc \in {"info", "params_refine", "err_calloc"}
  /\ "data" \notin ptrs
  /\ pc' = "crashed"
  /\ UNCHANGED <<flags, caller, given, ops, handle, held, device, history>>

Info_GotoFail ==
  /\ pc = "info" /\ "data" \in ptrs
  /\ pc' \in {"set_config", "fail"}
  /\ wrong' = wrong \cup Calling
  /\ UNCHANGED <<flags, caller, given, ops, handle, held, device,
                 set_configs, faults>>

Info ==
  /\ pc = "info" /\ "data" \in ptrs
  /\ pc' \in {"set_config", "fail_close"}
  /\ wrong' = wrong \cup Calling
  /\ UNCHANGED <<flags, caller, given, ops, handle, held, device,
                 set_configs, faults>>
-----------------------------------------------------------------------------
(* pcm_set_config, by pcm_open or by the client *)

pcm_set_config(cfg) ==
  /\ pc = "ready"
  /\ set_configs < MaxSetConfigs
  /\ set_configs' = set_configs + 1
  /\ caller' = "pcm_set_config"
  /\ given' = cfg
  /\ pc' = "set_config"
  /\ UNCHANGED <<flags, ops, handle, held, device, faults, wrong>>

SetConfigFails(fault) ==
  /\ pc' = IF caller = "pcm_open" THEN "fail_close" ELSE "ready"
  /\ faults' = faults \cup (IF caller = "pcm_open" THEN fault
                                                   ELSE {"set_config"})

(* pcm->config is overwritten before anybody was asked. *)
TakeConfig ==
  /\ pc = "set_config"
  /\ config' = IF given = NullConfig THEN DefaultConfig ELSE given
  /\ IF "PCM_NOIRQ" \in flags /\ "PCM_MMAP" \notin flags
     THEN SetConfigFails({})
     ELSE pc' = "hw_params" /\ UNCHANGED faults
  /\ UNCHANGED <<flags, caller, given, ops, ptrs, buffer_size, held, device,
                 set_configs, wrong>>

(* The configuration the rest of pcm_set_config reads: a null argument was *)
(* replaced by the handle's own, which the refinement changes.             *)
Asked == IF given = NullConfig THEN config ELSE given
AskedSize == PeriodCount * Asked.period_size

(* The kernel sets a stream up again until it is mapped or runs; the       *)
(* plugin wrapper does it once.                                            *)
AcceptsHwParams ==
  IF ops = "hw"
  THEN dev \in {"OPEN", "SETUP", "PREPARED"} /\ "buffer" \notin held
  ELSE dev = "OPEN"

(* The period was set with param_set_min. *)
Refined == {p \in DevicePeriods : p >= config.period_size}

RefinedConfig_Unread(p) == config
RefinedConfig(p) == [config EXCEPT !.period_size = p]

(* A failure takes the kernel's stream back to OPEN. *)
HwParams ==
  /\ pc = "hw_params"
  /\ wrong' = wrong \cup Calling
  /\ \/ /\ AcceptsHwParams
        /\ \E p \in Refined :
             /\ dev' = "SETUP"
             /\ hw' = [period_size |-> p, frame_bytes |-> config.frame_bytes]
             /\ config' = RefinedConfig(p)
             /\ buffer_size' =
                  PeriodCount * (IF given = NullConfig THEN p
                                                       ELSE given.period_size)
        /\ pc' = IF "PCM_MMAP" \in flags THEN "map_buffer" ELSE "sw_params"
        /\ UNCHANGED faults
     \/ /\ IF ops = "hw" /\ AcceptsHwParams
           THEN dev' = "OPEN" /\ hw' = NoSetup
           ELSE UNCHANGED <<dev, hw>>
        /\ SetConfigFails({})
        /\ UNCHANGED <<config, buffer_size>>
  /\ UNCHANGED <<flags, caller, given, ops, ptrs, held, mapped, set_configs>>

(* pcm_frames_to_bytes(pcm, pcm->buffer_size) *)
BufferBytes == config.frame_bytes * buffer_size

MapBuffer ==
  /\ pc = "map_buffer"
  /\ ptrs' = ptrs \cup {"mmap_buffer"}
  /\ wrong' = wrong \cup Calling
  /\ \/ /\ held' = held \cup {"buffer"}
        /\ mapped' = BufferBytes
        /\ pc' = "sw_params"
        /\ UNCHANGED faults
     \/ /\ SetConfigFails({})
        /\ UNCHANGED <<held, mapped>>
  /\ UNCHANGED <<flags, caller, given, ops, config, buffer_size, dev, hw,
                 set_configs>>

(* Thresholds of zero become defaults, computed from the configuration     *)
(* asked for.                                                              *)
StartThreshold ==
  IF Asked.start_threshold # 0 THEN config.start_threshold
  ELSE IF "PCM_IN" \in flags THEN 1 ELSE AskedSize \div 2
StopThreshold ==
  IF Asked.stop_threshold # 0 THEN config.stop_threshold
  ELSE IF "PCM_IN" \in flags THEN AskedSize * 10 ELSE AskedSize

SwParams ==
  /\ pc = "sw_params"
  /\ config' = [config EXCEPT !.start_threshold = StartThreshold,
                              !.stop_threshold = StopThreshold]
  /\ wrong' = wrong \cup Calling
  /\ \/ /\ pc' = IF caller = "pcm_open" THEN "mmap_status" ELSE "ready"
        /\ faults' = faults \ {"set_config"}
     \/ SetConfigFails({"sw_params"})
  /\ UNCHANGED <<flags, caller, given, ops, ptrs, buffer_size, held, device,
                 set_configs>>

-----------------------------------------------------------------------------
(* The rest of pcm_open *)

(* When one of the pages cannot be mapped the status is fetched by ioctl   *)
(* into sync_ptr; the page mapped first is unmapped again.                 *)
StatusAcquired == [status |-> {}, control |-> {"status"}]
StatusReleased_Kept == [status |-> {}, control |-> {}]
StatusReleased == [status |-> {}, control |-> {"status"}]

pcm_hw_mmap_status ==
  /\ pc = "mmap_status"
  /\ wrong' = wrong \cup Calling
  /\ \/ /\ held' = held \cup StatusPages
        /\ ptrs' = ptrs \cup {"mmap_status", "mmap_control"}
        /\ pc' = "ttstamp"
     \/ \E step \in DOMAIN StatusAcquired :
          LET left == held \cup (StatusAcquired[step] \ StatusReleased[step])
          IN  \/ /\ held' = left \cup {"sync_ptr"}
                 /\ ptrs' = ptrs \cup {"mmap_status", "mmap_control",
                                       "sync_ptr"}
                 /\ pc' = "ttstamp"
              \/ /\ held' = left
                 /\ pc' = "fail"
                 /\ UNCHANGED ptrs
  /\ UNCHANGED <<flags, caller, given, ops, config, buffer_size, device,
                 set_configs, faults>>

SetTimestamp ==
  /\ pc = "ttstamp"
  /\ IF "PCM_MONOTONIC" \in flags
     THEN /\ pc' \in {"ready", "fail"}
          /\ wrong' = wrong \cup Calling
     ELSE pc' = "ready" /\ UNCHANGED wrong
  /\ UNCHANGED <<flags, caller, given, ops, handle, held, device,
                 set_configs, faults>>
-----------------------------------------------------------------------------
(* Releasing *)

(* The plugin wrapper unmaps in SETUP only. *)
MayUnmap == ops = "hw" \/ dev = "SETUP"

(* pcm_hw_munmap_status frees sync_ptr or unmaps the pages, and forgets    *)
(* them.                                                                   *)
StatusHeld ==
  IF "sync_ptr" \in ptrs THEN {"sync_ptr"}
  ELSE (IF "mmap_status" \in ptrs THEN {"status"} ELSE {})
         \cup (IF "mmap_control" \in ptrs THEN {"control"} ELSE {})

MunmapStatus ==
  /\ held' = IF "sync_ptr" \in ptrs \/ MayUnmap THEN held \ StatusHeld
                                                ELSE held
  /\ ptrs' = ptrs \ {"sync_ptr", "mmap_status", "mmap_control"}
  /\ wrong' = wrong \cup Releasing(StatusHeld) \cup Calling

(* A part of the buffer stays mapped if the length falls short; what lies  *)
(* behind it goes too if the length is more.                               *)
MunmapBuffer ==
  IF MayUnmap
  THEN /\ held' = IF BufferBytes >= mapped THEN held \ {"buffer"} ELSE held
       /\ mapped' = IF BufferBytes >= mapped THEN 0 ELSE mapped - BufferBytes
       /\ wrong' = wrong \cup Releasing({"buffer"}) \cup Calling
                     \cup (IF BufferBytes = mapped THEN {} ELSE {"length"})
  ELSE UNCHANGED <<held, mapped, wrong>>

NodeHeld == IF "snd_node" \in ptrs THEN Node ELSE {}

FailStatus ==
  /\ pc = "fail"
  /\ MunmapStatus
  /\ pc' = IF "PCM_MMAP" \in flags THEN "fail_buffer" ELSE "fail_close"
  /\ UNCHANGED <<flags, caller, given, ops, config, buffer_size, device,
                 set_configs, faults>>

FailBuffer ==
  /\ pc = "fail_buffer"
  /\ MunmapBuffer
  /\ pc' = "fail_close"
  /\ UNCHANGED <<flags, caller, given, ops, handle, dev, hw, set_configs,
                 faults>>

FailClose ==
  /\ pc = "fail_close"
  /\ held' = held \ Backend
  /\ wrong' = wrong \cup Releasing(Backend)
  /\ dev' = "none"
  /\ pc' = "fail_close_dev_node"
  /\ UNCHANGED <<flags, caller, given, ops, handle, hw, mapped, set_configs,
                 faults>>

FailCloseDevNode ==
  /\ pc = "fail_close_dev_node"
  /\ held' = (held \ NodeHeld) \ {"pcm"}
  /\ wrong' = wrong \cup Releasing(NodeHeld \cup {"pcm"})
  /\ pc' = "bad"
  /\ UNCHANGED <<flags, caller, given, ops, handle, device, set_configs,
                 faults>>

pcm_close_ResetFirst ==
  /\ pc = "ready"
  /\ caller' = "pcm_close"
  /\ MunmapStatus
  /\ buffer_size' = 0
  /\ faults' = faults \cup (IF MayUnmap THEN {} ELSE {"not_setup"})
  /\ pc' = IF "PCM_MMAP" \in flags THEN "close_stop" ELSE "close_node"
  /\ UNCHANGED <<flags, given, ops, config, device, set_configs>>

pcm_close ==
  /\ pc = "ready"
  /\ caller' = "pcm_close"
  /\ MunmapStatus
  /\ faults' = faults \cup (IF MayUnmap THEN {} ELSE {"not_setup"})
  /\ pc' = IF "PCM_MMAP" \in flags THEN "close_stop" ELSE "close_node"
  /\ UNCHANGED <<flags, given, ops, config, buffer_size, device,
                 set_configs>>

(* DROP takes a stream to SETUP; a plugin may refuse it. *)
Drop ==
  \/ (ops = "plug" \/ dev # "OPEN") /\ dev' = "SETUP"
  \/ (ops = "plug" \/ dev = "OPEN") /\ UNCHANGED dev

CloseStop ==
  /\ pc = "close_stop"
  /\ Drop
  /\ faults' = faults \cup (IF ops = "hw" \/ dev' = "SETUP" THEN {}
                                                         ELSE {"drop"})
  /\ wrong' = wrong \cup Calling
  /\ pc' = "close_buffer"
  /\ UNCHANGED <<flags, caller, given, ops, handle, held, hw, mapped,
                 set_configs>>

CloseBuffer ==
  /\ pc = "close_buffer"
  /\ MunmapBuffer
  /\ pc' = "close_node"
  /\ UNCHANGED <<flags, caller, given, ops, handle, dev, hw, set_configs,
                 faults>>

CloseDevice_Minus ==
  /\ pc = "close_node"
  /\ held' = ((held \ NodeHeld) \ Backend) \ {"pcm"}
  /\ wrong' = wrong \cup Releasing(NodeHeld \cup Backend \cup {"pcm"})
  /\ buffer_size' = -1
  /\ dev' = "none"
  /\ pc' = "closed"
  /\ UNCHANGED <<flags, caller, given, ops, ptrs, config, hw, mapped,
                 set_configs, faults>>

(* snd_utils_close_dev_node, ops->close and free(pcm) *)
CloseDevice ==
  /\ pc = "close_node"
  /\ held' = ((held \ NodeHeld) \ Backend) \ {"pcm"}
  /\ wrong' = wrong \cup Releasing(NodeHeld \cup Backend \cup {"pcm"})
  /\ buffer_size' = 0
  /\ dev' = "none"
  /\ pc' = "closed"
  /\ UNCHANGED <<flags, caller, given, ops, ptrs, config, hw, mapped,
                 set_configs, faults>>

-----------------------------------------------------------------------------
(* The rest of pcm_params_get: the block of parameters is allocated,       *)
(* refined, and either returned, for the client to free, or freed.         *)
ParamsAlloc ==
  /\ pc = "params_alloc"
  /\ \/ pc' = "params_refine" /\ held' = held \cup {"params"}
     \/ pc' = "err_calloc" /\ UNCHANGED held
  /\ UNCHANGED <<flags, caller, given, ops, handle, device, history>>

ParamsRefine ==
  /\ pc = "params_refine" /\ "data" \in ptrs
  /\ pc' \in {"params_close", "err_hw_refine"}
  /\ wrong' = wrong \cup Calling
  /\ UNCHANGED <<flags, caller, given, ops, handle, held, device,
                 set_configs, faults>>

ErrHwRefine ==
  /\ pc = "err_hw_refine"
  /\ held' = held \ {"params"}
  /\ wrong' = wrong \cup Releasing({"params"})
  /\ pc' = "err_calloc"
  /\ UNCHANGED <<flags, caller, given, ops, handle, device, set_configs,
                 faults>>

(* On both ways out snd_utils_close_dev_node, then ops->close.             *)
ParamsClose ==
  /\ pc \in {"params_close", "err_calloc"} /\ "data" \in ptrs
  /\ held' = (held \ NodeHeld) \ Backend
  /\ wrong' = wrong \cup Releasing(NodeHeld \cup Backend)
  /\ dev' = "none"
  /\ pc' = IF pc = "params_close" THEN "params" ELSE "returned"
  /\ UNCHANGED <<flags, caller, given, ops, handle, hw, mapped, set_configs,
                 faults>>

pcm_params_free ==
  /\ pc = "params"
  /\ held' = held \ {"params"}
  /\ wrong' = wrong \cup Releasing({"params"})
  /\ pc' = "returned"
  /\ UNCHANGED <<flags, caller, given, ops, handle, device, set_configs,
                 faults>>

-----------------------------------------------------------------------------
(* Calls of the client on an open handle.  RUNNING stands for every state  *)
(* behind PREPARED.                                                        *)

Unmoved == <<flags, caller, given, ops, handle, held, hw, mapped, pc,
             set_configs, faults>>

pcm_prepare ==
  /\ pc = "ready"
  /\ wrong' = wrong \cup Calling
  /\ \/ dev = "SETUP" /\ dev' = "PREPARED"
     \/ UNCHANGED dev
  /\ UNCHANGED Unmoved

(* It prepares a stream in SETUP first; either ioctl may fail. *)
pcm_start ==
  /\ pc = "ready"
  /\ wrong' = wrong \cup Calling
  /\ \/ dev \in {"SETUP", "PREPARED"} /\ dev' \in {"PREPARED", "RUNNING"}
     \/ UNCHANGED dev
  /\ UNCHANGED Unmoved

pcm_stop ==
  /\ pc = "ready"
  /\ wrong' = wrong \cup Calling
  /\ Drop
  /\ UNCHANGED Unmoved

(* The plugin wrapper stays in RUNNING. *)
pcm_drain ==
  /\ pc = "ready"
  /\ wrong' = wrong \cup Calling
  /\ \/ ops = "hw" /\ dev \in {"PREPARED", "RUNNING"} /\ dev' = "SETUP"
     \/ UNCHANGED dev
  /\ UNCHANGED Unmoved

-----------------------------------------------------------------------------

Arguments == Configs \cup {NullConfig}

Open ==
  \/ pcm_open_by_name
  \/ \E cfg \in Arguments : pcm_open(cfg)
  \/ pcm_params_get
  \/ pcm_hw_open
  \/ OpenNode
  \/ pcm_plug_open
  \/ NoData
  \/ Info
  \/ pcm_hw_mmap_status
  \/ SetTimestamp

SetConfig ==
  \/ \E cfg \in Arguments : pcm_set_config(cfg)
  \/ TakeConfig
  \/ HwParams
  \/ MapBuffer
  \/ SwParams

Release ==
  \/ FailStatus
  \/ FailBuffer
  \/ FailClose
  \/ FailCloseDevNode
  \/ pcm_close
  \/ CloseStop
  \/ CloseBuffer
  \/ CloseDevice

Params ==
  \/ ParamsAlloc
  \/ ParamsRefine
  \/ ErrHwRefine
  \/ ParamsClose
  \/ pcm_params_free

Use ==
  \/ pcm_prepare
  \/ pcm_start
  \/ pcm_stop
  \/ pcm_drain

Next == Open \/ SetConfig \/ Release \/ Params \/ Use

Spec == Init /\ [][Next]_vars
=============================================================================
