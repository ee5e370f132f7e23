------------------------- MODULE PcmLifecycle_proofs -------------------------
(***************************************************************************)
(* What a handle owns at every line, and that it is all released.          *)
(***************************************************************************)
EXTENDS PcmLifecycleProperties, TLAPS

Mmap == "PCM_MMAP" \in flags
Buffer == IF Mmap THEN {"buffer"} ELSE {}
Base == IF caller = "pcm_open" THEN {"pcm"} ELSE {}
Core == {"pcm"} \cup Backend \cup NodeHeld
StatusPointers == {"mmap_status", "mmap_control"}
Bare == ptrs \subseteq {"data", "snd_node", "mmap_buffer"}
HasStatus == StatusPointers \subseteq ptrs

(* Until the device is open. *)
OpeningInv ==
  /\ pc = "idle" => held = {} /\ ptrs = {} /\ ops = "hw"
  /\ pc \in {"hw_open", "open_node"} =>
       /\ caller \in {"pcm_open", "pcm_params_get"}
       /\ ptrs = {} /\ ops = "hw" /\ held = Base
  /\ pc = "plug_open" =>
       /\ caller \in {"pcm_open", "pcm_params_get"}
       /\ ptrs = {"snd_node"} /\ ops = "plug" /\ held = Base \cup Node
  /\ pc = "info" => caller = "pcm_open"
  /\ pc \in {"info", "params_alloc"} =>
       /\ ptrs \subseteq {"data", "snd_node"}
       /\ "data" \in ptrs => held = Base \cup Backend \cup NodeHeld

(* pcm_params_get with the device open, and the block of parameters.       *)
ParamsInv ==
  /\ pc \in {"params_alloc", "params_refine", "err_hw_refine", "err_calloc",
             "params_close"} => caller = "pcm_params_get"
  /\ pc = "err_calloc" /\ "data" \in ptrs => held = Backend \cup NodeHeld
  /\ pc = "params_refine" /\ "data" \in ptrs =>
       held = {"params"} \cup Backend \cup NodeHeld
  /\ pc \in {"err_hw_refine", "params_close"} =>
       held = {"params"} \cup Backend \cup NodeHeld

(* From the first line that configures to the last that releases. *)
OwnerInv ==
  /\ pc \in {"set_config", "hw_params", "sw_params"} =>
       /\ caller \in {"pcm_open", "pcm_set_config"}
       /\ "data" \in ptrs
       /\ caller = "pcm_open" => Bare
       /\ caller = "pcm_set_config" => HasStatus
  /\ pc \in {"set_config", "hw_params"} =>
       held = IF caller = "pcm_open" THEN Core
                                     ELSE Core \cup StatusHeld \cup Buffer
  /\ pc = "map_buffer" =>
       /\ caller = "pcm_open" /\ Mmap /\ "data" \in ptrs /\ Bare
       /\ held = Core
  /\ pc \in {"sw_params", "mmap_status", "ttstamp", "fail", "ready"} =>
       /\ "data" \in ptrs
       /\ held = Core \cup StatusHeld \cup Buffer
  /\ pc = "sw_params" /\ Mmap => caller = "pcm_open"
  /\ pc \in {"mmap_status", "ttstamp", "fail"} => caller = "pcm_open"
  /\ pc = "mmap_status" => Bare
  /\ pc \in {"ttstamp", "ready"} => HasStatus

(* While the call that ends the handle releases. *)
LeftInv ==
  /\ pc = "fail_buffer" =>
       caller = "pcm_open" /\ held = Core \cup {"buffer"}
  /\ pc \in {"fail_close", "fail_close_dev_node"} => caller = "pcm_open"
  /\ pc = "fail_close" =>
       /\ Core \subseteq held /\ held \subseteq Core \cup {"buffer"}
       /\ "buffer" \in held => "sw_params" \in faults
  /\ pc = "fail_close_dev_node" =>
       /\ {"pcm"} \cup NodeHeld \subseteq held
       /\ held \subseteq {"pcm", "buffer"} \cup NodeHeld
       /\ "buffer" \in held => "sw_params" \in faults
  /\ pc \in {"close_stop", "close_buffer"} =>
       /\ Core \cup {"buffer"} \subseteq held
       /\ held \subseteq Core \cup {"buffer"} \cup StatusPages
  /\ pc = "close_node" =>
       /\ Core \subseteq held
       /\ held \subseteq Core \cup {"buffer"} \cup StatusPages
       /\ "buffer" \in held => "drop" \in faults \/ "set_config" \in faults
  /\ pc \in {"close_stop", "close_buffer", "close_node"}
       /\ held \cap StatusPages # {} => "not_setup" \in faults

(* The device is set up wherever something may have to be unmapped; a      *)
(* plugin is set up once.                                                  *)
DeviceInv ==
  /\ pc \in {"map_buffer", "sw_params", "mmap_status", "ttstamp", "fail",
             "fail_buffer"} => dev = "SETUP"
  /\ pc = "ready" /\ ops = "plug" => dev # "OPEN"
  /\ pc \in {"set_config", "hw_params"} /\ caller = "pcm_set_config"
       /\ ops = "plug" => dev # "OPEN"
  /\ pc = "close_buffer" /\ ops = "plug" /\ dev # "SETUP" =>
       "drop" \in faults

(* The length to unmap is the length mapped. *)
LengthInv ==
  /\ pc \in {"sw_params", "mmap_status", "ttstamp", "fail", "fail_buffer"}
       /\ Mmap => mapped = BufferBytes
  /\ pc \in {"ready", "close_stop", "close_buffer"}
       /\ "set_config" \notin faults /\ Mmap => mapped = BufferBytes
  /\ pc \in {"fail_buffer", "close_stop", "close_buffer"} => Mmap
  /\ "length" \in wrong =>
       pc \in {"close_node", "closed"} /\ "set_config" \in faults

(* Everything about what is held, and all of it with the types. *)
Ownership ==
  /\ OpeningInv
  /\ ParamsInv
  /\ OwnerInv
  /\ LeftInv
  /\ DeviceInv
  /\ LengthInv
  /\ ReleasedOnce
  /\ ClosedClean

IInv == TypeOK /\ Ownership

-----------------------------------------------------------------------------
(* A bad release or call is one of the wrongs. *)
LEMMA WrongsTyped ==
  /\ \A rs : Releasing(rs) \subseteq Wrongs
  /\ Calling \subseteq Wrongs
  /\ {"length"} \subseteq Wrongs
BY DEF Releasing, Calling, Wrongs

(* The length of the buffer and the default thresholds are numbers. *)
LEMMA NumbersTyped ==
  ASSUME TypeOK
  PROVE  BufferBytes \in Nat /\ StartThreshold \in Nat
           /\ StopThreshold \in Nat
BY LifecycleAssumption
   DEF TypeOK, ConfigType, BufferBytes, StartThreshold, StopThreshold, Asked,
       AskedSize

(* Opening keeps the types. *)
LEMMA OpenTyped == TypeOK /\ Open => TypeOK'
<1> SUFFICES ASSUME TypeOK, Open PROVE TypeOK'
  OBVIOUS
<1> USE DEF TypeOK
<1>1. CASE pcm_open_by_name
  BY <1>1 DEF pcm_open_by_name, Places, handle, device, history
<1>2. ASSUME NEW cfg \in Arguments, pcm_open(cfg) PROVE TypeOK'
  BY <1>2 DEF pcm_open, Arguments, Places, Callers, Resources, handle,
    device, history
<1>3. CASE pcm_params_get
  BY <1>3 DEF pcm_params_get, Places, Callers, handle, device, history
<1>4. CASE pcm_hw_open
  <2>1. pc' \in Places
    BY <1>4 DEF pcm_hw_open, Places, Opened
  <2>2. ptrs' \subseteq Pointers
    BY <1>4 DEF pcm_hw_open, Pointers
  <2>3. \A step \in DOMAIN HwAcquired :
          HwAcquired[step] \ HwReleased[step] = {}
    BY DEF HwAcquired, HwReleased
  <2>4. held' \subseteq Resources
    BY <1>4, <2>3 DEF pcm_hw_open, Resources
  <2> QED BY <1>4, <2>1, <2>2, <2>4 DEF pcm_hw_open, history
<1>5. CASE OpenNode
  <2>1. pc' \in Places
    BY <1>5 DEF OpenNode, Places, NoDevice
  <2>2. ptrs' \subseteq Pointers
    BY <1>5 DEF OpenNode, Pointers
  <2>3. held' \subseteq Resources
    BY <1>5 DEF OpenNode, Resources, Node, NodeAcquired, NodeReleased
  <2>4. faults' \subseteq Faults
    BY <1>5 DEF OpenNode, Faults, NoDeviceFault
  <2> QED BY <1>5, <2>1, <2>2, <2>3, <2>4 DEF OpenNode, device
<1>6. CASE pcm_plug_open
  <2>1. pc' \in Places
    BY <1>6 DEF pcm_plug_open, Places, Opened, NoDevice
  <2>2. ptrs' \subseteq Pointers
    BY <1>6 DEF pcm_plug_open, Pointers
  <2>3. held' \subseteq Resources
    BY <1>6 DEF pcm_plug_open, Resources, PlugBackend, PlugAcquired,
      PlugReleased
  <2>4. faults' \subseteq Faults
    BY <1>6 DEF pcm_plug_open, Faults, NoDeviceFault
  <2> QED BY <1>6, <2>1, <2>2, <2>3, <2>4 DEF pcm_plug_open
<1>7. CASE NoData
  BY <1>7 DEF NoData, Places, handle, device, history
<1>8. CASE Info
  BY <1>8, WrongsTyped DEF Info, Places, handle, device
<1>9. CASE pcm_hw_mmap_status
  BY <1>9, WrongsTyped DEF pcm_hw_mmap_status, Places, Pointers, Resources,
    StatusPages, device, StatusAcquired, StatusReleased
<1>10. CASE SetTimestamp
  BY <1>10, WrongsTyped DEF SetTimestamp, Places, handle, device
<1> QED BY <1>1, <1>2, <1>3, <1>4, <1>5, <1>6, <1>7, <1>8, <1>9, <1>10 DEF Open

(* Configuring keeps the types. *)
LEMMA SetConfigTyped == TypeOK /\ SetConfig => TypeOK'
<1> SUFFICES ASSUME TypeOK, SetConfig PROVE TypeOK'
  OBVIOUS
<1> USE DEF TypeOK
<1>1. ASSUME NEW cfg \in Arguments, pcm_set_config(cfg) PROVE TypeOK'
  BY <1>1, LifecycleAssumption
     DEF pcm_set_config, Arguments, Places, Callers, handle, device
<1>2. CASE TakeConfig
  <2>1. pc' \in Places
    BY <1>2 DEF TakeConfig, SetConfigFails, Places
  <2>2. config' \in ConfigType
    BY <1>2, LifecycleAssumption DEF TakeConfig
  <2>3. faults' \subseteq Faults
    BY <1>2 DEF TakeConfig, SetConfigFails, Faults
  <2> QED BY <1>2, <2>1, <2>2, <2>3 DEF TakeConfig, device
<1>3. CASE HwParams
  BY <1>3, LifecycleAssumption
     DEF HwParams, Places, ConfigType, Calling, Wrongs, Faults,
       SetConfigFails, Refined, RefinedConfig, NoSetup, AcceptsHwParams
<1>4. CASE MapBuffer
  <2>1. pc' \in Places
    BY <1>4 DEF MapBuffer, SetConfigFails, Places
  <2>2. ptrs' \subseteq Pointers
    BY <1>4 DEF MapBuffer, Pointers
  <2>3. held' \subseteq Resources
    BY <1>4 DEF MapBuffer, Resources
  <2>4. faults' \subseteq Faults
    BY <1>4 DEF MapBuffer, SetConfigFails, Faults
  <2>5. mapped' \in Nat
    BY <1>4, NumbersTyped DEF MapBuffer
  <2> QED BY <1>4, <2>1, <2>2, <2>3, <2>4, <2>5, WrongsTyped DEF MapBuffer
<1>5. CASE SwParams
  <2>1. pc' \in Places
    BY <1>5 DEF SwParams, SetConfigFails, Places
  <2>2. config' \in ConfigType
    BY <1>5, NumbersTyped DEF SwParams, ConfigType
  <2>3. faults' \subseteq Faults
    BY <1>5 DEF SwParams, SetConfigFails, Faults
  <2> QED BY <1>5, <2>1, <2>2, <2>3, WrongsTyped DEF SwParams, device
<1> QED BY <1>1, <1>2, <1>3, <1>4, <1>5 DEF SetConfig

(* Releasing keeps the types. *)
LEMMA ReleaseTyped == TypeOK /\ Release => TypeOK'
<1> SUFFICES ASSUME TypeOK, Release PROVE TypeOK'
  OBVIOUS
<1> USE WrongsTyped DEF TypeOK
<1>1. CASE FailStatus
  BY <1>1 DEF FailStatus, Places, MunmapStatus, device
<1>2. CASE FailBuffer
  <2>1. held' \subseteq Resources /\ wrong' \subseteq Wrongs
    BY <1>2 DEF FailBuffer, MunmapBuffer
  <2>2. mapped' \in Nat
    BY <1>2, NumbersTyped DEF FailBuffer, MunmapBuffer
  <2> QED BY <1>2, <2>1, <2>2 DEF FailBuffer, Places, handle
<1>3. CASE FailClose
  BY <1>3 DEF FailClose, Places, handle
<1>4. CASE FailCloseDevNode
  BY <1>4 DEF FailCloseDevNode, Places, handle, device
<1>5. CASE pcm_close
  BY <1>5 DEF pcm_close, Places, Callers, MunmapStatus, Faults, device
<1>6. CASE CloseStop
  BY <1>6 DEF CloseStop, Places, Drop, Faults, handle
<1>7. CASE CloseBuffer
  <2>1. held' \subseteq Resources /\ wrong' \subseteq Wrongs
    BY <1>7 DEF CloseBuffer, MunmapBuffer
  <2>2. mapped' \in Nat
    BY <1>7, NumbersTyped DEF CloseBuffer, MunmapBuffer
  <2> QED BY <1>7, <2>1, <2>2 DEF CloseBuffer, Places, handle
<1>8. CASE CloseDevice
  BY <1>8 DEF CloseDevice, Places
<1> QED BY <1>1, <1>2, <1>3, <1>4, <1>5, <1>6, <1>7, <1>8 DEF Release

(* Getting parameters keeps the types. *)
LEMMA ParamsTyped == TypeOK /\ Params => TypeOK'
BY WrongsTyped
   DEF TypeOK, Params, ParamsAlloc, ParamsRefine, ErrHwRefine, ParamsClose,
     pcm_params_free, Places, Resources, handle, device, history

(* Using keeps the types. *)
LEMMA UseTyped == TypeOK /\ Use => TypeOK'
BY WrongsTyped
   DEF TypeOK, Use, pcm_prepare, pcm_start, pcm_stop, pcm_drain, Drop,
     Unmoved, handle

-----------------------------------------------------------------------------
(* Opening: what the opener acquired and released on its way. *)
LEMMA OpenOwns == IInv /\ Open => Ownership'
<1> SUFFICES ASSUME IInv, Open PROVE Ownership'
  OBVIOUS
<1> USE DEF IInv, Ownership, OpeningInv, ParamsInv, OwnerInv, LeftInv, DeviceInv,
    LengthInv, ReleasedOnce, ClosedClean
<1>1. CASE pcm_open_by_name
  BY <1>1 DEF pcm_open_by_name, history
<1>2. ASSUME NEW cfg \in Arguments, pcm_open(cfg) PROVE Ownership'
  BY <1>2 DEF pcm_open, Base, handle, history
<1>3. CASE pcm_params_get
  BY <1>3 DEF pcm_params_get, Base, handle, history
<1>4. CASE pcm_hw_open
  BY <1>4 DEF pcm_hw_open, Base, Backend, NodeHeld, history, HwAcquired,
    HwReleased, Opened
<1>5. CASE OpenNode
  BY <1>5 DEF OpenNode, Node, Base, NodeHeld, LeakOf, NodeAcquired,
    NodeReleased, NoDevice, NoDeviceFault
<1>6. CASE pcm_plug_open
  BY <1>6 DEF pcm_plug_open, Node, Base, Backend, NodeHeld, LeakOf,
    PlugAcquired, PlugReleased, Opened, NoDevice, NoDeviceFault
<1>7. CASE NoData
  BY <1>7 DEF NoData, history
<1>8. CASE Info
  BY <1>8 DEF Info, HwBackend, PlugBackend, Node, Base, Core, Backend,
    NodeHeld, handle, Bare, Calling
<1>9. CASE pcm_hw_mmap_status
  BY <1>9 DEF pcm_hw_mmap_status, StatusPages, Core, Buffer, Mmap, Backend,
    NodeHeld, StatusHeld, device, StatusPointers, Bare, HasStatus, Calling,
    BufferBytes, StatusAcquired, StatusReleased
<1>10. CASE SetTimestamp
  BY <1>10 DEF SetTimestamp, Core, Buffer, Mmap, Backend, NodeHeld,
    StatusHeld, handle, device, HasStatus, Calling, BufferBytes
<1> QED BY <1>1, <1>2, <1>3, <1>4, <1>5, <1>6, <1>7, <1>8, <1>9, <1>10 DEF Open

(* Configuring: only pcm_open's own call gets as far as the mapping. *)
LEMMA SetConfigOwns == IInv /\ SetConfig => Ownership'
<1> SUFFICES ASSUME IInv, SetConfig PROVE Ownership'
  OBVIOUS
<1> USE DEF IInv, Ownership, OpeningInv, ParamsInv, OwnerInv, LeftInv, DeviceInv,
    LengthInv, ReleasedOnce, ClosedClean, Core, Buffer, Mmap, Backend,
    NodeHeld, StatusHeld, HasStatus
<1>1. ASSUME NEW cfg \in Arguments, pcm_set_config(cfg) PROVE Ownership'
  BY <1>1 DEF pcm_set_config, handle, device
<1>2. CASE TakeConfig
  BY <1>2 DEF TakeConfig, HwBackend, PlugBackend, Node, device, Bare,
    SetConfigFails
<1>3. CASE HwParams
  BY <1>3 DEF HwParams, HwBackend, PlugBackend, Node, Bare, Calling, TypeOK,
    SetConfigFails, AcceptsHwParams
<1>4. CASE MapBuffer
  BY <1>4 DEF MapBuffer, HwBackend, PlugBackend, Node, Bare, Calling,
    BufferBytes, SetConfigFails
<1>5. CASE SwParams
  BY <1>5 DEF SwParams, device, Bare, Calling, BufferBytes, SetConfigFails
<1> QED BY <1>1, <1>2, <1>3, <1>4, <1>5 DEF SetConfig

(* Releasing: each line finds what it releases. *)
LEMMA ReleaseOwns == IInv /\ Release => Ownership'
<1> SUFFICES ASSUME IInv, Release PROVE Ownership'
  OBVIOUS
<1> USE DEF IInv, Ownership, OpeningInv, ParamsInv, OwnerInv, LeftInv, DeviceInv,
    LengthInv, ReleasedOnce, ClosedClean, Releasing, Backend, NodeHeld,
    HwBackend, PlugBackend, Node, Core
<1>1. CASE FailStatus
  BY <1>1 DEF FailStatus, Buffer, Mmap, StatusHeld, device, Calling,
    BufferBytes, MunmapStatus, MayUnmap
<1>2. CASE FailBuffer
  BY <1>2 DEF FailBuffer, handle, Calling, TypeOK, MunmapBuffer, MayUnmap
<1>3. CASE FailClose
  BY <1>3 DEF FailClose, handle
<1>4. CASE FailCloseDevNode
  BY <1>4 DEF FailCloseDevNode, LeakOf
<1>5. CASE pcm_close
  BY <1>5 DEF pcm_close, StatusPages, Buffer, Mmap, StatusHeld, device,
    Calling, BufferBytes, MunmapStatus
<1>6. CASE CloseStop
  BY <1>6 DEF CloseStop, Mmap, handle, Calling, BufferBytes
<1>7. CASE CloseBuffer
  BY <1>7 DEF CloseBuffer, handle, Calling, TypeOK, MunmapBuffer, MayUnmap
<1>8. CASE CloseDevice
  BY <1>8 DEF CloseDevice, StatusPages, LeakOf
<1> QED BY <1>1, <1>2, <1>3, <1>4, <1>5, <1>6, <1>7, <1>8 DEF Release

(* The block of parameters is released on one way out, returned on the     *)
(* other; the device and the node are released on both.                    *)
LEMMA ParamsOwns == IInv /\ Params => Ownership'
<1> SUFFICES ASSUME IInv, Params PROVE Ownership'
  OBVIOUS
<1> USE DEF IInv, Ownership, OpeningInv, ParamsInv, OwnerInv, LeftInv,
    DeviceInv, LengthInv, ReleasedOnce, ClosedClean, Releasing, Calling,
    Backend, NodeHeld, HwBackend, PlugBackend, Node, Base
<1>1. CASE ParamsAlloc
  BY <1>1 DEF ParamsAlloc, handle, device, history
<1>2. CASE ParamsRefine
  BY <1>2 DEF ParamsRefine, handle, device
<1>3. CASE ErrHwRefine
  BY <1>3 DEF ErrHwRefine, handle, device
<1>4. CASE ParamsClose
  BY <1>4 DEF ParamsClose, handle
<1>5. CASE pcm_params_free
  BY <1>5 DEF pcm_params_free, handle, device
<1> QED BY <1>1, <1>2, <1>3, <1>4, <1>5 DEF Params

(* In between nothing changes hands. *)
LEMMA UseOwns == IInv /\ Use => Ownership'
<1> SUFFICES ASSUME IInv, Use PROVE Ownership'
  OBVIOUS
<1> USE DEF IInv, Ownership, OpeningInv, ParamsInv, OwnerInv, LeftInv, DeviceInv,
    LengthInv, ReleasedOnce, ClosedClean, Core, Buffer, Mmap, Backend,
    NodeHeld, StatusHeld, HasStatus, Calling, BufferBytes, handle, Unmoved
<1>1. CASE pcm_prepare
  BY <1>1 DEF pcm_prepare
<1>2. CASE pcm_start
  BY <1>2 DEF pcm_start
<1>3. CASE pcm_stop
  BY <1>3 DEF pcm_stop, Drop
<1>4. CASE pcm_drain
  BY <1>4 DEF pcm_drain
<1> QED BY <1>1, <1>2, <1>3, <1>4 DEF Use

-----------------------------------------------------------------------------
(* Every step keeps the invariant. *)
LEMMA Inductive == IInv /\ [Next]_vars => IInv'
<1> SUFFICES ASSUME IInv, [Next]_vars PROVE IInv'
  OBVIOUS
<1>1. CASE Next
  <2>1. TypeOK'
    BY <1>1, OpenTyped, SetConfigTyped, ReleaseTyped, ParamsTyped, UseTyped
       DEF Next, IInv
  <2>2. Ownership'
    BY <1>1, OpenOwns, SetConfigOwns, ReleaseOwns, ParamsOwns, UseOwns DEF Next
  <2> QED BY <2>1, <2>2 DEF IInv
<1>2. CASE UNCHANGED vars
  BY <1>2 DEF vars, handle, device, history, IInv, TypeOK, Ownership,
    OpeningInv, ParamsInv, OwnerInv, LeftInv, DeviceInv, LengthInv, ReleasedOnce,
    ClosedClean, Core, Base, Buffer, Mmap, Backend, NodeHeld, StatusHeld,
    HasStatus, Bare, BufferBytes
<1> QED BY <1>1, <1>2

(* It holds at the start. *)
LEMMA Initial == Init => IInv
<1> SUFFICES ASSUME Init PROVE IInv
  OBVIOUS
<1> USE DEF Init
<1>1. TypeOK
  BY LifecycleAssumption DEF TypeOK, Places, Callers, ConfigType, NoConfig,
    NoSetup
<1>2. Ownership
  BY DEF Ownership, OpeningInv, ParamsInv, OwnerInv, LeftInv, DeviceInv, LengthInv,
    ReleasedOnce, ClosedClean
<1> QED BY <1>1, <1>2 DEF IInv

(* The invariant holds in every reachable state. *)
THEOREM Invariance == Spec => []IInv
<1>1. Init => IInv
  BY Initial
<1>2. IInv /\ [Next]_vars => IInv'
  BY Inductive
<1> QED BY <1>1, <1>2, PTL DEF Spec

(* The variables keep their types, for every set of configurations and     *)
(* every device.                                                           *)
THEOREM TypeCorrect == Spec => []TypeOK
<1>1. IInv => TypeOK
  BY DEF IInv
<1> QED BY <1>1, Invariance, PTL

(* Whatever failed on the way, a handle that pcm_open returned owns what   *)
(* its pointers and flags say, no more and no less.                        *)
THEOREM HandleOwnsCorrect == Spec => []HandleOwns
<1>1. IInv => HandleOwns
  BY DEF IInv, Ownership, OwnerInv, HandleOwns, Owned, Core, Buffer, Mmap,
    HasStatus, StatusPointers
<1> QED BY <1>1, Invariance, PTL

(* No exit of pcm_open or pcm_params_get and no line of pcm_close releases *)
(* what is not held or calls a closed backend.                             *)
THEOREM ReleasedOnceCorrect == Spec => []ReleasedOnce
<1>1. IInv => ReleasedOnce
  BY DEF IInv, Ownership
<1> QED BY <1>1, Invariance, PTL

(* What is left when a call is over is left by one of the five failures.   *)
THEOREM ClosedCleanCorrect == Spec => []ClosedClean
<1>1. IInv => ClosedClean
  BY DEF IInv, Ownership
<1> QED BY <1>1, Invariance, PTL

(* Only a failed pcm_set_config makes pcm_close unmap a wrong length.      *)
THEOREM UnmappedWholeCorrect == Spec => []UnmappedWhole
<1>1. IInv => UnmappedWhole
  BY DEF IInv, Ownership, LengthInv, UnmappedWhole
<1> QED BY <1>1, Invariance, PTL

-----------------------------------------------------------------------------
(* The configuration the handle keeps *)

(* What pcm_set_config leaves of its argument once the device took it. *)
SetUp ==
  /\ config.period_size = hw.period_size
  /\ config.frame_bytes = hw.frame_bytes
  /\ buffer_size = PeriodCount * Asked.period_size

ThresholdsSet ==
  AskedSize >= 2 => config.start_threshold # 0 /\ config.stop_threshold # 0

Configured == SetUp /\ ThresholdsSet

(* pcm->config from the line that takes it to the end of the call, and as  *)
(* long as no later call fails.                                            *)
ConfigInv ==
  /\ pc = "hw_params" =>
       config = IF given = NullConfig THEN DefaultConfig ELSE given
  /\ pc \in {"map_buffer", "sw_params"} =>
       /\ SetUp
       /\ given # NullConfig =>
            /\ config.start_threshold = given.start_threshold
            /\ config.stop_threshold = given.stop_threshold
  /\ pc \in {"mmap_status", "ttstamp"} => Configured
  /\ pc = "ready" /\ "set_config" \notin faults => Configured /\ dev # "OPEN"

LEMMA ConfigTyped ==
  ASSUME TypeOK
  PROVE  /\ given = NullConfig \/ given \in ConfigType
         /\ config \in ConfigType /\ Asked \in ConfigType
         /\ AskedSize \in Nat
BY LifecycleAssumption DEF TypeOK, Asked, AskedSize, ConfigType

(* A default of a buffer of two frames or more is not zero.                *)
LEMMA DefaultsSet ==
  ASSUME TypeOK, AskedSize >= 2,
         Asked.start_threshold = config.start_threshold,
         Asked.stop_threshold = config.stop_threshold
  PROVE  StartThreshold # 0 /\ StopThreshold # 0
<1>1. AskedSize \in Nat
  BY ConfigTyped
<1>2. AskedSize \div 2 # 0 /\ AskedSize * 10 # 0 /\ AskedSize # 0
  BY <1>1
<1> HIDE DEF AskedSize
<1> QED BY <1>2 DEF StartThreshold, StopThreshold

LEMMA SetConfigAgrees == IInv /\ ConfigInv /\ SetConfig => ConfigInv'
<1> SUFFICES ASSUME IInv, ConfigInv, SetConfig PROVE ConfigInv'
  OBVIOUS
<1>0. TypeOK
  BY DEF IInv
<1>1. ASSUME NEW cfg \in Arguments, pcm_set_config(cfg) PROVE ConfigInv'
  BY <1>1 DEF pcm_set_config, ConfigInv
<1>2. CASE TakeConfig
  BY <1>2 DEF TakeConfig, SetConfigFails, ConfigInv
<1>3. CASE HwParams
  <2>1. CASE /\ pc' \in {"map_buffer", "sw_params"} /\ pc = "hw_params"
             /\ given' = given
             /\ \E p \in Refined :
                  /\ hw' = [period_size |-> p, frame_bytes |-> config.frame_bytes]
                  /\ config' = RefinedConfig(p)
                  /\ buffer_size' =
                       PeriodCount * (IF given = NullConfig
                                      THEN p ELSE given.period_size)
    <3>1. PICK p \in Refined :
            /\ hw' = [period_size |-> p, frame_bytes |-> config.frame_bytes]
            /\ config' = RefinedConfig(p)
            /\ buffer_size' =
                 PeriodCount * (IF given = NullConfig THEN p ELSE given.period_size)
      BY <2>1
    <3>2. /\ config'.period_size = p
          /\ config'.frame_bytes = config.frame_bytes
          /\ config'.start_threshold = config.start_threshold
          /\ config'.stop_threshold = config.stop_threshold
      BY <1>0, <3>1, ConfigTyped DEF RefinedConfig, ConfigType
    <3>3. SetUp'
      BY <2>1, <3>1, <3>2 DEF SetUp, Asked
    <3>4. given # NullConfig => config = given
      BY <2>1 DEF ConfigInv
    <3> QED BY <2>1, <3>2, <3>3, <3>4 DEF ConfigInv
  <2>2. CASE SetConfigFails({})
    BY <2>2 DEF SetConfigFails, ConfigInv
  <2>3. pc = "hw_params" /\ given' = given
    BY <1>3 DEF HwParams
  <2>4. \/ SetConfigFails({})
        \/ /\ pc' = IF "PCM_MMAP" \in flags THEN "map_buffer" ELSE "sw_params"
           /\ \E p \in Refined :
                /\ hw' = [period_size |-> p, frame_bytes |-> config.frame_bytes]
                /\ config' = RefinedConfig(p)
                /\ buffer_size' =
                     PeriodCount * (IF given = NullConfig
                                    THEN p ELSE given.period_size)
    BY <1>3 DEF HwParams
  <2> QED BY <2>1, <2>2, <2>3, <2>4
<1>4. CASE MapBuffer
  <2>1. CASE SetConfigFails({})
    BY <2>1 DEF SetConfigFails, ConfigInv
  <2>2. CASE pc' = "sw_params"
    BY <1>4, <2>2 DEF MapBuffer, ConfigInv, SetUp, Asked
  <2> QED BY <1>4, <2>1, <2>2 DEF MapBuffer
<1>5. CASE SwParams
  <2>1. CASE SetConfigFails({"sw_params"})
    BY <2>1 DEF SetConfigFails, ConfigInv
  <2>2. CASE ~SetConfigFails({"sw_params"})
    <3>1. /\ pc = "sw_params" /\ pc' \in {"mmap_status", "ready"}
          /\ UNCHANGED <<given, buffer_size, dev, hw>> /\ dev = "SETUP"
          /\ config' = [config EXCEPT !.start_threshold = StartThreshold,
                                      !.stop_threshold = StopThreshold]
      BY <1>5, <2>2 DEF SwParams, device, IInv, Ownership, DeviceInv
    <3>2. /\ config'.start_threshold = StartThreshold
          /\ config'.stop_threshold = StopThreshold
          /\ config'.period_size = config.period_size
          /\ config'.frame_bytes = config.frame_bytes
      BY <1>0, <3>1, ConfigTyped DEF ConfigType
    <3>3. Asked'.period_size = Asked.period_size /\ AskedSize' = AskedSize
      BY <3>1, <3>2 DEF Asked, AskedSize
    <3>4. SetUp'
      BY <3>1, <3>2, <3>3 DEF SetUp, ConfigInv
    <3>5. ThresholdsSet'
      <4>1. /\ Asked.start_threshold = config.start_threshold
            /\ Asked.stop_threshold = config.stop_threshold
        BY <3>1 DEF ConfigInv, Asked
      <4>2. AskedSize >= 2 => StartThreshold # 0 /\ StopThreshold # 0
        BY <1>0, <4>1, DefaultsSet
      <4> QED BY <3>2, <3>3, <4>2 DEF ThresholdsSet
    <3> QED BY <3>1, <3>4, <3>5 DEF ConfigInv, Configured
  <2> QED BY <2>1, <2>2
<1> QED BY <1>1, <1>2, <1>3, <1>4, <1>5 DEF SetConfig

(* No other call changes the configuration of an open handle.              *)
LEMMA ElsewhereAgrees ==
  IInv /\ ConfigInv /\ (Open \/ Release \/ Params \/ Use \/ UNCHANGED vars) =>
    ConfigInv'
<1> SUFFICES ASSUME IInv, ConfigInv,
                    Open \/ Release \/ Params \/ Use \/ UNCHANGED vars
             PROVE  ConfigInv'
  OBVIOUS
<1>1. CASE Open
  <2>1. CASE pcm_hw_mmap_status \/ SetTimestamp
    <3>1. /\ pc \in {"mmap_status", "ttstamp"}
          /\ pc' \in {"ttstamp", "ready", "fail"}
          /\ UNCHANGED <<given, config, buffer_size, hw, dev>>
          /\ dev = "SETUP"
      BY <2>1 DEF pcm_hw_mmap_status, SetTimestamp, handle, device, IInv,
                  Ownership, DeviceInv
    <3> QED BY <3>1 DEF ConfigInv, Configured, SetUp, ThresholdsSet, Asked,
                        AskedSize
  <2>2. CASE ~(pcm_hw_mmap_status \/ SetTimestamp)
    <3>1. pc' \in {"bad", "hw_open", "returned", "open_node", "plug_open",
                   "fail_close_dev_node", "info", "params_alloc", "crashed",
                   "set_config", "fail_close"}
      BY <1>1, <2>2 DEF Open, pcm_open_by_name, pcm_open, pcm_params_get,
             pcm_hw_open, OpenNode, pcm_plug_open, NoData, Info, Opened,
             NoDevice
    <3> QED BY <3>1 DEF ConfigInv
  <2> QED BY <2>1, <2>2
<1>2. CASE Release
  <2>1. pc' \in {"fail_buffer", "fail_close", "fail_close_dev_node", "bad",
                 "close_stop", "close_buffer", "close_node", "closed",
                 "returned"}
    BY <1>2 DEF Release, FailStatus, FailBuffer, FailClose, FailCloseDevNode,
           pcm_close, CloseStop, CloseBuffer, CloseDevice
  <2> QED BY <2>1 DEF ConfigInv
<1>3. CASE Use
  <2>1. /\ pc = "ready"
        /\ UNCHANGED <<pc, given, config, buffer_size, hw, faults>>
        /\ dev' = dev \/ dev' # "OPEN"
    BY <1>3 DEF Use, pcm_prepare, pcm_start, pcm_stop, pcm_drain, Drop,
                Unmoved, handle
  <2> QED BY <2>1 DEF ConfigInv, Configured, SetUp, ThresholdsSet, Asked,
                      AskedSize
<1>4. CASE UNCHANGED vars
  BY <1>4 DEF vars, handle, device, history, ConfigInv, Configured, SetUp,
              ThresholdsSet, Asked, AskedSize
<1>5. CASE Params
  <2>1. pc' \in {"params_refine", "err_calloc", "params_close",
                 "err_hw_refine", "params", "returned"}
    BY <1>5 DEF Params, ParamsAlloc, ParamsRefine, ErrHwRefine, ParamsClose,
           pcm_params_free
  <2> QED BY <2>1 DEF ConfigInv
<1> QED BY <1>1, <1>2, <1>3, <1>4, <1>5

(* However often pcm_set_config is called, with a configuration or without *)
(* one: unless the last call failed, the handle's configuration is what    *)
(* the device was set up with, and its thresholds are set.                 *)
THEOREM ConfigAgreesCorrect == Spec => []ConfigAgrees
<1>1. Init => ConfigInv
  BY DEF Init, ConfigInv
<1>2. IInv /\ ConfigInv /\ [Next]_vars => ConfigInv'
  BY SetConfigAgrees, ElsewhereAgrees DEF Next
<1>3. IInv /\ ConfigInv => ConfigAgrees
  <2> SUFFICES ASSUME IInv, ConfigInv, pc = "ready", "set_config" \notin faults
               PROVE  ConfigAgrees
    BY DEF ConfigAgrees
  <2>1. SetUp /\ ThresholdsSet /\ dev # "OPEN"
    BY DEF ConfigInv, Configured
  <2>2. "PCM_MMAP" \in flags => mapped = BufferBytes
    BY DEF IInv, Ownership, LengthInv, Mmap
  <2>3. \/ given # NullConfig /\ given.period_size # hw.period_size
        \/ buffer_size = PeriodCount * hw.period_size
    BY <2>1 DEF SetUp, Asked
  <2> QED BY <2>1, <2>2, <2>3 DEF ConfigAgrees, SetUp, ThresholdsSet
<1> QED BY <1>1, <1>2, <1>3, Invariance, PTL DEF Spec
=============================================================================
