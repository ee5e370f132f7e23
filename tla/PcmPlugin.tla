------------------------------ MODULE PcmPlugin ------------------------------
(***************************************************************************)
(* A stream whose device is a plugin: the wrapper of src/src/pcm_plugin.c, *)
(* which keeps the stream's state and lets a call through to the plugin in *)
(* some states only, and above it the read/write transfer, configuration   *)
(* and control calls of src/src/pcm.c.  One thread opens, configures and   *)
(* transfers; another may stop the stream between any two of its steps.    *)
(*                                                                         *)
(* The calls above were written for a kernel, which sets errno when it     *)
(* refuses.  The wrapper returns -EBADFD and leaves errno as it was, and a *)
(* plugin may do the same.                                                 *)
(***************************************************************************)
EXTENDS HwParams

CONSTANTS
  Constraints,   \* what the plugins that may be opened can do
  Configs,       \* the configurations a client passes
  FlagSets,      \* the flags it opens a stream with
  PluginErrors,  \* the errno a failing plugin may set
  None           \* no parameters

ConfigType ==
  [channels : Nat, rate : Nat, period_size : Nat, period_count : Nat,
   format : Format]

MinMax == [min : Nat, max : Nat]

ConstraintType ==
  [access : SUBSET Access, format : SUBSET AlsaFormat, bit_width : MinMax,
   channels : MinMax, rate : MinMax, periods : MinMax, period_bytes : MinMax]

Errno == {"none", "EPIPE", "ESTRPIPE", "EIO"}

ASSUME PluginAssumption ==
  /\ Constraints \subseteq ConstraintType
  /\ \A c \in Constraints : UInt(c.bit_width.min * c.channels.min) > 0
  /\ Configs \subseteq ConfigType
  /\ FlagSets \subseteq SUBSET {"PCM_IN", "PCM_MMAP", "PCM_NORESTART"}
  /\ PluginErrors \subseteq Errno \ {"none"}
  /\ \A c \in Constraints, f \in FlagSets, cfg \in Configs :
       Granted(c, cfg, f) # None

VARIABLES
  cons,      \* plugin->constraints; they never change
  flags,     \* pcm->flags; they never change
  reported,  \* the parameters pcm_params_get returned
  state,     \* plugin->state
  params,    \* the parameters the plugin was set up with
  config,    \* pcm->config
  asked,     \* the configuration they were asked for with
  seen,      \* pcm->mmap_status->state: a copy the library fetched
  pc,        \* the next step of the calling thread
  caller,    \* the function it is in
  errno,     \* of the calling thread
  agreed,    \* history: the last pcm_set_config returned 0
  silent     \* history: a configuration failed while errno was zero

plugin == <<state, params>>
handle == <<config, asked, seen>>
history == <<agreed, silent>>
vars == <<cons, flags, reported, plugin, handle, pc, caller, errno,
          history>>

PlugState == {"OPEN", "SETUP", "PREPARED", "RUNNING"}

Init ==
  /\ cons \in Constraints /\ flags \in FlagSets
  /\ reported = None
  /\ state = "OPEN" /\ params = None
  /\ config = None /\ asked = None /\ seen = "OPEN"
  /\ pc = "closed" /\ caller = "none" /\ errno = "none"
  /\ agreed = FALSE /\ silent = FALSE

(* Tables of what is negotiated, which the steps below look up.            *)
Anything == [c \in Constraints |-> pcm_plug_hrefine(c, param_init)]
GrantedTo ==
  [c \in Constraints |->
     [f \in FlagSets |-> [cfg \in Configs |-> Granted(c, cfg, f)]]]

(* A call goes on, or returns to the client.                               *)
Goto(label) == pc' = label /\ UNCHANGED caller
Return == pc' = "idle" /\ caller' = "none"

(* A plugin that fails may set errno or not; so does the wrapper when it   *)
(* refuses, which never sets it.                                           *)
PluginFails == errno' \in PluginErrors \cup {errno}
Refuses == UNCHANGED errno

-----------------------------------------------------------------------------
(* The parameters of a device without a handle, and opening *)

(* pcm_params_get opens the plugin, refines what could be anything, and    *)
(* closes it.                                                              *)
pcm_params_get ==
  /\ pc = "closed"
  /\ reported' = Anything[cons]
  /\ UNCHANGED <<plugin, handle, pc, caller, errno, history>>

(* The plugin is opened; pcm_plug_info finds a device of this direction in *)
(* the card definition, or pcm_open closes it again.                       *)
pcm_open(cfg) ==
  /\ pc = "closed"
  /\ pc' = "hw_params"
  /\ caller' = "pcm_open"
  /\ state' = "OPEN" /\ params' = None
  /\ config' = cfg
  /\ asked' = cfg
  /\ seen' = "OPEN"
  /\ agreed' = FALSE /\ silent' = FALSE
  /\ UNCHANGED <<reported, errno>>

pcm_set_config(cfg) ==
  /\ pc = "idle"
  /\ pc' = "hw_params"
  /\ caller' = "pcm_set_config"
  /\ config' = cfg
  /\ asked' = IF state = "OPEN" THEN cfg ELSE asked
  /\ UNCHANGED <<reported, plugin, seen, errno, history>>

(* int errno_copy = errno; ... return -errno_copy;                         *)
SetConfigFails ==
  LET failed == errno' # "none"
  IN  /\ silent' = (silent \/ ~failed)
      /\ agreed' = ~failed
      /\ IF failed /\ caller = "pcm_open"
         THEN pc' = "closed" /\ caller' = "none"
         ELSE Return

pcm_plug_hparams ==
  /\ pc = "hw_params"
  /\ \/ /\ state = "OPEN"
        /\ state' = "SETUP"
        /\ params' = GrantedTo[cons][flags][config]
        /\ config' = RefinedConfig(config, params')
        /\ Goto(IF "PCM_MMAP" \in flags THEN "map" ELSE "sw_params")
        /\ UNCHANGED <<errno, history>>
     \/ /\ IF state = "OPEN" THEN PluginFails ELSE Refuses
        /\ SetConfigFails
        /\ UNCHANGED <<plugin, config>>
  /\ UNCHANGED <<reported, asked, seen>>

(* The plugins modelled have nothing to map: neither a buffer, nor, in     *)
(* pcm_hw_mmap_status, the status, which is fetched by ioctl then.         *)
pcm_plug_mmap ==
  /\ pc = "map"
  /\ PluginFails /\ SetConfigFails
  /\ UNCHANGED <<reported, plugin, handle>>

pcm_plug_sparams ==
  /\ pc = "sw_params"
  /\ \/ /\ state = "SETUP"
        /\ Return
        /\ agreed' = TRUE
        /\ UNCHANGED <<errno, silent>>
     \/ /\ IF state = "SETUP" THEN PluginFails ELSE Refuses
        /\ SetConfigFails
  /\ UNCHANGED <<reported, plugin, handle>>

pcm_close ==
  /\ pc = "idle"
  /\ Goto("closed")
  /\ state' = "OPEN" /\ params' = None
  /\ config' = None /\ asked' = None /\ seen' = "OPEN"
  /\ agreed' = FALSE /\ silent' = FALSE
  /\ UNCHANGED <<reported, errno>>

-----------------------------------------------------------------------------
(* pcm_prepare, pcm_start and the transfer calls *)

Enter(function, label) ==
  /\ pc = "idle"
  /\ caller' = function
  /\ pc' = label
  /\ UNCHANGED <<reported, plugin, handle, errno, history>>

pcm_transfer == Enter("pcm_transfer", "entry")
pcm_start == Enter("pcm_start", "entry")
pcm_prepare == Enter("pcm_prepare", "prepare")

(* pcm_sync_ptr: the wrapper asks the plugin for its pointers, and fills   *)
(* in the state itself.                                                    *)
pcm_plug_sync_ptr == state # "OPEN" /\ seen' = state /\ UNCHANGED errno
SyncFails ==
  /\ IF state # "OPEN" THEN PluginFails ELSE Refuses
  /\ UNCHANGED seen

AfterPrepare ==
  CASE caller = "pcm_transfer" -> Goto("again")
    [] caller = "pcm_start" -> Goto("start_sync")
    [] caller = "pcm_prepare" -> Return

(* if (pcm_state(pcm) == PCM_STATE_SETUP && pcm_prepare(pcm) != 0)         *)
Entry ==
  /\ pc = "entry"
  /\ \/ /\ pcm_plug_sync_ptr
        /\ IF state = "SETUP" THEN Goto("prepare")
                              ELSE AfterPrepare
     \/ SyncFails /\ AfterPrepare
  /\ UNCHANGED <<reported, plugin, config, asked, history>>

MayPrepare_Unless == state # "OPEN"
MayPrepare == state = "SETUP"

(* PREPARE, and the sync whose result is ignored. *)
pcm_plug_prepare ==
  /\ pc = "prepare"
  /\ \/ /\ MayPrepare
        /\ state' = "PREPARED"
        /\ \/ seen' = "PREPARED" /\ UNCHANGED errno
           \/ PluginFails /\ UNCHANGED seen
        /\ AfterPrepare
     \/ /\ IF MayPrepare THEN PluginFails ELSE Refuses
        /\ Return
        /\ UNCHANGED <<state, seen>>
  /\ UNCHANGED <<reported, params, config, asked, history>>

StartSync ==
  /\ pc = "start_sync"
  /\ \/ pcm_plug_sync_ptr /\ Goto("start")
     \/ SyncFails /\ Return
  /\ UNCHANGED <<reported, plugin, config, asked, history>>

pcm_plug_start ==
  /\ pc = "start"
  /\ \/ seen = "RUNNING" /\ Return /\ UNCHANGED <<state, errno>>
     \/ /\ seen # "RUNNING" /\ state = "PREPARED"
        /\ state' = "RUNNING"
        /\ Return
        /\ UNCHANGED errno
     \/ /\ seen # "RUNNING"
        /\ IF state = "PREPARED" THEN PluginFails ELSE Refuses
        /\ Return
        /\ UNCHANGED state
  /\ UNCHANGED <<reported, params, handle, history>>

(* WRITEI_FRAMES or READI_FRAMES.  How many frames the plugin says it took *)
(* changes nothing here.                                                   *)
pcm_plug_transfer ==
  /\ pc = "again"
  /\ \/ /\ state \in {"PREPARED", "RUNNING"}
        /\ Return
        /\ UNCHANGED errno
     \/ /\ IF state \in {"PREPARED", "RUNNING"} THEN PluginFails ELSE Refuses
        /\ Goto("failed")
  /\ UNCHANGED <<reported, plugin, handle, history>>

(* switch (errno), whoever set it. *)
TransferFailed ==
  /\ pc = "failed"
  /\ IF errno \in {"EPIPE", "ESTRPIPE"} /\ "PCM_NORESTART" \notin flags
     THEN Goto("prepare")
     ELSE Return
  /\ UNCHANGED <<reported, plugin, handle, errno, history>>

(* The wrapper stays in RUNNING. *)
pcm_drain ==
  /\ pc = "idle"
  /\ \/ state = "RUNNING" /\ Return /\ UNCHANGED errno
     \/ /\ IF state = "RUNNING" THEN PluginFails ELSE Refuses
        /\ Return
  /\ UNCHANGED <<reported, plugin, handle, history>>

-----------------------------------------------------------------------------
(* pcm_stop: DROP is passed on in every state.                             *)
pcm_plug_drop ==
  /\ pc = "idle"
  /\ \/ state' = "SETUP" /\ Return /\ UNCHANGED errno
     \/ PluginFails /\ Return /\ UNCHANGED state
  /\ UNCHANGED <<reported, params, handle, history>>

(* The same call by another thread, between two steps of this one's.       *)
OtherDrop ==
  /\ pc \in {"entry", "prepare", "start_sync", "start", "again", "failed"}
  /\ state' = "SETUP"
  /\ UNCHANGED <<reported, params, handle, pc, caller, errno, history>>

-----------------------------------------------------------------------------
Configure ==
  /\ pcm_plug_hparams \/ pcm_plug_mmap \/ pcm_plug_sparams
  /\ UNCHANGED <<cons, flags>>

Transfer ==
  /\ \/ Entry \/ pcm_plug_prepare \/ StartSync \/ pcm_plug_start
     \/ pcm_plug_transfer \/ TransferFailed
  /\ UNCHANGED <<cons, flags>>

Client ==
  /\ \/ pcm_params_get
     \/ \E cfg \in Configs : pcm_open(cfg) \/ pcm_set_config(cfg)
     \/ pcm_close \/ pcm_transfer \/ pcm_start \/ pcm_prepare \/ pcm_drain
     \/ pcm_plug_drop
  /\ UNCHANGED <<cons, flags>>

Other == OtherDrop /\ UNCHANGED <<cons, flags>>

Next == Configure \/ Transfer \/ Client \/ Other

Spec == Init /\ [][Next]_vars

(* The calling thread keeps running; nobody is obliged to call or to stop. *)
FairSpec == Spec /\ WF_vars(Transfer)
==============================================================================
