---------------------------- MODULE MCPcmTransfer ----------------------------
(***************************************************************************)
(* The streams on which TLC checks the transfer calls.                     *)
(***************************************************************************)
EXTENDS PcmTransferProperties

(* mmap playback of writes that fit between the start threshold, which is  *)
(* half of the buffer, and the end of the buffer.                          *)
PlaybackMode ==
  [flags |-> {"PCM_MMAP"}, start_threshold |-> 2, stop_threshold |-> 4,
   sync_ptr |-> FALSE, others |-> {}, max_request |-> 2]

CaptureMode ==
  [PlaybackMode EXCEPT !.flags = {"PCM_IN", "PCM_MMAP"}, !.sync_ptr = TRUE,
                       !.max_request = 3]

(* mmap playback of writes of any size, those included that fill the ring  *)
(* and leave it stopped.                                                   *)
AnySizeMode == [PlaybackMode EXCEPT !.max_request = 4]

(* Status by ioctl, other threads, signals, suspend and unplugging.        *)
DisturbedMode ==
  [PlaybackMode EXCEPT !.sync_ptr = TRUE, !.others = Disturbance]

(* Writes larger than the buffer.                                          *)
NonblockMode ==
  [PlaybackMode EXCEPT !.flags = {"PCM_MMAP", "PCM_NONBLOCK"},
                       !.max_request = 5]

(* The read/write ioctls, with start_threshold at the end of the buffer.   *)
RwMode ==
  [PlaybackMode EXCEPT !.flags = {}, !.start_threshold = 4,
                       !.max_request = 5]
RwCaptureMode ==
  [PlaybackMode EXCEPT !.flags = {"PCM_IN"}, !.start_threshold = 1,
                       !.max_request = 3, !.sync_ptr = TRUE]

StreamModes ==
  {AnySizeMode, CaptureMode, DisturbedMode, NonblockMode, RwMode,
   RwCaptureMode}

(* The two default configurations: start_threshold is the buffer size when *)
(* pcm_set_config is given no configuration (pcm.c:443), and half of it    *)
(* when the configuration it is given says 0 (pcm.c:506).                  *)
StartFullModes == {[PlaybackMode EXCEPT !.start_threshold = 4], AnySizeMode}
NoRestartModes ==
  {[PlaybackMode EXCEPT !.flags = {"PCM_MMAP", "PCM_NORESTART"}]}
SignalModes == {[PlaybackMode EXCEPT !.others = {"signal"}]}
==============================================================================
