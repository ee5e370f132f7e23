----------------------------- MODULE MCPcmClients -----------------------------
(***************************************************************************)
(* The streams that the clients of the transfer calls open, for TLC.       *)
(***************************************************************************)
EXTENDS PcmClientsProperties, MCPcmTransfer

(* tinyplay starts at a period, with and without mmap; a signal may come.  *)
PlayStreams ==
  {[PlaybackMode EXCEPT !.others = {"signal"}],
   [PlaybackMode EXCEPT !.flags = {}]}

(* tinycap reads a buffer at a time, and leaves the thresholds to the      *)
(* library: one frame, and ten buffers, of which two are enough here.      *)
CaptureStreams ==
  {[CaptureMode EXCEPT !.start_threshold = 1, !.stop_threshold = 8,
                       !.max_request = 4],
   [CaptureMode EXCEPT !.start_threshold = 1, !.stop_threshold = 8,
                       !.max_request = 4, !.sync_ptr = FALSE, !.flags = {"PCM_IN"},
                       !.others = {"signal"}]}

ClientModes == StreamModes \cup PlayStreams \cup CaptureStreams
==============================================================================
