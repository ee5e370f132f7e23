----------------------------- MODULE MCPcmRing ------------------------------
(***************************************************************************)
(* The properties of the mmapped ring, for TLC.                            *)
(***************************************************************************)
EXTENDS PcmRingProperties

(* The frame queue the ring implements.                                    *)
Queue == INSTANCE FrameQueue WITH
  Capacity <- BufferSize,
  put <- IF IsPlayback THEN appl_total ELSE hw_total,
  got <- IF IsPlayback THEN hw_total ELSE appl_total

(* The ring is a queue of at most BufferSize frames: frames come out in    *)
(* the order they went in, none lost, repeated or overwritten, unless an   *)
(* underrun or overrun was signalled or the stream was prepared again.     *)
QueueSpec == Queue!Spec
==============================================================================
