------------------------- MODULE PcmRingProperties --------------------------
(***************************************************************************)
(* What must hold of the mmapped ring, stated once for TLC and for the     *)
(* proofs in PcmRing_proofs.                                               *)
(***************************************************************************)
EXTENDS PcmRing

(* pcm_mmap_avail computes, from two pointers that wrap at the boundary,   *)
(* exactly the room (playback) or the recorded frames (capture) there are, *)
(* also after an xrun let the hardware run past the application.           *)
AvailExact == avail = IF IsPlayback THEN BufferSize - Fill ELSE Fill

(* A stream that was not interrupted never has more frames under way than  *)
(* the ring has slots, and its hardware never runs past the application.   *)
NeverOverfull == ~broken => Fill \in 0 .. BufferSize

Copying == pc \in {"copy", "commit", "direct"}

(* The part of the ring handed out by pcm_mmap_begin does not go past the  *)
(* end of the mapping, even when an xrun or a stop comes between begin and *)
(* the copy.                                                               *)
RegionInside == Copying => pcm_offset + frames <= BufferSize

(* However the hardware moves during the copy, what the application holds  *)
(* never exceeds what it may touch.                                        *)
RegionAvailable ==
  Copying => frames <= avail

(* The slots of the n frames from a pointer on.                            *)
SlotsFrom(ptr, n) == {(ptr + i) % BufferSize : i \in 0 .. n - 1}

(* While the application copies, the hardware has no business in the slots *)
(* it copies: they hold no frame waiting to be played (playback), and the  *)
(* recorded frames in them are the next ones in order (capture).           *)
RegionUntorn ==
  Copying /\ ~broken =>
    LET region == pcm_offset .. pcm_offset + frames - 1
    IN  IF IsPlayback
        THEN region \cap SlotsFrom(hw_ptr, Fill) = {}
        ELSE /\ region = SlotsFrom(appl_ptr, frames)
             /\ \A s \in region : ring[s] = appl_total + s - pcm_offset

(* A pcm_mmap_transfer_areas call ends: it cannot go round its loop        *)
(* without copying anything.                                               *)
TransferEnds == (pc = "test") ~> (pc = "idle")
==============================================================================
