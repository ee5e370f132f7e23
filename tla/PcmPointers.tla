----------------------------- MODULE PcmPointers -----------------------------
(***************************************************************************)
(* The ring pointer arithmetic of src/src/pcm.c.                           *)
(*                                                                         *)
(* The kernel driver and the library share a ring of BufferSize frames.    *)
(* Both sides keep a pointer into it: hw_ptr (how far the hardware got)    *)
(* and appl_ptr (how far the application got).  The pointers do not count  *)
(* modulo BufferSize but modulo Boundary, a far larger multiple of         *)
(* BufferSize the kernel picks, so that "empty" and "full" stay apart.     *)
(*                                                                         *)
(* The kernel keeps 2 * Boundary below LONG_MAX - BufferSize, so the C     *)
(* sums below never leave the range of a long and are plain integers here. *)
(***************************************************************************)
EXTENDS Integers, FiniteSetsExt

CONSTANTS
  BufferSize,   \* pcm->buffer_size: frames in the ring
  Boundary      \* pcm->boundary: where both pointers wrap

ASSUME BufferSizeAssumption == BufferSize \in Nat \ {0}
ASSUME BoundaryAssumption == Boundary \in Nat /\ Boundary >= 2 * BufferSize
ASSUME MultipleAssumption == Boundary % BufferSize = 0

Pointer == 0 .. Boundary - 1
Slot == 0 .. BufferSize - 1
Direction == {"PCM_OUT", "PCM_IN"}

pcm_mmap_playback_avail_NoBoundary(hw, appl) ==
  LET avail == hw + BufferSize - appl
  IN  IF avail < 0 THEN avail + Boundary ELSE avail

pcm_mmap_playback_avail(hw, appl) ==
  LET avail == hw + BufferSize - appl
  IN  IF avail < 0 THEN avail + Boundary
      ELSE IF avail >= Boundary THEN avail - Boundary
      ELSE avail


pcm_mmap_capture_avail(hw, appl) ==
  LET avail == hw - appl
  IN  IF avail < 0 THEN avail + Boundary ELSE avail

pcm_mmap_avail(dir, hw, appl) ==
  IF dir = "PCM_OUT" THEN pcm_mmap_playback_avail(hw, appl)
                           ELSE pcm_mmap_capture_avail(hw, appl)

pcm_mmap_appl_forward_NoWrap(appl, frames) == appl + frames

(* One pointer step, wrapped at the boundary: by the library for appl_ptr, *)
(* by the kernel for hw_ptr.                                               *)
pcm_mmap_appl_forward(appl, frames) ==
  IF appl + frames >= Boundary THEN appl + frames - Boundary
                               ELSE appl + frames

HwForward(hw, frames) ==
  IF hw + frames >= Boundary THEN hw + frames - Boundary ELSE hw + frames

(* What pcm_mmap_begin hands out: the slot it starts at, and how many      *)
(* frames, no more than asked for, available, and contiguous in the ring.  *)
BeginOffset(appl) == appl % BufferSize

BeginFrames_NoAvail(dir, hw, appl, asked) ==
  Min({asked, BufferSize, BufferSize - BeginOffset(appl)})

BeginFrames_NoContinuous(dir, hw, appl, asked) ==
  Min({asked, pcm_mmap_avail(dir, hw, appl), BufferSize})

BeginFrames(dir, hw, appl, asked) ==
  LET avail == Min({pcm_mmap_avail(dir, hw, appl), BufferSize})
      continuous == BufferSize - BeginOffset(appl)
  IN  Min({asked, avail, continuous})
==============================================================================
