------------------------------ MODULE PcmRing ------------------------------
(***************************************************************************)
(* The mmapped ring of a PCM stream: the application copies frames with    *)
(* pcm_mmap_transfer_areas, or by itself between pcm_mmap_begin and        *)
(* pcm_mmap_commit, while the hardware moves hw_ptr whenever it likes.     *)
(*                                                                         *)
(* Frames are numbered by their position in the stream.  hw_total and      *)
(* appl_total are history: how far each side got, without any wrapping.    *)
(***************************************************************************)
EXTENDS PcmPointers, Sequences

CONSTANTS
  StopThreshold,  \* pcm->config.stop_threshold
  MaxAdvance,     \* bound: frames the hardware moves in one update
  MaxRequest,     \* bound: frames asked for in one call
  MaxFrames       \* bound: frames the stream lives for

(* The kernel stops the stream when avail reaches stop_threshold.  One     *)
(* update may go past it, but moves at most a ring of frames and never     *)
(* reaches around the boundary.                                            *)
ASSUME StopAssumption == StopThreshold \in Nat \ {0}
ASSUME AdvanceAssumption ==
  /\ MaxAdvance \in 0 .. BufferSize
  /\ StopThreshold + MaxAdvance <= Boundary
ASSUME BoundAssumption == MaxRequest \in Nat /\ MaxFrames \in Nat

VARIABLES
  direction,   \* PCM_IN or PCM_OUT, as the stream was opened
  state,       \* the kernel's stream state
  hw_ptr,      \* pcm->mmap_status->hw_ptr
  appl_ptr,    \* pcm->mmap_control->appl_ptr
  ring,        \* pcm->mmap_buffer: the frame each slot holds
  pc,          \* where the application is
  buf,         \* the caller's buffer: the frame each place holds
  offset,      \* pcm_mmap_transfer_areas: place in buf
  size,        \* pcm_mmap_transfer_areas: frames still to copy
  pcm_offset,  \* first slot pcm_mmap_begin handed out
  frames,      \* number of slots pcm_mmap_begin handed out
  hw_total,    \* history: frames the hardware went through
  appl_total,  \* history: frames the application went through
  delivered,   \* history: the frames last taken out of the ring
  broken       \* history: an xrun happened and pcm_prepare did not run since

kernelVars == <<state, hw_ptr, hw_total, broken>>
callVars == <<pc, buf, offset, size, pcm_offset, frames>>
vars == <<direction, state, hw_ptr, appl_ptr, ring, pc, buf, offset, size,
          pcm_offset, frames, hw_total, appl_total, delivered, broken>>

IsPlayback == direction = "PCM_OUT"
State == {"SETUP", "PREPARED", "RUNNING", "XRUN"}
NoFrame == -1
Frame == NoFrame .. MaxFrames + MaxAdvance

avail == pcm_mmap_avail(direction, hw_ptr, appl_ptr)

(* Frames the application put in the ring and the hardware did not reach   *)
(* (playback), or the hardware put there and the application did not take  *)
(* (capture).  Negative once an underrun let the hardware run past.        *)
Fill == IF IsPlayback THEN appl_total - hw_total ELSE hw_total - appl_total

TypeOK ==
  /\ direction \in Direction
  /\ state \in State
  /\ hw_ptr \in Pointer /\ appl_ptr \in Pointer
  /\ ring \in [Slot -> Frame]
  /\ pc \in {"idle", "test", "begin", "copy", "commit", "direct"}
  /\ buf \in [0 .. MaxRequest - 1 -> Frame]
  /\ offset \in 0 .. MaxRequest /\ size \in 0 .. MaxRequest
  /\ pcm_offset \in Slot /\ frames \in 0 .. BufferSize
  /\ hw_total \in Nat /\ appl_total \in Nat
  /\ delivered \in Seq(Frame)
  /\ broken \in BOOLEAN

Init ==
  /\ direction \in Direction
  /\ state = "PREPARED"
  /\ hw_ptr = 0 /\ appl_ptr = 0
  /\ ring = [s \in Slot |-> NoFrame]
  /\ pc = "idle"
  /\ buf = [i \in 0 .. MaxRequest - 1 |-> NoFrame]
  /\ offset = 0 /\ size = 0 /\ pcm_offset = 0 /\ frames = 0
  /\ hw_total = 0 /\ appl_total = 0
  /\ delivered = <<>>
  /\ broken = FALSE

------------------------------------------------------------------------------
(* The application                                                         *)

(* The caller's buffer for n frames: numbered on from the last frame       *)
(* written for playback, empty for capture.                                *)
CallerBuffer(n) ==
  [i \in 0 .. MaxRequest - 1 |->
     IF IsPlayback /\ i < n THEN appl_total + i ELSE NoFrame]

Call(n) ==
  /\ pc = "idle"
  /\ appl_total + n <= MaxFrames
  /\ buf' = CallerBuffer(n)
  /\ offset' = 0
  /\ size' = n
  /\ pc' = "test"
  /\ UNCHANGED <<kernelVars, appl_ptr, ring, pcm_offset, frames, appl_total,
                 delivered>>

TransferTest_NoSize ==
  /\ pc = "test"
  /\ pc' = IF avail # 0 THEN "begin" ELSE "idle"
  /\ UNCHANGED <<kernelVars, appl_ptr, ring, buf, offset, size, pcm_offset,
                 frames, appl_total, delivered>>

(* while (pcm_mmap_avail(pcm) && size): the hardware pointer is read here  *)
(* and again in pcm_mmap_begin.                                            *)
TransferTest ==
  /\ pc = "test"
  /\ pc' = IF avail # 0 /\ size # 0 THEN "begin" ELSE "idle"
  /\ UNCHANGED <<kernelVars, appl_ptr, ring, buf, offset, size, pcm_offset,
                 frames, appl_total, delivered>>

pcm_mmap_begin(asked) ==
  /\ pcm_offset' = BeginOffset(appl_ptr)
  /\ frames' = BeginFrames(direction, hw_ptr, appl_ptr, asked)

TransferBegin ==
  /\ pc = "begin"
  /\ pcm_mmap_begin(size)
  /\ pc' = "copy"
  /\ UNCHANGED <<kernelVars, appl_ptr, ring, buf, offset, size, appl_total,
                 delivered>>

(* n frames between place src of the caller's buffer and slot dst.         *)
pcm_areas_copy(dst, src, n) ==
  IF IsPlayback
  THEN /\ ring' = [s \in Slot |-> IF s \in dst .. dst + n - 1
                                  THEN buf[src + s - dst] ELSE ring[s]]
       /\ UNCHANGED buf
  ELSE /\ buf' = [i \in DOMAIN buf |-> IF i \in src .. src + n - 1
                                       THEN ring[dst + i - src] ELSE buf[i]]
       /\ UNCHANGED ring

TransferCopy ==
  /\ pc = "copy"
  /\ pcm_areas_copy(pcm_offset, offset, frames)
  /\ pc' = "commit"
  /\ UNCHANGED <<kernelVars, appl_ptr, offset, size, pcm_offset, frames,
                 appl_total, delivered>>

pcm_mmap_commit(n) ==
  /\ appl_ptr' = pcm_mmap_appl_forward(appl_ptr, n)
  /\ appl_total' = appl_total + n

TransferCommit_NoOffset ==
  /\ pc = "commit"
  /\ pcm_mmap_commit(frames)
  /\ size' = size - frames
  /\ pc' = "test"
  /\ UNCHANGED <<kernelVars, ring, buf, offset, pcm_offset, frames, delivered>>

TransferCommit ==
  /\ pc = "commit"
  /\ pcm_mmap_commit(frames)
  /\ offset' = offset + frames
  /\ size' = size - frames
  /\ delivered' = IF IsPlayback THEN delivered
                  ELSE [i \in 1 .. frames |-> buf[offset + i - 1]]
  /\ pc' = "test"
  /\ UNCHANGED <<kernelVars, ring, buf, pcm_offset, frames>>

(* The application's own access to the ring, which the library exports:    *)
(* it may commit fewer frames than pcm_mmap_begin handed out.              *)
DirectBegin(n) ==
  /\ pc = "idle"
  /\ appl_total + n <= MaxFrames
  /\ pcm_mmap_begin(n)
  /\ buf' = CallerBuffer(n)
  /\ pc' = "direct"
  /\ UNCHANGED <<kernelVars, appl_ptr, ring, offset, size, appl_total,
                 delivered>>

DirectCommit(n) ==
  /\ pc = "direct"
  /\ n <= frames
  /\ pcm_areas_copy(pcm_offset, 0, n)
  /\ pcm_mmap_commit(n)
  /\ delivered' = IF IsPlayback \/ n = 0 THEN delivered
                  ELSE [i \in 1 .. n |-> ring[pcm_offset + i - 1]]
  /\ pc' = "idle"
  /\ UNCHANGED <<kernelVars, offset, size, pcm_offset, frames>>

(* pcm_prepare, between calls: the kernel resets both pointers; what was   *)
(* under way is dropped.                                                   *)
Prepare ==
  /\ pc = "idle"
  /\ state # "RUNNING"
  /\ state' = "PREPARED"
  /\ broken' = FALSE
  /\ hw_ptr' = 0 /\ appl_ptr' = 0
  /\ IF IsPlayback
     THEN hw_total' = appl_total /\ UNCHANGED appl_total
     ELSE appl_total' = hw_total /\ UNCHANGED hw_total
  /\ UNCHANGED <<ring, callVars, delivered>>

Stop ==
  /\ pc = "idle"
  /\ state' = "SETUP"
  /\ UNCHANGED <<hw_ptr, hw_total, broken, appl_ptr, ring, callVars,
                 appl_total, delivered>>

------------------------------------------------------------------------------
(* The kernel and the hardware (external)                                  *)

Start ==
  /\ state = "PREPARED"
  /\ IsPlayback => Fill > 0
  /\ state' = "RUNNING"
  /\ UNCHANGED <<hw_ptr, hw_total, broken, appl_ptr, ring, callVars,
                 appl_total, delivered>>

(* The hardware plays or records n frames, and the kernel stops the stream *)
(* if that leaves stop_threshold frames or more available.                 *)
Advance(n) ==
  /\ state = "RUNNING"
  /\ hw_total + n <= MaxFrames + MaxAdvance
  /\ hw_ptr' = HwForward(hw_ptr, n)
  /\ hw_total' = hw_total + n
  /\ IF IsPlayback
     THEN /\ delivered' = [i \in 1 .. n |-> ring[(hw_ptr + i - 1) % BufferSize]]
          /\ UNCHANGED ring
     ELSE /\ ring' = [s \in Slot |->
                LET i == (s - hw_ptr) % BufferSize
                IN  IF i < n THEN hw_total + i ELSE ring[s]]
          /\ UNCHANGED delivered
  /\ state' = IF pcm_mmap_avail(direction, hw_ptr', appl_ptr) >= StopThreshold
              THEN "XRUN" ELSE "RUNNING"
  /\ broken' = (state' = "XRUN")
  /\ UNCHANGED <<appl_ptr, callVars, appl_total>>

------------------------------------------------------------------------------
Transfer ==
  /\ TransferTest \/ TransferBegin \/ TransferCopy \/ TransferCommit
  /\ UNCHANGED direction

Other ==
  /\ \/ \E n \in 1 .. MaxRequest : Call(n) \/ DirectBegin(n)
     \/ \E n \in 0 .. MaxRequest : DirectCommit(n)
     \/ Prepare \/ Stop \/ Start
     \/ \E n \in 1 .. MaxAdvance : Advance(n)
  /\ UNCHANGED direction

Next == Transfer \/ Other

Spec == Init /\ [][Next]_vars

(* The application runs its own loop; nothing is assumed of the hardware   *)
(* or of what the application asks for.                                    *)
FairSpec == Spec /\ WF_vars(Transfer)
==============================================================================
