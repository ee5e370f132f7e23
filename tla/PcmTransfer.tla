----------------------------- MODULE PcmTransfer -----------------------------
(***************************************************************************)
(* One thread's pcm_writei / pcm_readi calls (pcm_generic_transfer and all *)
(* it calls in src/src/pcm.c) against a kernel stream that runs, underruns *)
(* or overruns, is suspended, unplugged, or stopped by another thread.     *)
(*                                                                         *)
(* The ring is a counter here: "avail", the frames the application may     *)
(* transfer.  PcmRing shows that pcm_mmap_avail computes that counter      *)
(* exactly and that frames keep their order.                               *)
(***************************************************************************)
EXTENDS Integers, FiniteSetsExt

CONSTANTS
  Modes,           \* the streams to model: flags, configuration, disturbance
  BufferSize,      \* pcm->buffer_size
  AvailMin,        \* avail_min: what poll waits for
  MaxAdvance       \* bound: frames of one hardware update

Flag == {"PCM_IN", "PCM_MMAP", "PCM_NONBLOCK", "PCM_NORESTART"}
Disturbance == {"stop", "start", "prepare", "suspend", "disconnect", "signal"}

(* sync_ptr: status and control are copies fetched by ioctl; others: what  *)
(* else happens to the stream; max_request bounds the frames of one call.  *)
Mode == [flags : SUBSET Flag, start_threshold : Nat \ {0},
         stop_threshold : Nat \ {0}, sync_ptr : BOOLEAN,
         others : SUBSET Disturbance, max_request : Nat]

ASSUME SizeAssumption ==
  /\ BufferSize \in Nat \ {0}
  /\ AvailMin \in 1 .. BufferSize
  /\ MaxAdvance \in Nat
ASSUME ModeAssumption == IsFiniteSet(Modes) /\ \A m \in Modes : m \in Mode

VARIABLES
  mode,       \* the stream that was opened; it never changes
  state,      \* the kernel's stream state
  avail,      \* the kernel's avail: room (playback) or recorded frames
  slot,       \* appl_ptr % buffer_size
  seen,       \* pcm->mmap_status/mmap_control when they are ioctl copies
  pc,         \* where the call is
  request,    \* the frames argument of the call
  call,       \* locals of pcm_mmap_transfer and pcm_mmap_transfer_areas
  errno,
  ret,        \* what the last call returned
  committed,  \* history: frames moved by the current or last call
  uncounted   \* history: xruns of the kernel minus pcm->xruns

kernelVars == <<state, avail, slot>>
callVars == <<pc, request, call, errno, ret, committed>>
vars == <<mode, state, avail, slot, seen, pc, request, call, errno, ret,
          committed, uncounted>>

IsPlayback == "PCM_IN" \notin mode.flags
IsMmap == "PCM_MMAP" \in mode.flags
IsNonblock == "PCM_NONBLOCK" \in mode.flags
IsNoRestart == "PCM_NORESTART" \in mode.flags

State == {"SETUP", "PREPARED", "RUNNING", "XRUN", "SUSPENDED", "DISCONNECTED"}
Errno == {"none", "EPIPE", "ESTRPIPE", "EAGAIN", "EBADFD", "ENODEV", "EIO",
          "EINTR", "EBUSY"}
MaxAvail ==
  Max({BufferSize} \cup {m.stop_threshold : m \in Modes}) + MaxAdvance

(* frames, user_offset, avail and state of pcm_mmap_transfer; count of     *)
(* pcm_mmap_transfer_areas and of the kernel's read/write loop.            *)
NoCall == [frames |-> 0, user_offset |-> 0, avail |-> 0, state |-> "SETUP",
           count |-> 0]

TypeOK ==
  /\ mode \in Modes
  /\ state \in State
  /\ avail \in 0 .. MaxAvail
  /\ slot \in 0 .. BufferSize - 1
  /\ seen \in [state : State, avail : 0 .. MaxAvail]
  /\ pc \in {"idle", "entry", "prepare", "again", "start", "start_ioctl",
             "loop", "wait", "poll_error", "areas", "copy", "threshold",
             "rw", "rw_copy", "finish", "restart"}
  /\ request \in 0 .. mode.max_request
  /\ LET Count == 0 .. mode.max_request
     IN  call \in [frames : Count, user_offset : Count, avail : 0 .. MaxAvail,
                   state : State, count : Count]
  /\ errno \in Errno
  /\ ret \in -1 .. mode.max_request
  /\ committed \in 0 .. mode.max_request
  /\ uncounted \in -2 .. 2

Init ==
  /\ mode \in Modes
  /\ state = "SETUP" /\ avail = 0 /\ slot = 0
  /\ seen = [state |-> "SETUP", avail |-> 0]
  /\ pc = "idle" /\ request = 0 /\ call = NoCall
  /\ errno = "none" /\ ret = 0
  /\ committed = 0 /\ uncounted = 0

------------------------------------------------------------------------------
(* The kernel's answers (external)                                         *)

(* HWSYNC, and the read/write calls, fail in the states that carry no data.*)
StateError(s) ==
  CASE s = "XRUN" -> "EPIPE"
    [] s = "SUSPENDED" -> "ESTRPIPE"
    [] s = "SETUP" -> "EBADFD"
    [] s = "DISCONNECTED" -> "ENODEV"
    [] OTHER -> "none"

PrepareError(s) ==
  CASE s = "RUNNING" -> "EBUSY"
    [] s = "DISCONNECTED" -> "ENODEV"
    [] OTHER -> "none"

(* PREPARE resets both pointers: an empty ring.                            *)
KernelPrepare ==
  /\ state' = "PREPARED"
  /\ avail' = IF IsPlayback THEN BufferSize ELSE 0
  /\ slot' = 0

HasData == IsPlayback => avail < BufferSize

------------------------------------------------------------------------------
(* pcm_sync_ptr, and the view of the stream it leaves behind               *)

SyncError(hwsync) ==
  IF hwsync THEN StateError(state)
  ELSE IF mode.sync_ptr /\ state = "DISCONNECTED" THEN "ENODEV" ELSE "none"

(* A failed SYNC_PTR ioctl copies nothing back; with mapped status the     *)
(* library always sees the kernel's values.                                *)
Fetch(hwsync) ==
  IF mode.sync_ptr
  THEN IF SyncError(hwsync) = "none"
       THEN [state |-> state, avail |-> avail] ELSE seen
  ELSE [state |-> state, avail |-> avail]

Sync(hwsync) == seen' = Fetch(hwsync)

(* The status as the library reads it without a sync of its own.           *)
SeenState == IF mode.sync_ptr THEN seen.state ELSE state

Goto(label) == pc' = label

Fail(e) == errno' = e /\ Goto("finish")

Return(r) ==
  /\ Goto("idle")
  /\ ret' = r
  /\ call' = NoCall
  /\ request' = 0

(* pcm_prepare: the ioctl, then a sync whose result is ignored.            *)
pcm_prepare_NoSync ==
  /\ PrepareError(state) = "none"
  /\ KernelPrepare
  /\ UNCHANGED seen

pcm_prepare ==
  /\ PrepareError(state) = "none"
  /\ KernelPrepare
  /\ seen' = [state |-> state', avail |-> avail']

pcm_prepare_fails == PrepareError(state) # "none"

------------------------------------------------------------------------------
(* pcm_generic_transfer                                                    *)

Call(n) ==
  /\ pc = "idle"
  /\ request' = n
  /\ committed' = 0
  /\ errno' = "none"
  /\ Goto("entry")
  /\ UNCHANGED <<kernelVars, seen, call, ret, uncounted>>

(* if (pcm_state(pcm) == PCM_STATE_SETUP && ...): a failed pcm_state is    *)
(* just not SETUP.                                                         *)
EntryState ==
  /\ pc = "entry"
  /\ Sync(FALSE)
  /\ Goto(IF SyncError(FALSE) = "none" /\ state = "SETUP"
          THEN "prepare" ELSE "again")
  /\ UNCHANGED <<kernelVars, request, call, errno, ret, committed, uncounted>>

EntryPrepare ==
  /\ pc = "prepare"
  /\ \/ /\ pcm_prepare
        /\ Goto("again")
        /\ UNCHANGED <<request, call, errno, ret>>
     \/ /\ pcm_prepare_fails
        /\ Return(-1)
        /\ errno' = PrepareError(state)
        /\ UNCHANGED <<kernelVars, seen>>
  /\ UNCHANGED <<committed, uncounted>>

(* pcm->xruns++ in the EPIPE case, and the errors it falls through to.     *)
CountXrun_Never == uncounted
CountXrun == IF errno = "EPIPE" THEN Max({uncounted - 1, -2}) ELSE uncounted

MayRestart_NoFallthrough == errno = "ESTRPIPE" /\ ~IsNoRestart
MayRestart == errno \in {"EPIPE", "ESTRPIPE"} /\ ~IsNoRestart

(* What pcm_generic_transfer does with the result of a transfer.           *)
Finish ==
  /\ pc = "finish"
  /\ IF call.user_offset > 0
     THEN Return(call.user_offset) /\ UNCHANGED uncounted
     ELSE /\ uncounted' = CountXrun
          /\ IF MayRestart
             THEN Goto("restart") /\ UNCHANGED <<request, call, ret>>
             ELSE Return(-1)
  /\ UNCHANGED <<kernelVars, seen, errno, committed>>

(* pcm_prepare(pcm), then goto again: the whole request once more.         *)
Restart_NoPrepare ==
  /\ pc = "restart"
  /\ call' = NoCall
  /\ Goto("again")
  /\ UNCHANGED <<kernelVars, seen, request, errno, ret, committed, uncounted>>

Restart ==
  /\ pc = "restart"
  /\ \/ /\ pcm_prepare
        /\ call' = NoCall
        /\ Goto("again")
        /\ UNCHANGED <<request, errno, ret>>
     \/ /\ pcm_prepare_fails
        /\ Return(-1)
        /\ errno' = PrepareError(state)
        /\ UNCHANGED <<kernelVars, seen>>
  /\ UNCHANGED <<committed, uncounted>>

------------------------------------------------------------------------------
(* pcm_start, called from pcm_mmap_transfer                                *)

(* Everything up to the last sync.                                         *)
StartState ==
  /\ pc = "start"
  /\ IF SyncError(FALSE) = "none" /\ state = "SETUP"
     THEN pcm_prepare /\ Goto("start_ioctl") /\ UNCHANGED errno
     ELSE /\ Sync(FALSE)
          /\ UNCHANGED kernelVars
          /\ IF SyncError(FALSE) = "none"
             THEN Goto("start_ioctl") /\ UNCHANGED errno
             ELSE Fail(SyncError(FALSE))
  /\ UNCHANGED <<request, call, ret, committed, uncounted>>

StartIoctl ==
  /\ pc = "start_ioctl"
  /\ \/ /\ SeenState = "RUNNING"
        /\ Goto("loop")
        /\ UNCHANGED <<state, errno>>
     \/ /\ SeenState # "RUNNING" /\ state = "PREPARED" /\ HasData
        /\ state' = "RUNNING"
        /\ Goto("loop")
        /\ UNCHANGED errno
     \/ /\ SeenState # "RUNNING" /\ state = "PREPARED" /\ ~HasData
        /\ Fail("EPIPE")
        /\ UNCHANGED state
     \/ /\ SeenState # "RUNNING" /\ state # "PREPARED"
        /\ Fail(IF state = "DISCONNECTED" THEN "ENODEV" ELSE "EBADFD")
        /\ UNCHANGED state
  /\ UNCHANGED <<avail, slot, seen, request, call, ret, committed, uncounted>>

------------------------------------------------------------------------------
(* pcm_mmap_transfer                                                       *)

MmapEntry ==
  /\ pc = "again" /\ IsMmap
  /\ Sync(TRUE)
  /\ IF SyncError(TRUE) # "none"
     THEN Fail(SyncError(TRUE)) /\ UNCHANGED call
     ELSE /\ call' = [NoCall EXCEPT !.frames = request, !.state = state]
          /\ Goto(IF ~IsPlayback /\ state = "PREPARED"
                     /\ request >= mode.start_threshold
               THEN "start" ELSE "loop")
          /\ UNCHANGED errno
  /\ UNCHANGED <<kernelVars, request, ret, committed, uncounted>>

MayBlock == ~IsNonblock

(* while (frames): avail is read here, once for the round.                 *)
Loop ==
  /\ pc = "loop"
  /\ IF call.frames = 0
     THEN Goto("finish") /\ UNCHANGED <<seen, call, errno>>
     ELSE LET room == Fetch(TRUE).avail IN
          /\ Sync(TRUE)
          /\ call' = [call EXCEPT !.avail = room]
          /\ \/ room # 0 /\ Goto("areas") /\ UNCHANGED errno
             \/ room = 0 /\ ~MayBlock /\ Fail("EAGAIN")
             \/ room = 0 /\ MayBlock /\ Goto("wait") /\ UNCHANGED errno
  /\ UNCHANGED <<kernelVars, request, ret, committed, uncounted>>

(* pcm_wait(pcm, -1): poll returns when there is enough to transfer, or    *)
(* with POLLERR in a state that will never have it.                        *)
PollReady == state \in {"PREPARED", "RUNNING"} /\ avail >= AvailMin
PollFailed == state \in {"SETUP", "XRUN", "SUSPENDED", "DISCONNECTED"}

Wait ==
  /\ pc = "wait"
  /\ \/ PollReady /\ Goto("areas")
     \/ PollFailed /\ Goto("poll_error")
  /\ UNCHANGED <<kernelVars, seen, request, call, errno, ret, committed,
                 uncounted>>

(* A signal: poll fails, and the check for it comes after the return.      *)
WaitInterrupted ==
  /\ "signal" \in mode.others
  /\ pc = "wait"
  /\ Fail("EINTR")
  /\ UNCHANGED <<kernelVars, seen, request, call, ret, committed, uncounted>>

PollError ==
  /\ pc = "poll_error"
  /\ Sync(FALSE)
  /\ Fail(IF SyncError(FALSE) # "none" THEN "EIO"
          ELSE CASE state = "XRUN" -> "EPIPE"
                 [] state = "SUSPENDED" -> "ESTRPIPE"
                 [] state = "DISCONNECTED" -> "ENODEV"
                 [] OTHER -> "EIO")
  /\ UNCHANGED <<kernelVars, request, call, ret, committed, uncounted>>

(* user_offset += transferred_frames; frames -= transferred_frames;        *)
Transferred_Overwrite ==
  [call EXCEPT !.user_offset = call.count, !.frames = @ - call.count,
               !.count = 0]
Transferred ==
  [call EXCEPT !.user_offset = @ + call.count, !.frames = @ - call.count,
               !.count = 0]

(* pcm_mmap_transfer_areas: while (pcm_mmap_avail(pcm) && size)            *)
Areas ==
  /\ pc = "areas"
  /\ Sync(TRUE)
  /\ IF Fetch(TRUE).avail # 0 /\ call.count < call.frames
     THEN Goto("copy") /\ UNCHANGED call
     ELSE /\ Goto("threshold")
          /\ call' = Transferred
  /\ UNCHANGED <<kernelVars, request, errno, ret, committed, uncounted>>

(* What pcm_mmap_begin hands out.                                          *)
CopyFrames_NoAvail(room) ==
  Min({call.frames - call.count, BufferSize, BufferSize - slot})
CopyFrames(room) ==
  Min({call.frames - call.count, room, BufferSize, BufferSize - slot})

(* What the sync at the end of pcm_mmap_commit brings back.                *)
SeenAfterCommit(n) == [state |-> state, avail |-> avail - n]

(* pcm_mmap_begin, the copy, and pcm_mmap_commit.                          *)
Copy ==
  /\ pc = "copy"
  /\ LET view == Fetch(TRUE)
         n == CopyFrames(view.avail)
     IN  IF SyncError(FALSE) = "none"
         THEN /\ avail' = avail - n
              /\ slot' = (slot + n) % BufferSize
              /\ seen' = SeenAfterCommit(n)
              /\ call' = [call EXCEPT !.count = @ + n]
              /\ committed' = committed + n
              /\ Goto("areas")
              /\ UNCHANGED errno
         ELSE /\ seen' = [view EXCEPT !.avail = @ - n]
              /\ Fail(SyncError(FALSE))
              /\ UNCHANGED <<avail, slot, call, committed>>
  /\ UNCHANGED <<state, request, ret, uncounted>>

(* buffer_size - avail >= start_threshold: the avail of the round, before  *)
(* its copy, in unsigned arithmetic; the state of the call's beginning.    *)
StartReached_OffByOne ==
  call.avail > BufferSize \/ BufferSize - call.avail > mode.start_threshold
StartReached ==
  call.avail > BufferSize \/ BufferSize - call.avail >= mode.start_threshold

Threshold ==
  /\ pc = "threshold"
  /\ Goto(IF IsPlayback /\ call.state = "PREPARED" /\ StartReached
          THEN "start" ELSE "loop")
  /\ UNCHANGED <<kernelVars, seen, request, call, errno, ret, committed,
                 uncounted>>

------------------------------------------------------------------------------
(* pcm_rw_transfer: the kernel's WRITEI_FRAMES and READI_FRAMES (external) *)

RwEntry ==
  /\ pc = "again" /\ ~IsMmap
  /\ IF StateError(state) # "none"
     THEN Fail(StateError(state)) /\ UNCHANGED <<state, call>>
     ELSE /\ state' = IF ~IsPlayback /\ request >= mode.start_threshold
                      THEN "RUNNING" ELSE state
          /\ call' = [NoCall EXCEPT !.frames = request]
          /\ Goto("rw_copy")
          /\ UNCHANGED errno
  /\ UNCHANGED <<avail, slot, seen, request, ret, committed, uncounted>>

RwCopy ==
  /\ pc = "rw_copy"
  /\ StateError(state) = "none" /\ avail > 0 /\ call.count < call.frames
  /\ LET n == Min({call.frames - call.count, avail, BufferSize - slot})
     IN  /\ avail' = avail - n
         /\ slot' = (slot + n) % BufferSize
         /\ call' = [call EXCEPT !.count = @ + n]
         /\ committed' = committed + n
  /\ state' = IF IsPlayback /\ BufferSize - avail' >= mode.start_threshold
              THEN "RUNNING" ELSE state
  /\ UNCHANGED <<seen, pc, request, errno, ret, uncounted>>

(* return res == 0 ? (int) transfer.result : -1;                           *)
RwResult == call.count

(* The call ends when all is moved, or with what was moved before an       *)
(* error, and with the error only if nothing was.                          *)
RwEnd ==
  /\ pc = "rw_copy"
  /\ \/ call.count = call.frames /\ UNCHANGED errno
     \/ call.count < call.frames /\ StateError(state) # "none"
        /\ errno' = StateError(state)
     \/ call.count < call.frames /\ avail = 0 /\ IsNonblock
        /\ errno' = "EAGAIN"
  /\ call' = [call EXCEPT !.user_offset = RwResult]
  /\ Goto("finish")
  /\ UNCHANGED <<kernelVars, seen, request, ret, committed, uncounted>>

------------------------------------------------------------------------------
(* What else happens to the stream (external, but for ClientPrepare)       *)

Advance(n) ==
  /\ state = "RUNNING"
  /\ avail' = avail + n
  /\ IF avail' >= mode.stop_threshold
     THEN state' = "XRUN" /\ uncounted' = Min({uncounted + 1, 2})
     ELSE UNCHANGED <<state, uncounted>>
  /\ UNCHANGED <<slot, seen, callVars>>

(* pcm_stop in another thread: one ioctl, nothing else.                    *)
OtherStop ==
  /\ "stop" \in mode.others
  /\ state # "DISCONNECTED"
  /\ state' = "SETUP"
  /\ UNCHANGED <<avail, slot, seen, callVars, uncounted>>

(* Another thread, or a linked stream, starts this one.                    *)
OtherStart ==
  /\ "start" \in mode.others
  /\ state = "PREPARED" /\ HasData
  /\ state' = "RUNNING"
  /\ UNCHANGED <<avail, slot, seen, callVars, uncounted>>

(* The client calls pcm_prepare between two transfers.                     *)
ClientPrepare ==
  /\ "prepare" \in mode.others
  /\ pc = "idle"
  /\ pcm_prepare
  /\ UNCHANGED <<callVars, uncounted>>

Suspend ==
  /\ "suspend" \in mode.others
  /\ state \in {"PREPARED", "RUNNING"}
  /\ state' = "SUSPENDED"
  /\ UNCHANGED <<avail, slot, seen, callVars, uncounted>>

Disconnect ==
  /\ "disconnect" \in mode.others
  /\ state' = "DISCONNECTED"
  /\ UNCHANGED <<avail, slot, seen, callVars, uncounted>>

------------------------------------------------------------------------------
Library ==
  /\ \/ EntryState \/ EntryPrepare \/ Finish \/ Restart
     \/ StartState \/ StartIoctl
     \/ MmapEntry \/ Loop \/ Wait \/ PollError \/ Areas \/ Copy \/ Threshold
     \/ RwEntry \/ RwCopy \/ RwEnd
  /\ UNCHANGED mode

Hardware == UNCHANGED mode /\ \E n \in 1 .. MaxAdvance : Advance(n)

Client ==
  /\ (\E n \in 1 .. mode.max_request : Call(n)) \/ ClientPrepare
  /\ UNCHANGED mode

Environment ==
  /\ WaitInterrupted \/ OtherStop \/ OtherStart \/ Suspend \/ Disconnect
  /\ UNCHANGED mode

Next == Library \/ Hardware \/ Client \/ Environment

Spec == Init /\ [][Next]_vars

(* The calling thread keeps running and so does the sample clock; nobody   *)
(* is obliged to call, to start or to stop.                                *)
FairSpec == Spec /\ WF_vars(Library) /\ WF_vars(Hardware)
==============================================================================
