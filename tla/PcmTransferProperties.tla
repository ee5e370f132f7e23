----------------------- MODULE PcmTransferProperties ------------------------
(***************************************************************************)
(* What must hold of the transfer calls.                                   *)
(***************************************************************************)
EXTENDS PcmTransfer

Undisturbed == mode.others = {}

Idle == pc = "idle"

(* A call that returns a count moved exactly that many frames, over all    *)
(* its rounds, restarts and short copies, and one that fails moved none:   *)
(* no frame is moved twice by "goto again", none is moved and not          *)
(* reported.  An unplugged device is past caring.                          *)
ReturnCountsFrames ==
  Idle /\ state # "DISCONNECTED" => committed = Max({ret, 0})

(* Every underrun or overrun the stream has recovered from is in           *)
(* pcm->xruns, once: a stream that runs again has none left to count, and  *)
(* none is counted twice.  But for PCM_NORESTART: it leaves the stream     *)
(* where it is, and every call that finds it stopped counts that again.    *)
XrunsCountedOnce ==
  Undisturbed =>
  /\ uncounted <= 1 /\ (~IsNoRestart => uncounted >= 0)
  /\ state \in {"PREPARED", "RUNNING"} => uncounted = 0

(* What the library saw last of an mmapped stream never promises more than *)
(* there is, however old it is: at worst a transfer is shorter than it     *)
(* could be.                                                               *)
SeenNeverAhead == mode.sync_ptr /\ IsMmap => seen.avail <= avail

FinitelyManyXruns == <>[][state' = "XRUN" => state = "XRUN"]_vars

(* A blocking call of n frames never leaves the stream stopped and itself, *)
(* or the next call, waiting.  The kernel starts a playback stream when    *)
(* the threshold is reached; pcm_mmap_transfer looks at what the ring held *)
(* before the round (pcm.c:1560), and starts none that one round fills     *)
(* from below the threshold.  A capture of fewer frames than the threshold *)
(* waits for another thread, as the comment at pcm.c:1523 says.            *)
SelfStarting(n) ==
  CASE IsPlayback /\ IsMmap  -> n + mode.start_threshold <= BufferSize
    [] IsPlayback /\ ~IsMmap -> mode.start_threshold <= BufferSize
    [] OTHER -> n >= mode.start_threshold

AlwaysStarts == [](pc = "entry" /\ ~IsNonblock => SelfStarting(request))

(* Every call returns, in blocking mode too, as long as the caller is not  *)
(* so slow that every restart overruns again, and as long as no blocking   *)
(* call may leave the stream stopped.  That excludes the mmap writes that  *)
(* fill the ring from below the threshold: of those WritesReturn speaks.   *)
CallReturns ==
  Undisturbed /\ FinitelyManyXruns /\ AlwaysStarts =>
    [](pc = "entry" => <>Idle)

(* Every write returns, of whatever size it is and wherever the start      *)
(* threshold lies within the buffer: "If the PCM has not been started, it  *)
(* is started in this function" (pcm.c:1700, of pcm_writei).               *)
WritesReturn ==
  /\ IsPlayback /\ mode.start_threshold <= BufferSize
  /\ Undisturbed /\ FinitelyManyXruns
  => [](pc = "entry" => <>Idle)

(* A call made after an xrun gets the stream out of it.                    *)
CallRestarts ==
  Undisturbed => [](pc = "entry" /\ state = "XRUN" => <>(state # "XRUN"))

(* With PCM_NORESTART the call after one that failed with EPIPE restarts   *)
(* the stream.                                                             *)
SecondCallRestarts ==
  [](pc = "entry" /\ state = "XRUN" /\ ret = -1 => <>(state # "XRUN"))

(* A signal that arrives while a blocking call waits does not fail it.     *)
SignalIsNoError == ~(Idle /\ ret = -1 /\ errno = "EINTR")
==============================================================================
