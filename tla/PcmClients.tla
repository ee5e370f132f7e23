----------------------------- MODULE PcmClients ------------------------------
(***************************************************************************)
(* Programs over the transfer calls: play_sample of src/utils/tinyplay.c,  *)
(* capture_sample of src/utils/tinycap.c, and a client that transfers and  *)
(* queries as it pleases.  A file is counted in frames; its headers are    *)
(* read already, and what the header says may be more or less than what    *)
(* the file has.                                                           *)
(***************************************************************************)
EXTENDS PcmQueries

CONSTANTS
  PlayModes,     \* the streams of Modes that tinyplay opens,
  CaptureModes,  \* those that tinycap opens; other clients have the others
  MaxFile        \* bound: frames of a file, and of a capture

(* tinyplay opens with PCM_OUT and perhaps PCM_MMAP, and a period of some  *)
(* frames.  tinycap reads a buffer at a time.                              *)
ASSUME ClientAssumption ==
  /\ PlayModes \cup CaptureModes \subseteq Modes
  /\ PlayModes \cap CaptureModes = {}
  /\ MaxFile \in Nat
  /\ \A m \in PlayModes : m.flags \subseteq {"PCM_MMAP"} /\ m.max_request >= 1
  /\ \A m \in CaptureModes : "PCM_IN" \in m.flags /\ m.max_request >= BufferSize

VARIABLES
  at,         \* the next step of the program
  length,     \* frames in the file to play; it never changes
  file,       \* frames not read from it, or written to a capture
  remaining,  \* remaining_data_size; capture_time * rate
  asked,      \* num_read
  counted,    \* played_data_size; total_frames_read
  closing,    \* close; !capturing
  moved,      \* history: frames the stream took or gave
  disturbed   \* history: an xrun, a failure or another actor came between

programVars == <<at, length, file, remaining, asked, counted, closing, moved,
                 disturbed>>
clientVars == <<queryVars, programVars>>

IsPlay == mode \in PlayModes
IsCapture == mode \in CaptureModes

(* A period, with which tinyplay opens the stream.                         *)
period_size == mode.max_request

(* SIZE_MAX, for standard input: never less than a period.                 *)
Unlimited == MaxFile + Max({m.max_request : m \in Modes})
IsStdin == remaining = Unlimited

ClientTypeOK ==
  /\ QueryTypeOK
  /\ at \in {"any", "read", "transfer", "wait", "close", "ended", "undefined"}
  /\ length \in 0 .. MaxFile /\ file \in 0 .. MaxFile + BufferSize
  /\ remaining \in 0 .. Unlimited
  /\ asked \in 0 .. period_size
  /\ counted \in 0 .. MaxFile + BufferSize
  /\ moved \in 0 .. MaxFile + BufferSize
  /\ closing \in BOOLEAN /\ disturbed \in BOOLEAN

ClientInit ==
  /\ QueryInit
  /\ at = IF IsPlay \/ IsCapture THEN "read" ELSE "any"
  /\ IF IsPlay
     THEN file \in 0 .. MaxFile
          /\ remaining \in {Max({file - 1, 0}), file, MaxFile, Unlimited}
     ELSE file = 0 /\ remaining = IF IsCapture THEN MaxFile ELSE 0
  /\ length = file
  /\ asked = 0 /\ counted = 0 /\ moved = 0
  /\ closing = FALSE /\ disturbed = FALSE

Transfers(n) == Call(n) /\ UNCHANGED <<mode, query>>

(* A pcm_writei or pcm_readi of the program is back.                       *)
Back == at = "transfer" /\ pc = "idle"

-----------------------------------------------------------------------------
(* tinyplay: play_sample                                                   *)

PlayRead ==
  /\ IsPlay /\ at = "read"
  /\ LET num_read == Min({remaining, period_size, file})
     IN  /\ asked' = num_read
         /\ file' = file - num_read
         /\ IF num_read > 0
            THEN Transfers(num_read) /\ at' = "transfer"
            ELSE at' = "wait" /\ UNCHANGED queryVars
  /\ UNCHANGED <<remaining, counted, closing, moved, disturbed>>

PlayWritten ==
  /\ IsPlay /\ Back
  /\ moved' = moved + committed
  /\ IF ret < 0
     THEN /\ at' = "wait"
          /\ disturbed' = TRUE
          /\ UNCHANGED <<remaining, counted>>
     ELSE /\ remaining' = IF IsStdin THEN remaining ELSE remaining - asked
          /\ counted' = counted + ret
          /\ at' = IF ~closing /\ remaining' > 0 THEN "read" ELSE "wait"
          /\ UNCHANGED disturbed
  /\ UNCHANGED <<queryVars, file, asked, closing>>

(* pcm_wait(ctx->pcm, -1), whose result is not looked at.                  *)
PlayWait ==
  /\ IsPlay /\ at = "wait"
  /\ PollReady \/ PollFailed \/ "signal" \in mode.others
  /\ at' = "close"
  /\ UNCHANGED <<queryVars, file, remaining, asked, counted, closing, moved,
                 disturbed>>

-----------------------------------------------------------------------------
(* tinycap: capture_sample                                                 *)

CaptureRead ==
  /\ IsCapture /\ at = "read"
  /\ IF closing
     THEN at' = "close" /\ UNCHANGED <<queryVars, asked>>
     ELSE Transfers(BufferSize) /\ asked' = BufferSize /\ at' = "transfer"
  /\ UNCHANGED <<file, remaining, counted, closing, moved, disturbed>>

Total_Asked == counted + asked
Total == counted + ret

(* The frames are counted before fwrite is known to have taken them.  With *)
(* the -1 of a failed pcm_readi for a count, what fwrite does is undefined.*)
CaptureWritten ==
  /\ IsCapture /\ Back
  /\ moved' = moved + committed
  /\ IF ret < 0
     THEN at' = "undefined" /\ UNCHANGED <<file, counted, closing, disturbed>>
     ELSE /\ counted' = Total
          /\ closing' = (closing \/ counted' >= remaining)
          /\ \/ /\ file' = file + ret
                /\ at' = "read"
                /\ UNCHANGED disturbed
             \/ /\ file' \in file .. file + ret - 1
                /\ at' = "close"
                /\ disturbed' = TRUE
  /\ UNCHANGED <<queryVars, remaining, asked>>

-----------------------------------------------------------------------------
(* pcm_close stops the stream: what was not played yet never is.           *)
Close ==
  /\ at = "close"
  /\ at' = "ended"
  /\ state' = IF state = "DISCONNECTED" THEN state ELSE "SETUP"
  /\ UNCHANGED <<mode, avail, slot, seen, callVars, uncounted, query, file,
                 remaining, asked, counted, closing, moved, disturbed>>

(* Control-C, at any time: close = 1 in tinyplay, capturing = 0 in tinycap.*)
stream_close == IsPlay /\ closing' = TRUE
sigint_handler == IsCapture /\ closing' = TRUE

Interrupt ==
  /\ at \notin {"any", "ended", "undefined"} /\ "signal" \in mode.others
  /\ stream_close \/ sigint_handler
  /\ UNCHANGED <<queryVars, at, length, file, remaining, asked, counted, moved,
                 disturbed>>

Ended == at \in {"ended", "undefined"} /\ UNCHANGED clientVars

-----------------------------------------------------------------------------
Program ==
  /\ \/ PlayRead \/ PlayWritten \/ PlayWait
     \/ CaptureRead \/ CaptureWritten
     \/ Close
  /\ UNCHANGED length

(* What the library and the kernel do, whoever calls, and whether it cuts  *)
(* something short.                                                        *)
Below(action, disturbs) ==
  /\ action
  /\ UNCHANGED <<query, at, length, file, remaining, asked, counted, closing,
                 moved>>
  /\ disturbed' = (disturbed \/ (IsPlay /\ disturbs))

BelowLibrary == Below(Library, FALSE)
BelowHardware == Below(Hardware, state' = "XRUN")
BelowEnvironment == Below(Environment, TRUE)

AnyClient ==
  /\ at = "any"
  /\ \/ ~Asking /\ Client /\ UNCHANGED query
     \/ pcm_get_htimestamp \/ pcm_mmap_get_hw_ptr
  /\ UNCHANGED programVars

QueryStep == Query /\ UNCHANGED programVars

(* The thread of the program: it is in the library, in a query, or above. *)
Thread == BelowLibrary \/ Program \/ QueryStep

ClientNext ==
  \/ Thread \/ BelowHardware \/ BelowEnvironment
  \/ AnyClient \/ Interrupt \/ Ended

ClientSpec == ClientInit /\ [][ClientNext]_clientVars

(* The thread keeps running, and so does the sample clock.                 *)
FairClientSpec ==
  ClientSpec /\ WF_clientVars(Thread) /\ WF_clientVars(BelowHardware)
==============================================================================
