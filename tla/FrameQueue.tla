----------------------------- MODULE FrameQueue -----------------------------
(***************************************************************************)
(* What an mmapped PCM stream promises, whichever way the audio flows:     *)
(* frames go through in the order they were put in, each of them once,     *)
(* and no more than Capacity of them are under way.  Frames are numbered   *)
(* by their position in the stream.                                        *)
(*                                                                         *)
(* The promise is off from an overrun or underrun ("broken") until the     *)
(* stream is prepared again, and preparing drops what was under way.       *)
(***************************************************************************)
EXTENDS Integers, Sequences

CONSTANT Capacity

VARIABLES
  put,        \* frames put in so far
  got,        \* frames taken out so far
  delivered,  \* the frames the last Get took out
  broken      \* an xrun happened and the stream was not prepared since

vars == <<put, got, delivered, broken>>

Init ==
  /\ put = 0 /\ got = 0
  /\ delivered = <<>>
  /\ broken = FALSE

Put(n) ==
  /\ put - got + n <= Capacity
  /\ put' = put + n
  /\ UNCHANGED <<got, delivered, broken>>

Get(n) ==
  /\ n <= put - got
  /\ got' = got + n
  /\ delivered' = [i \in 1 .. n |-> got + i - 1]
  /\ UNCHANGED <<put, broken>>

Drop ==
  /\ got' = put'
  /\ put' >= put
  /\ UNCHANGED <<delivered, broken>>

Break == broken'

Restart ==
  /\ broken
  /\ ~broken'
  /\ got' = put'

Next ==
  \/ /\ ~broken
     /\ \/ \E n \in 1 .. Capacity : Put(n) \/ Get(n)
        \/ Drop
  \/ Break
  \/ Restart

Spec == Init /\ [][Next]_vars
==============================================================================
