------------------------ MODULE PcmClientsProperties ------------------------
(***************************************************************************)
(* What must hold of tinyplay, tinycap and other clients of the transfers. *)
(***************************************************************************)
EXTENDS PcmClients, PcmTransferProperties

(* What tinyplay and tinycap say they moved is what the stream moved, over *)
(* all their calls, short ones and restarts included, unless the device    *)
(* was unplugged.  When no xrun, no failure and no other actor came        *)
(* between, tinyplay plays as much of the file as there is and its header  *)
(* says; and as long as fwrite takes everything, the count that tinycap    *)
(* writes into its header is the number of frames in the file.             *)
CountsAreTotals ==
  at \in {"read", "wait", "close", "ended"} =>
    /\ state # "DISCONNECTED" => counted = moved
    /\ IsPlay /\ at # "read" /\ ~disturbed /\ ~closing =>
         /\ counted = length - file
         /\ file = 0 \/ remaining = 0
    /\ IsCapture /\ ~disturbed => file = counted

(* A query ends although the hardware moves on under it, tinyplay ends and *)
(* so does a capture of limited length: none of them asks for ever for two *)
(* equal pointers, waits for a stream nobody started, or restarts for ever.*)
(* The exception is AlwaysStarts': an mmapped tinyplay with one period per *)
(* buffer fills the ring with its first write, which starts nothing.       *)
Busy == Asking \/ at \notin {"any", "ended", "undefined"}

ClientsEnd == FinitelyManyXruns /\ AlwaysStarts => (Busy ~> ~Busy)
==============================================================================
