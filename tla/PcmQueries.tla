----------------------------- MODULE PcmQueries ------------------------------
(***************************************************************************)
(* The calls that ask where the hardware is, and when it was there:        *)
(* pcm_get_htimestamp, which reads the pointer until it reads the same     *)
(* twice, and pcm_mmap_get_hw_ptr, which reads the time stamp and then the *)
(* pointer.  The calling thread of PcmTransfer makes them between its      *)
(* transfers, while the hardware goes on.                                  *)
(*                                                                         *)
(* The kernel publishes its pointer together with the time it was read at  *)
(* (external), so a time stamp is here the position it belongs to.  As the *)
(* thread that asks does not transfer, a position is a value of "avail".   *)
(***************************************************************************)
EXTENDS PcmTransfer

VARIABLE query  \* locals of the query under way, and its next step

queryVars == <<vars, query>>

Function == {"none", "pcm_get_htimestamp", "pcm_mmap_get_hw_ptr"}

(* avail, tstamp and checking of pcm_get_htimestamp; *hw_ptr is in avail.  *)
NoQuery == [of |-> "none", at |-> "none", avail |-> 0, tstamp |-> 0,
            checking |-> FALSE]

QueryTypeOK ==
  /\ TypeOK
  /\ query \in [of : Function,
                at : {"none", "update", "avail", "tstamp", "sync", "state",
                      "hw_ptr", "done"},
                avail : 0 .. MaxAvail, tstamp : 0 .. MaxAvail,
                checking : BOOLEAN]

QueryInit == Init /\ query = NoQuery

Asking == query.of # "none"

Ask(function, label) ==
  /\ pc = "idle" /\ ~Asking
  /\ query' = [NoQuery EXCEPT !.of = function, !.at = label]
  /\ UNCHANGED vars

Step(label) == query' = [query EXCEPT !.at = label]
Stays == UNCHANGED <<mode, kernelVars, callVars, uncounted>>

(* What the mapped or fetched status holds.                                *)
SeenAvail == IF mode.sync_ptr THEN seen.avail ELSE avail

-----------------------------------------------------------------------------
(* pcm_get_htimestamp                                                      *)

(* The label again one line too early. *)
AvailUpdate_Again ==
  /\ query.at = "update"
  /\ Sync(FALSE)
  /\ query' = [query EXCEPT !.at = "avail", !.checking = FALSE]
  /\ Stays

(* pcm_avail_update: a sync of the application's pointer, then             *)
(* pcm_mmap_avail with its own sync; the results of both are ignored.      *)
AvailUpdate ==
  /\ query.at = "update"
  /\ Sync(FALSE)
  /\ Step("avail")
  /\ Stays

(* if (checking && (unsigned int) tmp == *avail) return 0;                 *)
AvailRead ==
  /\ query.at = "avail"
  /\ Sync(TRUE)
  /\ LET tmp == Fetch(TRUE).avail
     IN  query' = IF query.checking /\ tmp = query.avail
                  THEN [query EXCEPT !.at = "done"]
                  ELSE [query EXCEPT !.avail = tmp, !.at = "tstamp"]
  /\ Stays

(* if (!pcm->sync_ptr): with a fetched status both came in one piece.      *)
MustCheck_Never == FALSE
MustCheck == ~mode.sync_ptr

AvailStamp ==
  /\ query.at = "tstamp" /\ query.of = "pcm_get_htimestamp"
  /\ query' = [query EXCEPT !.tstamp = SeenAvail,
                            !.checking = MustCheck,
                            !.at = IF MustCheck THEN "update" ELSE "done"]
  /\ Stays /\ UNCHANGED seen

-----------------------------------------------------------------------------
(* pcm_mmap_get_hw_ptr, of a running stream                                *)

PointerSync ==
  /\ query.at = "sync"
  /\ Sync(TRUE)
  /\ IF SyncError(TRUE) = "none" THEN Step("state") ELSE query' = NoQuery
  /\ Stays

PointerState ==
  /\ query.at = "state"
  /\ IF SeenState = "RUNNING" THEN Step("tstamp") ELSE query' = NoQuery
  /\ Stays /\ UNCHANGED seen

(* A time stamp of zero, of a kernel that has not stamped the stream yet,  *)
(* is an error.                                                            *)
PointerStamp ==
  /\ query.at = "tstamp" /\ query.of = "pcm_mmap_get_hw_ptr"
  /\ \/ query' = [query EXCEPT !.tstamp = SeenAvail, !.at = "hw_ptr"]
     \/ query' = NoQuery
  /\ Stays /\ UNCHANGED seen

PointerRead ==
  /\ query.at = "hw_ptr"
  /\ query' = [query EXCEPT !.avail = SeenAvail, !.at = "done"]
  /\ Stays /\ UNCHANGED seen

-----------------------------------------------------------------------------
Answer ==
  /\ query.at = "done"
  /\ query' = NoQuery
  /\ UNCHANGED vars

pcm_get_htimestamp == Ask("pcm_get_htimestamp", "update")
pcm_mmap_get_hw_ptr == Ask("pcm_mmap_get_hw_ptr", "sync")

Query ==
  \/ AvailUpdate \/ AvailRead \/ AvailStamp
  \/ PointerSync \/ PointerState \/ PointerStamp \/ PointerRead
  \/ Answer

-----------------------------------------------------------------------------
(* What pcm_get_htimestamp returns belongs together: so many frames were   *)
(* available at that time.  The pointer pcm_mmap_get_hw_ptr returns is at  *)
(* least as far as the hardware was at the time returned with it.          *)
QueriesAgree ==
  query.at = "done" =>
    /\ query.tstamp <= query.avail
    /\ query.of = "pcm_get_htimestamp" => query.tstamp = query.avail
==============================================================================
