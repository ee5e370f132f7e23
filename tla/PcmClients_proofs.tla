------------------------- MODULE PcmClients_proofs --------------------------
(***************************************************************************)
(* The transfer calls and the queries keep their promises to every client: *)
(* tinyplay, tinycap, and one that transfers and asks as it pleases.       *)
(***************************************************************************)
EXTENDS PcmClientsProperties, PcmTransfer_proofs

(* The frame counts of a program: what it asks for is a number.            *)
Numbers == file \in Int /\ remaining \in Int /\ asked \in Int

(* A query is made between two calls, by a client without a program.       *)
Between ==
  /\ Asking => at = "any" /\ pc = "idle"
  /\ ~Asking => query = NoQuery

(* The values a query has read so far, in the order it reads them: those   *)
(* of a fetched status are of one fetch, those of a mapped one grow.       *)
Ordered ==
  /\ query.of \in Function
  /\ query.avail \in Nat /\ query.tstamp \in Nat
  /\ query.at \in {"update", "avail"} => query.of = "pcm_get_htimestamp"
  /\ query.at \in {"sync", "state", "hw_ptr"} => query.of = "pcm_mmap_get_hw_ptr"
  /\ query.checking => ~mode.sync_ptr
  /\ query.at \in {"update", "avail"} /\ query.checking =>
       query.avail <= query.tstamp /\ query.tstamp <= avail
  /\ query.at = "tstamp" /\ query.of = "pcm_get_htimestamp" =>
       /\ query.avail <= SeenAvail
       /\ mode.sync_ptr => query.avail = SeenAvail
  /\ query.at = "hw_ptr" => query.tstamp <= SeenAvail

QueryType ==
  query \in [of : Function,
             at : {"none", "update", "avail", "tstamp", "sync", "state",
                   "hw_ptr", "done"},
             avail : Nat, tstamp : Nat, checking : BOOLEAN]

QInv == QueryType /\ Between /\ Ordered /\ QueriesAgree

CInv == IInv /\ Apart /\ Numbers /\ QInv

------------------------------------------------------------------------------
(* Queries                                                                 *)

LEMMA NoQueryAgrees ==
  ASSUME query' = NoQuery PROVE QInv'
BY DEF NoQuery, QInv, QueryType, Between, Asking, Ordered, QueriesAgree, Function

LEMMA QueryInitHolds == QueryInit => QInv
BY DEF QueryInit, NoQuery, QInv, QueryType, Between, Asking, Ordered,
       QueriesAgree, Function

LEMMA SeenAvailNat == IInv => SeenAvail \in Nat /\ avail \in Nat
BY DEF IInv, Typed, View, SeenAvail

(* A step of anything but a query or a call only lets avail grow.          *)
LEMMA QueryUntouched ==
  ASSUME IInv, QInv, UNCHANGED query,
         Asking => /\ UNCHANGED <<mode, seen, at, pc>>
                   /\ avail' \in Nat /\ avail <= avail'
  PROVE  QInv'
<1>1. CASE ~Asking
  <2>1. query' = NoQuery
    BY <1>1 DEF QInv, Between
  <2> QED BY <2>1, NoQueryAgrees
<1>2. CASE Asking
  <2>1. SeenAvail <= SeenAvail' /\ (mode.sync_ptr => SeenAvail' = SeenAvail)
    BY <1>2, SeenAvailNat DEF SeenAvail
  <2>2. SeenAvail' \in Nat /\ SeenAvail \in Nat /\ avail \in Nat
    BY <1>2, SeenAvailNat DEF SeenAvail
  <2>3. QueryType' /\ Between' /\ QueriesAgree'
    BY <1>2 DEF QInv, QueryType, Between, Asking, QueriesAgree
  <2>4. Ordered'
    <3>1. UNCHANGED <<query, mode>> /\ avail' \in Nat /\ avail <= avail'
      BY <1>2
    <3> HIDE DEF SeenAvail
    <3> QED
      BY <2>1, <2>2, <3>1 DEF QInv, Ordered
  <2> QED BY <2>3, <2>4 DEF QInv
<1> QED BY <1>1, <1>2

LEMMA AskHolds ==
  ASSUME IInv, QInv, at = "any", UNCHANGED at,
         pcm_get_htimestamp \/ pcm_mmap_get_hw_ptr
  PROVE  QInv'
<1>1. pc = "idle" /\ UNCHANGED vars
  BY DEF pcm_get_htimestamp, pcm_mmap_get_hw_ptr, Ask
<1>2. \/ query' = [NoQuery EXCEPT !.of = "pcm_get_htimestamp", !.at = "update"]
      \/ query' = [NoQuery EXCEPT !.of = "pcm_mmap_get_hw_ptr", !.at = "sync"]
  BY DEF pcm_get_htimestamp, pcm_mmap_get_hw_ptr, Ask
<1>3. query' \in
        {[of |-> "pcm_get_htimestamp", at |-> "update",
          avail |-> 0, tstamp |-> 0, checking |-> FALSE],
         [of |-> "pcm_mmap_get_hw_ptr", at |-> "sync",
          avail |-> 0, tstamp |-> 0, checking |-> FALSE]}
  BY <1>2 DEF NoQuery
<1>4. QueryType' /\ Between'
  <2>1. QueryType'
    <3> DEFINE stamp == [of |-> "pcm_get_htimestamp", at |-> "update",
                         avail |-> 0, tstamp |-> 0, checking |-> FALSE]
               pointer == [of |-> "pcm_mmap_get_hw_ptr", at |-> "sync",
                         avail |-> 0, tstamp |-> 0, checking |-> FALSE]
    <3>1. CASE query' = stamp
      BY <3>1 DEF QueryType, Function
    <3>2. CASE query' = pointer
      BY <3>2 DEF QueryType, Function
    <3> QED BY <1>3, <3>1, <3>2
  <2>2. query'.of # "none" /\ at' = "any" /\ pc' = "idle"
    BY <1>1, <1>3 DEF vars
  <2> QED BY <2>1, <2>2 DEF Between, Asking
<1>5. /\ query'.of \in Function /\ query'.at \in {"update", "sync"}
      /\ query'.at = "update" => query'.of = "pcm_get_htimestamp"
      /\ query'.at = "sync" => query'.of = "pcm_mmap_get_hw_ptr"
      /\ query'.avail = 0 /\ query'.tstamp = 0 /\ query'.checking = FALSE
  BY <1>3 DEF Function
<1>6. Ordered' /\ QueriesAgree'
  BY <1>5 DEF Ordered, QueriesAgree
<1> QED BY <1>4, <1>6 DEF QInv

(* A step of a query reads the status, and moves nothing.                  *)
LEMMA QueryReads ==
  ASSUME IInv, Query
  PROVE  /\ UNCHANGED <<mode, kernelVars, callVars, uncounted>>
         /\ seen' = seen \/ \E hwsync \in BOOLEAN : seen' = Fetch(hwsync)
BY DEF Query, AvailUpdate, AvailRead, AvailStamp, PointerSync, PointerState,
       PointerStamp, PointerRead, Answer, Stays, Sync, vars, callVars,
       kernelVars

LEMMA QueryBetween ==
  ASSUME IInv, QInv, Query, UNCHANGED at,
         query' \in [of : Function,
                     at : {"update", "avail", "tstamp", "sync", "state",
                           "hw_ptr", "done"},
                     avail : Nat, tstamp : Nat, checking : BOOLEAN],
         query'.of = query.of
  PROVE  QueryType' /\ Between'
<1>1. Asking
  <2>1. query.at # "none"
    BY DEF Query, AvailUpdate, AvailRead, AvailStamp, PointerSync,
           PointerState, PointerStamp, PointerRead, Answer
  <2>2. NoQuery.at = "none"
    BY DEF NoQuery
  <2> QED BY <2>1, <2>2 DEF QInv, Between
<1>2. pc' = pc
  BY QueryReads DEF callVars
<1>3. QueryType'
  BY DEF QueryType
<1>4. Between'
  BY <1>1, <1>2 DEF QInv, Between, Asking
<1> QED BY <1>3, <1>4

LEMMA HtimestampStep ==
  ASSUME IInv, QInv, UNCHANGED at, AvailUpdate \/ AvailRead \/ AvailStamp
  PROVE  QInv'
<1>1. UNCHANGED <<mode, avail, pc>>
  BY DEF AvailUpdate, AvailRead, AvailStamp, Stays, kernelVars, callVars
<1>2. Query
  BY DEF Query
<1>3. query \in [of : Function,
                 at : {"none", "update", "avail", "tstamp", "sync", "state",
                       "hw_ptr", "done"},
                 avail : Nat, tstamp : Nat, checking : BOOLEAN]
  BY DEF QInv, QueryType
<1>4. avail \in Nat /\ SeenAvail \in Nat
  BY SeenAvailNat
<1>5. CASE AvailUpdate
  <2>1. query' = [query EXCEPT !.at = "avail"] /\ query.at = "update"
    BY <1>5 DEF AvailUpdate, Step
  <2>2. /\ query'.of = query.of /\ query'.at = "avail"
        /\ query'.avail = query.avail /\ query'.tstamp = query.tstamp
        /\ query'.checking = query.checking
    BY <1>3, <2>1
  <2>3. QueryType' /\ Between'
    BY <1>2, <1>3, <2>1, <2>2, QueryBetween
  <2>4. Ordered' /\ QueriesAgree'
    BY <1>1, <2>1, <2>2 DEF QInv, Ordered, QueriesAgree
  <2> QED BY <2>3, <2>4 DEF QInv
<1>6. CASE AvailRead
  <2> DEFINE tmp == Fetch(TRUE).avail
  <2>1. tmp \in Nat /\ seen' = Fetch(TRUE) /\ (~mode.sync_ptr => tmp = avail)
    BY <1>6, Fetched DEF AvailRead, Sync, Fetch, View, IInv
  <2>2. SeenAvail' = tmp
    BY <1>1, <2>1 DEF SeenAvail
  <2>3. /\ query.at = "avail"
        /\ query' = IF query.checking /\ tmp = query.avail
                    THEN [query EXCEPT !.at = "done"]
                    ELSE [query EXCEPT !.avail = tmp, !.at = "tstamp"]
    BY <1>6 DEF AvailRead
  <2> HIDE DEF tmp
  <2>4. query.of = "pcm_get_htimestamp"
    BY <2>3 DEF QInv, Ordered
  <2>5. CASE query.checking /\ tmp = query.avail
    <3>1. query' = [query EXCEPT !.at = "done"]
      BY <2>3, <2>5
    <3>2. /\ query'.of = query.of /\ query'.at = "done"
          /\ query'.avail = query.avail /\ query'.tstamp = query.tstamp
          /\ query'.checking = query.checking
      BY <1>3, <3>1
    <3>3. QueryType' /\ Between'
      BY <1>2, <1>3, <3>1, <3>2, QueryBetween
    <3>4. query.tstamp = query.avail
      BY <1>3, <1>4, <2>1, <2>3, <2>5 DEF QInv, Ordered
    <3>5. Ordered' /\ QueriesAgree'
      BY <1>1, <1>3, <3>2, <3>4 DEF QInv, Ordered, QueriesAgree
    <3> QED BY <3>3, <3>5 DEF QInv
  <2>6. CASE ~(query.checking /\ tmp = query.avail)
    <3>1. query' = [[query EXCEPT !.avail = tmp] EXCEPT !.at = "tstamp"]
      BY <2>3, <2>6
    <3>2. /\ query'.of = query.of /\ query'.at = "tstamp"
          /\ query'.avail = tmp /\ query'.tstamp = query.tstamp
          /\ query'.checking = query.checking
      BY <1>3, <3>1
    <3>3. query' \in [of : Function, at : {"tstamp"}, avail : Nat,
                      tstamp : Nat, checking : BOOLEAN]
      <4> DEFINE one == [query EXCEPT !.avail = tmp]
      <4>1. one \in [of : Function,
                     at : {"none", "update", "avail", "tstamp", "sync",
                           "state", "hw_ptr", "done"},
                     avail : Nat, tstamp : Nat, checking : BOOLEAN]
        BY <1>3, <2>1
      <4>2. query' = [one EXCEPT !.at = "tstamp"]
        BY <3>1
      <4> HIDE DEF one
      <4> QED BY <4>1, <4>2
    <3>4. QueryType' /\ Between'
      BY <1>2, <3>2, <3>3, QueryBetween
    <3>5. Ordered' /\ QueriesAgree'
      <4> HIDE DEF SeenAvail
      <4> QED
        BY <1>1, <1>3, <2>1, <2>2, <2>4, <3>2
           DEF QInv, Ordered, QueriesAgree
    <3> QED BY <3>4, <3>5 DEF QInv
  <2> QED BY <2>5, <2>6
<1>7. CASE AvailStamp
  <2> DEFINE next == IF MustCheck THEN "update" ELSE "done"
  <2>1. /\ query.at = "tstamp" /\ query.of = "pcm_get_htimestamp"
        /\ query' = [[[query EXCEPT !.tstamp = SeenAvail]
                             EXCEPT !.checking = MustCheck] EXCEPT !.at = next]
        /\ UNCHANGED seen
    BY <1>7 DEF AvailStamp
  <2>2. /\ MustCheck \in BOOLEAN /\ MustCheck = ~mode.sync_ptr
        /\ next \in {"update", "done"}
        /\ next = "update" <=> MustCheck
    BY ModeAssumption DEF MustCheck, IInv, Typed, Mode
  <2> HIDE DEF next, MustCheck, SeenAvail
  <2>3. /\ query'.of = query.of /\ query'.at = next
        /\ query'.avail = query.avail /\ query'.tstamp = SeenAvail
        /\ query'.checking = MustCheck
        /\ query' \in [of : Function, at : {"update", "done"}, avail : Nat,
                       tstamp : Nat, checking : BOOLEAN]
    <3> DEFINE Record == [of : Function,
                          at : {"none", "update", "avail", "tstamp", "sync",
                                "state", "hw_ptr", "done"},
                          avail : Nat, tstamp : Nat, checking : BOOLEAN]
               one == [query EXCEPT !.tstamp = SeenAvail]
               two == [one EXCEPT !.checking = MustCheck]
    <3>1. /\ one \in Record /\ one.of = query.of /\ one.avail = query.avail
          /\ one.tstamp = SeenAvail
      BY <1>3, <1>4
    <3>2. query' = [two EXCEPT !.at = next]
      BY <2>1
    <3> HIDE DEF one
    <3>3. /\ two \in Record /\ two.of = query.of /\ two.avail = query.avail
          /\ two.tstamp = SeenAvail /\ two.checking = MustCheck
      BY <2>2, <3>1
    <3> HIDE DEF two
    <3> QED BY <2>2, <3>2, <3>3
  <2>4. QueryType' /\ Between'
    BY <1>2, <2>3, QueryBetween
  <2>5. query.avail <= SeenAvail /\ (mode.sync_ptr => query.avail = SeenAvail)
    BY <2>1 DEF QInv, Ordered
  <2>6. ~mode.sync_ptr => SeenAvail = avail
    BY DEF SeenAvail
  <2>7. /\ query'.of = "pcm_get_htimestamp" /\ query'.of \in Function
        /\ query'.avail \in Nat /\ query'.tstamp \in Nat
        /\ query'.avail <= query'.tstamp
        /\ query'.checking => query'.tstamp = avail
        /\ ~query'.checking => query'.tstamp = query'.avail
        /\ query'.at = "done" => ~query'.checking
        /\ query'.checking => ~mode.sync_ptr
    BY <1>3, <1>4, <2>1, <2>2, <2>3, <2>5, <2>6
  <2>8. Ordered' /\ QueriesAgree'
    BY <1>1, <1>4, <2>2, <2>3, <2>7 DEF Ordered, QueriesAgree
  <2> QED BY <2>4, <2>8 DEF QInv
<1> QED BY <1>5, <1>6, <1>7

LEMMA PointerStep ==
  ASSUME IInv, QInv, UNCHANGED at,
         PointerSync \/ PointerState \/ PointerStamp \/ PointerRead
  PROVE  QInv'
<1>1. UNCHANGED <<mode, avail, pc>>
  BY DEF PointerSync, PointerState, PointerStamp, PointerRead, Stays,
         kernelVars, callVars
<1>2. Query
  BY DEF Query
<1>3. query \in [of : Function,
                 at : {"none", "update", "avail", "tstamp", "sync", "state",
                       "hw_ptr", "done"},
                 avail : Nat, tstamp : Nat, checking : BOOLEAN]
  BY DEF QInv, QueryType
<1>4. avail \in Nat /\ SeenAvail \in Nat
  BY SeenAvailNat
<1>5. CASE query' = NoQuery
  BY <1>5, NoQueryAgrees
<1>6. ASSUME NEW label \in {"state", "tstamp"}, Step(label),
             query.of = "pcm_mmap_get_hw_ptr"
      PROVE  QInv'
  <2>1. /\ query'.of = query.of /\ query'.at = label
        /\ query'.avail = query.avail /\ query'.tstamp = query.tstamp
        /\ query'.checking = query.checking
        /\ query' \in [of : Function, at : {"state", "tstamp"}, avail : Nat,
                       tstamp : Nat, checking : BOOLEAN]
    BY <1>3, <1>6 DEF Step
  <2>2. QueryType' /\ Between'
    BY <1>2, <2>1, QueryBetween
  <2>3. Ordered' /\ QueriesAgree'
    BY <1>1, <1>6, <2>1 DEF QInv, Ordered, QueriesAgree
  <2> QED BY <2>2, <2>3 DEF QInv
<1>7. CASE PointerSync \/ PointerState
  <2>1. query.of = "pcm_mmap_get_hw_ptr"
    BY <1>7 DEF PointerSync, PointerState, QInv, Ordered
  <2>2. query' = NoQuery \/ Step("state") \/ Step("tstamp")
    BY <1>7 DEF PointerSync, PointerState
  <2> QED BY <1>5, <1>6, <2>1, <2>2
<1>8. CASE PointerStamp /\ query' # NoQuery
  <2>1. /\ query.of = "pcm_mmap_get_hw_ptr" /\ UNCHANGED seen
        /\ query' = [[query EXCEPT !.tstamp = SeenAvail] EXCEPT !.at = "hw_ptr"]
    BY <1>8 DEF PointerStamp
  <2>2. SeenAvail' = SeenAvail
    BY <1>1, <2>1 DEF SeenAvail
  <2> HIDE DEF SeenAvail
  <2>3. /\ query'.of = query.of /\ query'.at = "hw_ptr"
        /\ query'.avail = query.avail /\ query'.tstamp = SeenAvail
        /\ query'.checking = query.checking
        /\ query' \in [of : Function, at : {"hw_ptr"}, avail : Nat,
                       tstamp : Nat, checking : BOOLEAN]
    <3> DEFINE one == [query EXCEPT !.tstamp = SeenAvail]
    <3>1. /\ one \in [of : Function,
                      at : {"none", "update", "avail", "tstamp", "sync",
                            "state", "hw_ptr", "done"},
                      avail : Nat, tstamp : Nat, checking : BOOLEAN]
          /\ one.of = query.of /\ one.avail = query.avail
          /\ one.tstamp = SeenAvail /\ one.checking = query.checking
      BY <1>3, <1>4
    <3>2. query' = [one EXCEPT !.at = "hw_ptr"]
      BY <2>1
    <3> HIDE DEF one
    <3> QED BY <3>1, <3>2
  <2>4. QueryType' /\ Between'
    BY <1>2, <2>3, QueryBetween
  <2>5. Ordered' /\ QueriesAgree'
    BY <1>1, <1>3, <1>4, <2>1, <2>2, <2>3 DEF QInv, Ordered, QueriesAgree
  <2> QED BY <2>4, <2>5 DEF QInv
<1>9. CASE PointerRead
  <2>1. /\ query.at = "hw_ptr"
        /\ query' = [[query EXCEPT !.avail = SeenAvail] EXCEPT !.at = "done"]
    BY <1>9 DEF PointerRead
  <2>2. query.of = "pcm_mmap_get_hw_ptr" /\ query.tstamp <= SeenAvail
    BY <2>1 DEF QInv, Ordered
  <2> HIDE DEF SeenAvail
  <2>3. /\ query'.of = query.of /\ query'.at = "done"
        /\ query'.avail = SeenAvail /\ query'.tstamp = query.tstamp
        /\ query'.checking = query.checking
        /\ query' \in [of : Function, at : {"done"}, avail : Nat,
                       tstamp : Nat, checking : BOOLEAN]
    <3> DEFINE one == [query EXCEPT !.avail = SeenAvail]
    <3>1. /\ one \in [of : Function,
                      at : {"none", "update", "avail", "tstamp", "sync",
                            "state", "hw_ptr", "done"},
                      avail : Nat, tstamp : Nat, checking : BOOLEAN]
          /\ one.of = query.of /\ one.avail = SeenAvail
          /\ one.tstamp = query.tstamp /\ one.checking = query.checking
      BY <1>3, <1>4
    <3>2. query' = [one EXCEPT !.at = "done"]
      BY <2>1
    <3> HIDE DEF one
    <3> QED BY <3>1, <3>2
  <2>4. QueryType' /\ Between'
    BY <1>2, <2>3, QueryBetween
  <2>5. Ordered' /\ QueriesAgree'
    BY <1>1, <1>3, <1>4, <2>2, <2>3 DEF QInv, Ordered, QueriesAgree
  <2> QED BY <2>4, <2>5 DEF QInv
<1> QED BY <1>5, <1>7, <1>8, <1>9

------------------------------------------------------------------------------
(* The thread                                                              *)

LEMMA QueryStepHolds == CInv /\ QueryStep => CInv'
<1> SUFFICES ASSUME CInv, QueryStep PROVE CInv'
  OBVIOUS
<1>1. Query /\ UNCHANGED programVars
  BY DEF QueryStep
<1>2. /\ UNCHANGED <<mode, state, avail, slot, callVars>>
      /\ seen' = seen \/ \E hwsync \in BOOLEAN : seen' = Fetch(hwsync)
  BY <1>1, QueryReads DEF CInv, kernelVars
<1>3. Typed' /\ SeenNeverAhead'
  BY <1>2, LookingHolds DEF CInv, IInv, Typed, Looking, callVars
<1>4. Accounts' /\ Apart'
  BY <1>2 DEF CInv, IInv, Accounts, Apart, IsMmap, callVars,
              Fresh, Unmoved, Settled, Moving
<1>5. QInv'
  <2>1. UNCHANGED at
    BY <1>1 DEF programVars
  <2>2. Answer => query' = NoQuery
    BY DEF Answer
  <2> QED
    BY <1>1, <2>1, <2>2, HtimestampStep, PointerStep, NoQueryAgrees
       DEF CInv, Query
<1>6. Numbers'
  BY <1>1 DEF CInv, Numbers, programVars
<1> QED BY <1>3, <1>4, <1>5, <1>6 DEF CInv, IInv

(* What the library, the kernel and the hardware do.                       *)
LEMMA BelowStep ==
  CInv /\ (BelowLibrary \/ BelowHardware \/ BelowEnvironment) => CInv'
<1> SUFFICES ASSUME CInv,
                    BelowLibrary \/ BelowHardware \/ BelowEnvironment
             PROVE  CInv'
  OBVIOUS
<1>1. /\ Library \/ Hardware \/ Environment
      /\ UNCHANGED <<query, at, file, remaining, asked>>
  BY DEF BelowLibrary, BelowHardware, BelowEnvironment, Below
<1>2. IInv' /\ Apart'
  BY <1>1, Inductive, ApartStep DEF CInv, Next
<1>3. Numbers'
  BY <1>1 DEF CInv, Numbers
<1>4. QInv'
  <2>1. avail \in Nat
    BY DEF CInv, IInv, Typed
  <2>2. CASE Library
    <3>1. pc # "idle"
      BY <2>2 DEF Library, EntryState, EntryPrepare, Finish, Restart,
                  StartState, StartIoctl, MmapEntry, Loop, Wait, PollError,
                  Areas, Copy, Threshold, RwEntry, RwCopy, RwEnd
    <3>2. ~Asking
      BY <3>1 DEF CInv, QInv, Between
    <3> QED BY <1>1, <3>2, QueryUntouched DEF CInv
  <2>3. CASE Hardware
    <3>1. /\ UNCHANGED <<mode, seen, at, pc>>
          /\ avail' \in Nat /\ avail <= avail'
      BY <1>1, <2>1, <2>3, SizeAssumption DEF Hardware, Advance, callVars
    <3> QED BY <1>1, <3>1, QueryUntouched DEF CInv
  <2>4. CASE Environment
    <3>1. CASE WaitInterrupted
      <4>1. ~Asking
        BY <3>1 DEF WaitInterrupted, CInv, QInv, Between
      <4> QED BY <1>1, <4>1, QueryUntouched DEF CInv
    <3>2. CASE ~WaitInterrupted
      <4>1. UNCHANGED <<mode, seen, at, pc, avail>>
        BY <1>1, <2>4, <3>2
           DEF Environment, OtherStop, OtherStart, Suspend, Disconnect, callVars
      <4> QED BY <1>1, <2>1, <4>1, QueryUntouched DEF CInv
    <3> QED BY <3>1, <3>2
  <2> QED BY <1>1, <2>2, <2>3, <2>4
<1> QED BY <1>2, <1>3, <1>4 DEF CInv

LEMMA AnyClientStep == CInv /\ AnyClient => CInv'
<1> SUFFICES ASSUME CInv, AnyClient PROVE CInv'
  OBVIOUS
<1>1. Numbers' /\ UNCHANGED at
  BY DEF AnyClient, programVars, CInv, Numbers
<1>2. CASE ~Asking /\ Client /\ UNCHANGED query
  <2>1. IInv' /\ Apart'
    BY <1>2, Inductive, ApartStep DEF CInv, Next
  <2>2. QInv'
    BY <1>2, QueryUntouched DEF CInv
  <2> QED BY <1>1, <2>1, <2>2 DEF CInv
<1>3. CASE pcm_get_htimestamp \/ pcm_mmap_get_hw_ptr
  <2>1. UNCHANGED vars
    BY <1>3 DEF pcm_get_htimestamp, pcm_mmap_get_hw_ptr, Ask
  <2>2. IInv' /\ Apart'
    BY <2>1, Inductive, ApartStep DEF CInv
  <2>3. QInv'
    BY <1>1, <1>3, AskHolds DEF CInv, AnyClient
  <2> QED BY <1>1, <2>2, <2>3 DEF CInv
<1> QED BY <1>2, <1>3 DEF AnyClient

(* A program asks nothing, so no query is disturbed by its steps.          *)
LEMMA ProgramAsksNothing ==
  ASSUME QInv, at # "any", UNCHANGED query
  PROVE  QInv'
<1>1. query' = NoQuery
  BY DEF QInv, Between
<1> QED BY <1>1, NoQueryAgrees

LEMMA ProgramTransfers ==
  ASSUME IInv, NEW n \in Nat, Transfers(n)
  PROVE  IInv' /\ Apart'
<1>1. IInv'
  BY CallStep DEF Transfers
<1>2. Apart'
  BY DEF Transfers, Call, Goto, Apart, Settled
<1> QED BY <1>1, <1>2

LEMMA ReadNumber == CInv => Min({remaining, period_size, file}) \in Int
<1> SUFFICES ASSUME CInv PROVE Min({remaining, period_size, file}) \in Int
  OBVIOUS
<1>1. remaining \in Int /\ period_size \in Int /\ file \in Int
  BY ModeTypes DEF CInv, IInv, Typed, Numbers, period_size
<1>2. Min({remaining, period_size, file}) \in {remaining, period_size, file}
  BY ONLY <1>1, MinOfThree
<1> QED BY <1>1, <1>2

LEMMA ProgramStep == CInv /\ Program => CInv'
<1> SUFFICES ASSUME CInv, Program PROVE CInv'
  OBVIOUS
<1>1. at # "any" /\ UNCHANGED query
  BY DEF Program, PlayRead, PlayWritten, PlayWait, CaptureRead,
         CaptureWritten, Close, Back, Transfers, queryVars
<1>2. QInv'
  BY <1>1, ProgramAsksNothing DEF CInv
<1>3. mode.max_request \in Nat /\ ret \in Int /\ file \in Int
      /\ remaining \in Int /\ asked \in Int /\ MaxFile \in Nat
  BY ModeTypes, ClientAssumption DEF CInv, IInv, Typed, Numbers
<1>4. CASE UNCHANGED queryVars
  <2>1. IInv' /\ Apart'
    BY <1>4, Inductive, ApartStep DEF CInv, queryVars
  <2>2. Numbers'
    <3>1. CASE PlayRead
      <4> DEFINE num_read == Min({remaining, period_size, file})
      <4>2. num_read \in Int
        BY ReadNumber
      <4>3. asked' = num_read /\ file' = file - num_read /\ remaining' = remaining
        BY <3>1 DEF PlayRead
      <4> HIDE DEF num_read
      <4> QED BY <1>3, <4>2, <4>3 DEF Numbers
    <3>2. CASE PlayWritten
      BY <1>3, <3>2 DEF PlayWritten, Numbers
    <3>3. CASE PlayWait \/ Close
      BY <1>3, <3>3 DEF PlayWait, Close, Numbers
    <3>4. CASE CaptureRead
      BY <1>3, <3>4, SizeAssumption DEF CaptureRead, Numbers
    <3>5. CASE CaptureWritten
      BY <1>3, <3>5 DEF CaptureWritten, Numbers
    <3> QED BY <3>1, <3>2, <3>3, <3>4, <3>5 DEF Program
  <2> QED BY <1>2, <2>1, <2>2 DEF CInv
<1>5. CASE PlayRead /\ ~UNCHANGED queryVars
  <2> DEFINE num_read == Min({remaining, period_size, file})
  <2>2. num_read \in Int
    BY ReadNumber
  <2>3. /\ asked' = num_read /\ file' = file - num_read
        /\ remaining' = remaining
        /\ num_read > 0 /\ Transfers(num_read)
    BY <1>5 DEF PlayRead
  <2> HIDE DEF num_read
  <2>4. IInv' /\ Apart'
    BY <2>2, <2>3, ProgramTransfers DEF CInv
  <2>5. Numbers'
    BY <1>3, <2>2, <2>3 DEF Numbers
  <2> QED BY <1>2, <2>4, <2>5 DEF CInv
<1>6. CASE CaptureRead /\ ~UNCHANGED queryVars
  <2>1. /\ Transfers(BufferSize) /\ asked' = BufferSize
        /\ UNCHANGED <<file, remaining>>
    BY <1>6 DEF CaptureRead
  <2>2. IInv' /\ Apart'
    BY <2>1, SizeAssumption, ProgramTransfers DEF CInv
  <2>3. Numbers'
    BY <1>3, <2>1, SizeAssumption DEF Numbers
  <2> QED BY <1>2, <2>2, <2>3 DEF CInv
<1>7. CASE Close
  <2>1. /\ state' = IF state = "DISCONNECTED" THEN state ELSE "SETUP"
        /\ UNCHANGED <<mode, avail, slot, seen, callVars, file, remaining, asked>>
    BY <1>7 DEF Close
  <2>2. IInv'
    BY <2>1, Elsewhere DEF CInv, IInv, Typed, State
  <2>3. Apart' /\ Numbers'
    BY <2>1 DEF CInv, Apart, IsMmap, callVars, Numbers
  <2> QED BY <1>2, <2>2, <2>3 DEF CInv
<1>8. PlayWritten \/ PlayWait \/ CaptureWritten => UNCHANGED queryVars
  BY DEF PlayWritten, PlayWait, CaptureWritten
<1> QED BY <1>4, <1>5, <1>6, <1>7, <1>8 DEF Program

(* No limit is a number, and not less than any file.                       *)
LEMMA UnlimitedBounds ==
  ASSUME mode \in Modes
  PROVE  Unlimited \in Nat /\ MaxFile <= Unlimited
<1> DEFINE S == {m.max_request : m \in Modes}
           max_request == [m \in Modes |-> m.max_request]
<1>1. S \subseteq Nat /\ mode.max_request \in S
  BY ModeAssumption DEF Mode
<1>2. max_request \in Surjection(Modes, S)
  BY DEF Surjection
<1>3. IsFiniteSet(S)
  BY <1>2, FS_Surjection, ModeAssumption
<1>4. Unlimited = MaxFile + Max(S)
  BY DEF Unlimited
<1> HIDE DEF S
<1>5. Max(S) \in S
  <2>1. S \subseteq Int /\ S # {}
    BY <1>1
  <2> QED BY <1>3, <2>1, MaxOfFinite
<1>6. Max(S) \in Nat /\ MaxFile \in Nat
  BY <1>1, <1>5, ClientAssumption
<1> QED BY <1>4, <1>6

LEMMA ClientInitHolds == ClientInit => CInv
<1> SUFFICES ASSUME ClientInit PROVE CInv
  OBVIOUS
<1>1. IInv /\ Apart /\ QInv
  BY InitHolds, ApartHolds, QueryInitHolds DEF ClientInit, QueryInit
<1>2. Numbers
  <2>1. file \in Nat /\ asked = 0 /\ MaxFile \in Nat
    BY ClientAssumption DEF ClientInit
  <2>2. Max({file - 1, 0}) \in Int
    BY <2>1, MaxWithZero
  <2>3. remaining \in {Max({file - 1, 0}), file, MaxFile, Unlimited, 0}
    BY DEF ClientInit
  <2>4. Unlimited \in Nat
    BY UnlimitedBounds DEF ClientInit, QueryInit, Init
  <2> QED BY <2>1, <2>2, <2>3, <2>4 DEF Numbers
<1> QED BY <1>1, <1>2 DEF CInv

LEMMA ClientInductive == CInv /\ [ClientNext]_clientVars => CInv'
<1> SUFFICES ASSUME CInv, [ClientNext]_clientVars PROVE CInv'
  OBVIOUS
<1>1. CASE UNCHANGED <<queryVars, at, file, remaining, asked>>
  <2>1. IInv' /\ Apart'
    BY <1>1, Inductive, ApartStep DEF CInv, queryVars
  <2>2. QInv'
    <3>1. UNCHANGED <<mode, seen, at, pc, avail, query>> /\ avail \in Nat
      BY <1>1 DEF queryVars, vars, callVars, CInv, IInv, Typed
    <3> QED BY <3>1, QueryUntouched DEF CInv
  <2> QED BY <1>1, <2>1, <2>2 DEF CInv, Numbers
<1>2. CASE Interrupt \/ Ended \/ UNCHANGED clientVars
  BY <1>1, <1>2 DEF Interrupt, Ended, clientVars, programVars
<1> QED
  BY <1>2, BelowStep, ProgramStep, QueryStepHolds, AnyClientStep
     DEF ClientNext, Thread

LEMMA ClientInvariant == ClientSpec => []CInv
BY ClientInitHolds, ClientInductive, PTL DEF ClientSpec

(* What pcm_get_htimestamp returns belongs together, and the pointer that  *)
(* pcm_mmap_get_hw_ptr returns is never behind its time stamp, however the *)
(* hardware moves between the reads, with mapped and with fetched status.  *)
THEOREM QueriesAgreeCorrect == ClientSpec => []QueriesAgree
<1>1. CInv => QueriesAgree
  BY DEF CInv, QInv
<1> QED BY <1>1, ClientInvariant, PTL

(* Under tinyplay, tinycap and any other client a call still reports the   *)
(* frames it moved, and the view of the stream the library keeps is never  *)
(* ahead of it, though queries refresh it too.                             *)
THEOREM ClientCallsCorrect ==
  ClientSpec => [](ReturnCountsFrames /\ SeenNeverAhead)
<1>1. CInv => ReturnCountsFrames /\ SeenNeverAhead
  BY DEF CInv, IInv, Accounts, ReturnCountsFrames, Idle
<1> QED BY <1>1, ClientInvariant, PTL
------------------------------------------------------------------------------
(* What the programs count                                                 *)

(* Where a program is, and that a call under way is the one it made.       *)
Programs ==
  /\ at \in {"any", "read", "transfer", "wait", "close", "ended", "undefined"}
  /\ at = "any" <=> ~IsPlay /\ ~IsCapture
  /\ at \notin {"any", "transfer"} => pc = "idle"
  /\ at = "transfer" /\ pc # "idle" => request = asked

Tally ==
  /\ counted \in Nat /\ file \in Nat /\ remaining \in Nat
  /\ asked \in Nat /\ length \in Nat
  /\ state # "DISCONNECTED" => counted = moved
  /\ IsCapture /\ ~disturbed => file = counted
  /\ IsPlay /\ at = "transfer" => asked <= remaining

(* Every frame read from the file and not yet counted is in the call under *)
(* way, which takes all of them.                                           *)
Played ==
  IsPlay /\ ~disturbed =>
    /\ Calm /\ state # "XRUN"
    /\ at = "read" => counted = length - file
    /\ at = "transfer" => /\ counted + asked = length - file
                          /\ pc = "idle" => ret = asked
    /\ at \in {"wait", "close", "ended"} =>
         /\ counted = length - file
         /\ ~closing => file = 0 \/ remaining = 0

(* pcm_close may leave an xrun uncounted, of a stream that ends with it.   *)
CountedToTheEnd ==
  IF at = "ended"
  THEN /\ state = "SETUP"
       /\ uncounted \in -2 .. 1 /\ (~IsNoRestart => uncounted >= 0)
  ELSE Counted

Quiet == Undisturbed => Calm /\ CountedToTheEnd

FInv == CInv /\ Shares /\ Programs /\ Tally /\ Played /\ Quiet

LEMMA ClientModes ==
  ASSUME IInv
  PROVE  /\ IsPlay => ~IsNonblock /\ period_size >= 1 /\ ~IsCapture
         /\ period_size \in Nat
BY ClientAssumption, ModeTypes
   DEF IInv, Typed, IsPlay, IsCapture, IsNonblock, period_size

LEMMA ClientCountsHold == ClientInit => FInv
<1> SUFFICES ASSUME ClientInit PROVE FInv
  OBVIOUS
<1>1. CInv /\ Init
  BY ClientInitHolds DEF ClientInit, QueryInit
<1>2. Shares /\ Calm /\ Counted
  BY <1>1, SharesHolds, CalmHolds, CountedHolds
<1>3. /\ at = IF IsPlay \/ IsCapture THEN "read" ELSE "any"
      /\ asked = 0 /\ counted = 0 /\ moved = 0 /\ length = file
      /\ disturbed = FALSE
      /\ pc = "idle" /\ state = "SETUP"
  BY <1>1 DEF ClientInit, Init
<1>4. /\ file \in Nat /\ remaining \in Nat
      /\ IsCapture /\ ~IsPlay => file = 0
  <2>1. file \in Nat /\ MaxFile \in Nat
    BY ClientAssumption DEF ClientInit
  <2>2. Max({file - 1, 0}) \in Nat
    BY <2>1, MaxWithZero
  <2>3. remaining \in {Max({file - 1, 0}), file, MaxFile, Unlimited, 0}
    BY DEF ClientInit
  <2>4. ~IsPlay => file = 0
    BY DEF ClientInit
  <2>5. Unlimited \in Nat
    BY <1>1, UnlimitedBounds DEF Init
  <2> QED BY <2>1, <2>2, <2>3, <2>4, <2>5
<1>5. IsPlay => ~IsCapture
  BY <1>1, ClientModes DEF CInv
<1>6. Programs
  BY <1>3 DEF Programs
<1>7. Tally
  BY <1>3, <1>4, <1>5 DEF Tally
<1>8. Played
  BY <1>2, <1>3, <1>4 DEF Played
<1>9. Quiet
  BY <1>2, <1>3 DEF Quiet, CountedToTheEnd
<1> QED BY <1>1, <1>2, <1>6, <1>7, <1>8, <1>9 DEF FInv

(* A step of the library belongs to a call, whose request it keeps, and    *)
(* stops no stream.                                                        *)
LEMMA LibraryKeeps ==
  ASSUME Library
  PROVE  /\ pc # "idle" /\ mode' = mode
         /\ pc' # "idle" => request' = request
         /\ state' = state \/ state' \in {"PREPARED", "RUNNING"}
<1>1. CASE EntryState \/ EntryPrepare \/ Finish \/ Restart
  BY <1>1 DEF Library, EntryState, EntryPrepare, Finish, Restart, Return, Goto,
              pcm_prepare, KernelPrepare, kernelVars
<1>2. CASE StartState \/ StartIoctl \/ MmapEntry \/ Loop \/ Wait \/ PollError
  BY <1>2 DEF Library, StartState, StartIoctl, MmapEntry, Loop, Wait,
              PollError, pcm_prepare, KernelPrepare, kernelVars
<1>3. CASE Areas \/ Copy \/ Threshold \/ RwEntry \/ RwCopy \/ RwEnd
  BY <1>3 DEF Library, Areas, Copy, Threshold, RwEntry, RwCopy, RwEnd,
              kernelVars
<1> QED BY <1>1, <1>2, <1>3 DEF Library

(* A blocking call that meets no xrun transfers all it was asked to.       *)
LEMMA CallComplete ==
  ASSUME IInv, Shares, Calm, Library, state # "XRUN", ~IsNonblock,
         pc' = "idle"
  PROVE  ret' = request
<1>1. pc \notin {"idle", "restart"} /\ request >= 1
  BY LibraryKeeps DEF Calm, Reachable, Shares
<1>2. ~EntryPrepare
  <2> SUFFICES ASSUME EntryPrepare PROVE FALSE
    OBVIOUS
  <2>1. state = "SETUP"
    BY DEF EntryPrepare, Calm, Reachable
  <2> QED
    BY <2>1 DEF EntryPrepare, pcm_prepare_fails, PrepareError, Goto
<1>3. Finish
  BY <1>1, <1>2 DEF Library, EntryState, StartState, StartIoctl, MmapEntry,
         Loop, Wait, PollError, Areas, Copy, Threshold, RwEntry, RwCopy,
         RwEnd, Restart, Goto, Fail
<1>4. call.user_offset = request
  BY <1>3 DEF Finish, Calm, Outcome
<1> QED
  BY <1>1, <1>3, <1>4 DEF Finish, Return, Goto, IInv, Typed

LEMMA StaysUnplugged ==
  ASSUME Library \/ Hardware \/ Environment, state = "DISCONNECTED"
  PROVE  state' = "DISCONNECTED"
<1>1. CASE EntryState \/ EntryPrepare \/ Finish \/ Restart
  BY <1>1, Unplugged
     DEF EntryState, EntryPrepare, Finish, Restart, pcm_prepare, kernelVars
<1>2. CASE StartState \/ StartIoctl \/ MmapEntry \/ Loop \/ Wait \/ PollError
  BY <1>2 DEF StartState, StartIoctl, MmapEntry, Loop, Wait, PollError,
              kernelVars
<1>3. CASE Areas \/ Copy \/ Threshold \/ RwEntry \/ RwCopy \/ RwEnd
  BY <1>3, Unplugged DEF Areas, Copy, Threshold, RwEntry, RwCopy, RwEnd,
                         kernelVars
<1>4. CASE Hardware \/ Environment
  BY <1>4 DEF Hardware, Advance, Environment, WaitInterrupted, OtherStop,
              OtherStart, Suspend, Disconnect, kernelVars
<1> QED BY <1>1, <1>2, <1>3, <1>4 DEF Library

LEMMA BelowCounts ==
  FInv /\ (BelowLibrary \/ BelowHardware \/ BelowEnvironment) => FInv'
<1> SUFFICES ASSUME FInv, BelowLibrary \/ BelowHardware \/ BelowEnvironment
             PROVE  FInv'
  OBVIOUS
<1>1. /\ Library \/ Hardware \/ Environment
      /\ UNCHANGED <<at, length, file, remaining, asked, counted, closing, moved>>
      /\ ~disturbed' => ~disturbed
  BY DEF BelowLibrary, BelowHardware, BelowEnvironment, Below
<1>2. /\ UNCHANGED mode /\ (IsPlay' <=> IsPlay) /\ (IsCapture' <=> IsCapture)
      /\ Undisturbed' <=> Undisturbed
  BY <1>1 DEF Library, Hardware, Environment, IsPlay, IsCapture, Undisturbed
<1>3. CInv' /\ IInv /\ Apart
  BY BelowStep DEF FInv, CInv
<1>4. Tally'
  BY <1>1, <1>2, StaysUnplugged DEF FInv, Tally
<1>5. /\ Shares /\ Programs /\ Played /\ Quiet
      /\ IsPlay => ~IsNonblock
  BY <1>3, ClientModes DEF FInv
<1>6. CASE BelowLibrary
  <2>1. Library
    BY <1>6 DEF BelowLibrary, Below
  <2>2. Shares'
    BY <1>3, <1>5, <2>1, SharesStep
  <2>3. /\ pc # "idle" /\ (pc' # "idle" => request' = request)
        /\ state' = state \/ state' \in {"PREPARED", "RUNNING"}
    BY <2>1, LibraryKeeps
  <2>4. at \in {"any", "transfer"}
    BY <1>5, <2>3 DEF Programs
  <2>5. Programs'
    BY <1>1, <1>2, <1>5, <2>3, <2>4 DEF Programs
  <2>6. Played'
    <3> SUFFICES ASSUME IsPlay, ~disturbed
                 PROVE  /\ Calm' /\ state' # "XRUN"
                        /\ at = "transfer" /\ counted + asked = length - file
                        /\ pc' = "idle" => ret' = asked
      BY <1>1, <1>2, <2>4 DEF Played, Programs, FInv
    <3>1. at = "transfer"
      BY <1>5, <2>4 DEF Programs
    <3>2. Calm /\ state # "XRUN" /\ counted + asked = length - file
      BY <1>5, <3>1 DEF Played
    <3>3. Calm'
      BY <1>3, <1>5, <2>1, <3>2, CalmStep
    <3>4. pc' = "idle" => ret' = request
      BY <1>3, <1>5, <2>1, <3>2, CallComplete
    <3>5. request = asked
      BY <1>5, <2>3, <3>1 DEF Programs
    <3> QED BY <2>3, <3>1, <3>2, <3>3, <3>4, <3>5
  <2>7. Quiet'
    <3> SUFFICES ASSUME Undisturbed PROVE Calm' /\ CountedToTheEnd'
      BY <1>2 DEF Quiet
    <3>1. Calm /\ Counted /\ at # "ended"
      BY <1>5, <2>4 DEF Quiet, CountedToTheEnd
    <3>2. Calm' /\ Counted'
      BY <1>3, <1>5, <2>1, <3>1, CalmStep, CountedStep
    <3> QED BY <1>1, <3>1, <3>2 DEF CountedToTheEnd
  <2> QED BY <1>3, <1>4, <2>2, <2>5, <2>6, <2>7 DEF FInv
<1>7. CASE BelowHardware
  <2>1. /\ Hardware /\ state = "RUNNING" /\ UNCHANGED callVars
        /\ disturbed' = (disturbed \/ (IsPlay /\ state' = "XRUN"))
    BY <1>7 DEF BelowHardware, Below, Hardware, Advance
  <2>2. Shares'
    BY <1>5, <2>1 DEF Shares, callVars
  <2>3. Programs'
    BY <1>1, <1>2, <1>5, <2>1 DEF Programs, callVars
  <2>4. Played'
    <3>1. IsPlay /\ ~disturbed' => Calm' /\ state' # "XRUN"
      BY <1>3, <1>5, <2>1, HardwareCalm DEF Played
    <3> QED BY <1>1, <1>2, <1>5, <2>1, <3>1 DEF Played, callVars
  <2>5. Quiet'
    <3> SUFFICES ASSUME Undisturbed PROVE Calm' /\ CountedToTheEnd'
      BY <1>2 DEF Quiet
    <3>1. Calm /\ Counted /\ at # "ended"
      BY <1>5, <2>1 DEF Quiet, CountedToTheEnd
    <3>2. Calm' /\ Counted'
      BY <1>3, <1>5, <2>1, <3>1, HardwareCalm, HardwareCounted
    <3> QED BY <1>1, <3>1, <3>2 DEF CountedToTheEnd
  <2> QED BY <1>3, <1>4, <2>2, <2>3, <2>4, <2>5 DEF FInv
<1>8. CASE BelowEnvironment
  <2>1. Environment /\ disturbed' = (disturbed \/ IsPlay)
    BY <1>8 DEF BelowEnvironment, Below
  <2>2. \/ pc' = "finish" /\ pc = "wait" /\ UNCHANGED request
        \/ UNCHANGED callVars
    BY <2>1 DEF Environment, WaitInterrupted, OtherStop, OtherStart, Suspend,
                Disconnect, Fail, Goto
  <2>3. Shares'
    BY <1>5, <2>2 DEF Shares, Settled, callVars
  <2>4. Programs'
    BY <1>1, <1>2, <1>5, <2>2 DEF Programs, callVars
  <2>5. ~(IsPlay' /\ ~disturbed') /\ ~Undisturbed'
    BY <1>2, <2>1 DEF Environment, WaitInterrupted, OtherStop, OtherStart,
                      Suspend, Disconnect, Undisturbed
  <2> QED BY <1>3, <1>4, <2>3, <2>4, <2>5 DEF FInv, Played, Quiet
<1> QED BY <1>6, <1>7, <1>8

(* A step that moves neither the stream nor the program.                   *)
LEMMA Aside ==
  ASSUME FInv, CInv',
         UNCHANGED <<mode, state, avail, slot, callVars, uncounted>>,
         UNCHANGED <<at, length, file, remaining, asked, counted, moved>>,
         disturbed' = disturbed, closing => closing',
         seen' = seen \/ pc = "idle"
  PROVE  FInv'
<1>1. /\ IsPlay' <=> IsPlay
      /\ IsCapture' <=> IsCapture
      /\ Undisturbed' <=> Undisturbed
  BY DEF IsPlay, IsCapture, Undisturbed
<1>2. Shares' /\ Programs' /\ Tally'
  BY <1>1 DEF FInv, Shares, Programs, Tally, callVars
<1>3. Calm => Calm'
  BY DEF Calm, Reachable, Room, Outcome, SeenState, IsPlayback, IsNonblock,
         callVars
<1>4. Played'
  BY <1>1, <1>3 DEF FInv, Played, callVars
<1>5. Quiet'
  BY <1>1, <1>3 DEF FInv, Quiet, CountedToTheEnd, Counted, IsNoRestart,
                    callVars
<1> QED BY <1>2, <1>4, <1>5 DEF FInv

LEMMA QueryCounts == FInv /\ QueryStep => FInv'
<1> SUFFICES ASSUME FInv, QueryStep PROVE FInv'
  OBVIOUS
<1>1. CInv' /\ Query /\ UNCHANGED programVars
  BY QueryStepHolds DEF FInv, QueryStep
<1>2. UNCHANGED <<mode, state, avail, slot, callVars, uncounted>>
  BY <1>1, QueryReads DEF FInv, CInv, kernelVars
<1>3. Asking
  <2>1. query.at # "none"
    BY <1>1 DEF Query, AvailUpdate, AvailRead, AvailStamp, PointerSync,
           PointerState, PointerStamp, PointerRead, Answer
  <2> QED BY <2>1 DEF FInv, CInv, QInv, Between, NoQuery
<1>4. pc = "idle"
  BY <1>3 DEF FInv, CInv, QInv, Between
<1> QED BY <1>1, <1>2, <1>4, Aside DEF programVars

LEMMA AnyClientCounts == FInv /\ AnyClient => FInv'
<1> SUFFICES ASSUME FInv, AnyClient PROVE FInv'
  OBVIOUS
<1>1. /\ CInv' /\ IInv /\ at = "any" /\ UNCHANGED programVars
      /\ ~IsPlay /\ ~IsCapture
  BY AnyClientStep DEF FInv, CInv, AnyClient, Programs
<1>2. CASE UNCHANGED vars
  BY <1>1, <1>2, Aside DEF vars, callVars, programVars
<1>3. CASE Client
  <2>1. /\ UNCHANGED mode /\ ~IsPlay' /\ ~IsCapture'
        /\ Undisturbed' <=> Undisturbed
    BY <1>1, <1>3 DEF Client, IsPlay, IsCapture, Undisturbed
  <2>2. state = "DISCONNECTED" => state' = state
    BY <1>3, Unplugged DEF Client, Call, ClientPrepare, pcm_prepare, kernelVars
  <2>3. Programs' /\ Tally' /\ Played'
    BY <1>1, <2>1, <2>2 DEF FInv, Programs, Tally, Played, programVars
  <2>4. Shares' /\ Quiet'
    <3>1. ASSUME NEW n \in 1 .. mode.max_request, Call(n)
          PROVE  Shares' /\ Quiet'
      <4>1. n \in Nat /\ n >= 1
        BY <1>1, ModeTypes DEF IInv, Typed
      <4>2. Shares' /\ (Calm => Calm') /\ (Counted => Counted')
        BY <2>1, <3>1, <4>1, CallCalm
      <4> QED BY <1>1, <2>1, <4>2 DEF FInv, Quiet, CountedToTheEnd, programVars
    <3>2. CASE ClientPrepare
      <4>1. ~Undisturbed' /\ UNCHANGED callVars
        BY <2>1, <3>2 DEF ClientPrepare, Undisturbed
      <4> QED BY <4>1 DEF FInv, Shares, Quiet, callVars
    <3> QED BY <1>3, <3>1, <3>2 DEF Client
  <2> QED BY <1>1, <2>3, <2>4 DEF FInv
<1> QED
  BY <1>2, <1>3 DEF AnyClient, pcm_get_htimestamp, pcm_mmap_get_hw_ptr, Ask

(* A program that leaves the library and the stream alone.                 *)
LEMMA AboveCalm ==
  ASSUME FInv, UNCHANGED queryVars, at # "ended", at' # "ended"
  PROVE  /\ Shares' /\ Quiet' /\ (Calm => Calm')
         /\ (IsPlay' <=> IsPlay) /\ (IsCapture' <=> IsCapture)
         /\ UNCHANGED <<pc, state, mode, request, ret>>
BY DEF FInv, Shares, Quiet, Calm, Reachable, Room, Outcome, CountedToTheEnd,
       Counted, Undisturbed, IsPlay, IsCapture, SeenState, IsPlayback,
       IsNonblock, IsNoRestart, queryVars, vars

LEMMA TransferCalm ==
  ASSUME FInv, NEW n \in Nat, n >= 1, Transfers(n), at # "ended", at' # "ended"
  PROVE  /\ Shares' /\ Quiet' /\ (Calm => Calm')
         /\ (IsPlay' <=> IsPlay) /\ (IsCapture' <=> IsCapture)
         /\ pc' = "entry" /\ state' = state /\ request' = n
<1>1. Call(n) /\ UNCHANGED mode
  BY DEF Transfers
<1>2. Shares' /\ (Calm => Calm') /\ (Counted => Counted')
  BY <1>1, CallCalm
<1>3. Quiet'
  BY <1>1, <1>2 DEF FInv, Quiet, CountedToTheEnd, Undisturbed
<1> QED
  BY <1>1, <1>2, <1>3 DEF Call, Goto, kernelVars, IsPlay, IsCapture

LEMMA PlayReadCounts == FInv /\ Program /\ PlayRead => FInv'
<1> SUFFICES ASSUME FInv, Program, PlayRead PROVE FInv'
  OBVIOUS
<1> DEFINE num_read == Min({remaining, period_size, file})
<1>1. /\ CInv' /\ IsPlay /\ at = "read" /\ ~IsCapture
      /\ period_size \in Nat /\ period_size >= 1
      /\ remaining \in Nat /\ file \in Nat /\ length \in Nat /\ counted \in Nat
  BY ProgramStep, ClientModes DEF FInv, CInv, PlayRead, Tally
<1>2. num_read \in {remaining, period_size, file}
      /\ num_read <= remaining /\ num_read <= file
  <2>1. remaining \in Int /\ period_size \in Int /\ file \in Int
    BY <1>1
  <2> QED BY ONLY <2>1, MinOfThree
<1>3. /\ asked' = num_read /\ file' = file - num_read
      /\ UNCHANGED <<length, remaining, counted, closing, moved, disturbed>>
      /\ IF num_read > 0
         THEN Transfers(num_read) /\ at' = "transfer"
         ELSE at' = "wait" /\ UNCHANGED queryVars
  BY DEF Program, PlayRead
<1> HIDE DEF num_read
<1>4. num_read \in Nat /\ file' \in Nat
  BY <1>1, <1>2, <1>3
<1>5. ~disturbed => Calm /\ state # "XRUN" /\ counted = length - file
  BY <1>1 DEF FInv, Played
<1>6. CASE num_read > 0
  <2>1. Transfers(num_read) /\ at' = "transfer" /\ num_read >= 1
    BY <1>3, <1>4, <1>6
  <2>2. /\ Shares' /\ Quiet' /\ (Calm => Calm')
        /\ IsPlay' /\ ~IsCapture'
        /\ pc' = "entry" /\ state' = state /\ request' = num_read
    BY <1>1, <1>4, <2>1, TransferCalm
  <2>3. Programs'
    BY <1>3, <2>1, <2>2 DEF Programs
  <2>4. Tally'
    BY <1>1, <1>2, <1>3, <1>4, <2>2 DEF FInv, Tally
  <2>5. Played'
    <3>1. counted = length - file => counted + num_read = length - file'
      BY <1>1, <1>3, <1>4
    <3> QED BY <1>3, <1>5, <2>1, <2>2, <3>1 DEF Played
  <2> QED BY <1>1, <2>2, <2>3, <2>4, <2>5 DEF FInv
<1>7. CASE num_read = 0
  <2>1. UNCHANGED queryVars /\ at' = "wait" /\ file' = file
    BY <1>1, <1>3, <1>7
  <2>2. /\ Shares' /\ Quiet' /\ (Calm => Calm')
        /\ IsPlay' /\ ~IsCapture' /\ pc' = pc /\ state' = state
    BY <1>1, <2>1, AboveCalm
  <2>3. pc = "idle"
    BY <1>1 DEF FInv, Programs
  <2>4. Programs'
    BY <2>1, <2>2, <2>3 DEF Programs
  <2>5. Tally'
    BY <1>1, <1>3, <1>4, <2>1, <2>2 DEF FInv, Tally
  <2>6. Played'
    BY <1>1, <1>2, <1>3, <1>5, <1>7, <2>1, <2>2 DEF Played
  <2> QED BY <1>1, <2>2, <2>4, <2>5, <2>6 DEF FInv
<1> QED BY <1>4, <1>6, <1>7

(* What a call that is back moved, the program adds to what was moved.     *)
LEMMA BackCounts ==
  ASSUME FInv, Back, state # "DISCONNECTED"
  PROVE  /\ counted = moved /\ ret \in Int
         /\ committed = IF ret >= 0 THEN ret ELSE 0
<1>1. ret \in Int /\ committed = Max({ret, 0})
  BY DEF FInv, CInv, IInv, Typed, Accounts, Back
<1>2. counted = moved
  BY DEF FInv, Tally
<1> QED BY <1>1, <1>2, MinMaxOfTwo

LEMMA PlayWrittenCounts == FInv /\ Program /\ PlayWritten => FInv'
<1> SUFFICES ASSUME FInv, Program, PlayWritten PROVE FInv'
  OBVIOUS
<1>1. /\ CInv' /\ IsPlay /\ ~IsCapture /\ Back /\ ret \in Int
      /\ counted \in Nat /\ remaining \in Nat /\ asked \in Nat
      /\ file \in Nat /\ length \in Nat /\ asked <= remaining
  BY ProgramStep, ClientModes
     DEF FInv, CInv, IInv, Typed, PlayWritten, Back, Tally
<1>2. /\ moved' = moved + committed /\ at' \in {"read", "wait"}
      /\ UNCHANGED <<queryVars, length, file, asked, closing>>
  BY DEF Program, PlayWritten
<1>3. /\ Shares' /\ Quiet' /\ (Calm => Calm')
      /\ IsPlay' /\ ~IsCapture' /\ UNCHANGED <<pc, state>> /\ pc = "idle"
  BY <1>1, <1>2, AboveCalm DEF Back
<1>4. Programs'
  BY <1>2, <1>3 DEF Programs
<1>5. CASE ret < 0
  <2>1. /\ disturbed' = TRUE /\ at' = "wait"
        /\ UNCHANGED <<remaining, counted>>
    BY <1>5 DEF PlayWritten
  <2>2. state # "DISCONNECTED" => counted' = moved'
    <3> SUFFICES ASSUME state # "DISCONNECTED" PROVE counted' = moved'
      OBVIOUS
    <3> QED BY <1>1, <1>2, <1>5, <2>1, BackCounts
  <2>3. Tally'
    BY <1>1, <1>2, <1>3, <2>1, <2>2 DEF Tally
  <2> QED BY <1>1, <1>3, <1>4, <2>1, <2>3 DEF FInv, Played
<1>6. CASE ret >= 0
  <2>1. /\ remaining' = IF IsStdin THEN remaining ELSE remaining - asked
        /\ counted' = counted + ret
        /\ at' = IF ~closing /\ remaining' > 0 THEN "read" ELSE "wait"
        /\ UNCHANGED disturbed
    BY <1>1, <1>6 DEF PlayWritten
  <2>2. remaining' \in Nat /\ counted' \in Nat
    BY <1>1, <1>6, <2>1
  <2>3. state # "DISCONNECTED" => counted' = moved'
    <3> SUFFICES ASSUME state # "DISCONNECTED" PROVE counted' = moved'
      OBVIOUS
    <3> QED BY <1>1, <1>2, <1>6, <2>1, BackCounts
  <2>4. Tally'
    BY <1>1, <1>2, <1>3, <2>1, <2>2, <2>3 DEF Tally
  <2>5. ~disturbed => /\ Calm /\ state # "XRUN"
                      /\ counted' = length - file
    <3> SUFFICES ASSUME ~disturbed
                 PROVE  Calm /\ state # "XRUN" /\ counted' = length - file
      OBVIOUS
    <3>1. /\ Calm /\ state # "XRUN" /\ ret = asked
          /\ counted + asked = length - file
      BY <1>1 DEF FInv, Played, Back
    <3> QED BY <2>1, <3>1
  <2>6. at' = "wait" /\ ~closing => remaining' = 0
    BY <2>1, <2>2
  <2>7. Played'
    BY <1>2, <1>3, <2>1, <2>5, <2>6 DEF Played
  <2> QED BY <1>1, <1>3, <1>4, <2>4, <2>7 DEF FInv
<1> QED BY <1>1, <1>5, <1>6

LEMMA PlayWaitCounts == FInv /\ Program /\ PlayWait => FInv'
<1> SUFFICES ASSUME FInv, Program, PlayWait PROVE FInv'
  OBVIOUS
<1>1. /\ CInv' /\ IsPlay /\ ~IsCapture /\ at = "wait" /\ at' = "close"
      /\ UNCHANGED <<queryVars, length, file, remaining, asked, counted,
                     closing, moved, disturbed>>
  BY ProgramStep, ClientModes DEF FInv, CInv, Program, PlayWait
<1>2. /\ Shares' /\ Quiet' /\ (Calm => Calm')
      /\ IsPlay' /\ ~IsCapture' /\ UNCHANGED <<pc, state>>
  BY <1>1, AboveCalm
<1>3. Programs' /\ Tally' /\ Played'
  BY <1>1, <1>2 DEF FInv, Programs, Tally, Played
<1> QED BY <1>1, <1>2, <1>3 DEF FInv

LEMMA CaptureReadCounts == FInv /\ Program /\ CaptureRead => FInv'
<1> SUFFICES ASSUME FInv, Program, CaptureRead PROVE FInv'
  OBVIOUS
<1>1. /\ CInv' /\ IsCapture /\ ~IsPlay /\ at = "read"
      /\ UNCHANGED <<length, file, remaining, counted, closing, moved, disturbed>>
      /\ \/ at' = "close" /\ UNCHANGED <<queryVars, asked>>
         \/ Transfers(BufferSize) /\ asked' = BufferSize /\ at' = "transfer"
  BY ProgramStep, ClientModes DEF FInv, CInv, Program, CaptureRead
<1>2. BufferSize \in Nat /\ BufferSize >= 1 /\ pc = "idle"
  BY <1>1, SizeAssumption DEF FInv, Programs
<1>3. /\ Shares' /\ Quiet' /\ ~IsPlay' /\ IsCapture' /\ state' = state
      /\ at' = "close" => pc' = "idle"
      /\ at' = "transfer" => request' = BufferSize
  BY <1>1, <1>2, AboveCalm, TransferCalm
<1>4. Programs' /\ Tally' /\ Played'
  BY <1>1, <1>2, <1>3 DEF FInv, Programs, Tally, Played
<1> QED BY <1>1, <1>3, <1>4 DEF FInv

LEMMA CaptureWrittenCounts == FInv /\ Program /\ CaptureWritten => FInv'
<1> SUFFICES ASSUME FInv, Program, CaptureWritten PROVE FInv'
  OBVIOUS
<1>1. /\ CInv' /\ IsCapture /\ ~IsPlay /\ Back /\ ret \in Int
      /\ counted \in Nat /\ file \in Nat
      /\ ~disturbed => file = counted
  BY ProgramStep, ClientModes
     DEF FInv, CInv, IInv, Typed, CaptureWritten, Tally
<1>2. /\ moved' = moved + committed /\ at' \in {"read", "close", "undefined"}
      /\ UNCHANGED <<queryVars, length, remaining, asked>>
  BY DEF Program, CaptureWritten
<1>3. /\ Shares' /\ Quiet' /\ ~IsPlay' /\ IsCapture'
      /\ UNCHANGED <<pc, state>> /\ pc = "idle"
  BY <1>1, <1>2, AboveCalm DEF Back
<1>4. /\ file' \in Nat /\ counted' \in Nat
      /\ ~disturbed' => file' = counted'
      /\ counted' = IF ret < 0 THEN counted ELSE counted + ret
  <2>1. CASE ret < 0
    BY <1>1, <2>1 DEF CaptureWritten
  <2>2. CASE ret >= 0
    <3>1. /\ counted' = counted + ret
          /\ \/ file' = file + ret /\ UNCHANGED disturbed
             \/ file' \in file .. file + ret - 1 /\ disturbed' = TRUE
      BY <1>1, <2>2 DEF CaptureWritten, Total
    <3> QED BY <1>1, <2>2, <3>1
  <2> QED BY <1>1, <2>1, <2>2
<1>5. state # "DISCONNECTED" => counted' = moved'
  <2> SUFFICES ASSUME state # "DISCONNECTED" PROVE counted' = moved'
    OBVIOUS
  <2> QED BY <1>1, <1>2, <1>4, BackCounts
<1>6. Programs' /\ Tally' /\ Played'
  BY <1>2, <1>3, <1>4, <1>5 DEF FInv, Programs, Tally, Played
<1> QED BY <1>1, <1>3, <1>6 DEF FInv

LEMMA CloseCounts == FInv /\ Program /\ Close => FInv'
<1> SUFFICES ASSUME FInv, Program, Close PROVE FInv'
  OBVIOUS
<1>1. /\ CInv' /\ at = "close" /\ at' = "ended"
      /\ state' = IF state = "DISCONNECTED" THEN state ELSE "SETUP"
      /\ UNCHANGED <<mode, avail, slot, seen, callVars, uncounted, length, file,
                     remaining, asked, counted, closing, moved, disturbed>>
  BY ProgramStep DEF FInv, CInv, Program, Close
<1>2. /\ IsPlay' <=> IsPlay
      /\ IsCapture' <=> IsCapture
      /\ Undisturbed' <=> Undisturbed
      /\ pc = "idle"
  BY <1>1 DEF IsPlay, IsCapture, Undisturbed, FInv, Programs
<1>3. Shares' /\ Programs' /\ Tally'
  BY <1>1, <1>2 DEF FInv, Shares, Programs, Tally, callVars
<1>4. Calm => Calm' /\ state' = "SETUP"
  BY <1>1, <1>2 DEF Calm, Reachable, Room, Outcome, callVars
<1>5. Played'
  BY <1>1, <1>2, <1>4 DEF FInv, Played
<1>6. Quiet'
  BY <1>1, <1>2, <1>4 DEF FInv, Quiet, CountedToTheEnd, Counted, IsNoRestart
<1> QED BY <1>1, <1>3, <1>5, <1>6 DEF FInv

LEMMA InterruptCounts ==
  FInv /\ (Interrupt \/ Ended \/ UNCHANGED clientVars) => FInv'
<1> SUFFICES ASSUME FInv, Interrupt \/ Ended \/ UNCHANGED clientVars
             PROVE  FInv'
  OBVIOUS
<1>1. CInv'
  BY ClientInductive DEF FInv, ClientNext
<1>2. /\ UNCHANGED <<mode, state, avail, slot, callVars, uncounted, seen>>
      /\ UNCHANGED <<at, length, file, remaining, asked, counted, moved>>
      /\ disturbed' = disturbed /\ (closing => closing')
  BY DEF Interrupt, stream_close, sigint_handler, Ended, clientVars,
         programVars, queryVars, vars, callVars
<1> QED BY <1>1, <1>2, Aside

LEMMA CountsInductive == FInv /\ [ClientNext]_clientVars => FInv'
BY BelowCounts, QueryCounts, AnyClientCounts, PlayReadCounts,
   PlayWrittenCounts, PlayWaitCounts, CaptureReadCounts, CaptureWrittenCounts,
   CloseCounts, InterruptCounts
   DEF ClientNext, Thread, Program

LEMMA CountsInvariant == ClientSpec => []FInv
BY ClientCountsHold, CountsInductive, PTL DEF ClientSpec

(* Whatever file, header and buffer: what tinyplay and tinycap count is    *)
(* what the stream moved; tinyplay, when nothing comes between, plays all  *)
(* that the file has and its header says; and tinycap's header tells the   *)
(* frames in its file (play_sample, capture_sample).                       *)
THEOREM CountsAreTotalsCorrect == ClientSpec => []CountsAreTotals
<1>1. FInv => CountsAreTotals
  BY DEF FInv, Tally, Played, CountsAreTotals
<1> QED BY <1>1, CountsInvariant, PTL

(* Under every client too, xruns are counted once (pcm_generic_transfer),  *)
(* also when queries come between the calls.                               *)
THEOREM ClientXrunsCorrect == ClientSpec => []XrunsCountedOnce
<1>1. FInv => XrunsCountedOnce
  BY DEF FInv, Quiet, CountedToTheEnd, Counted, XrunsCountedOnce
<1> QED BY <1>1, CountsInvariant, PTL

------------------------------------------------------------------------------
(* How far the counters of a program go                                    *)

(* What a query reads was avail once.                                      *)
Asks == query.avail <= MaxAvail /\ query.tstamp <= MaxAvail

Pending == IF at = "transfer" THEN asked ELSE 0

(* tinyplay moves no frame that it did not read from the file; tinycap     *)
(* calls again only while it has less than it wants, for a buffer.         *)
Portions ==
  /\ length <= MaxFile /\ remaining <= Unlimited /\ asked <= period_size
  /\ moved \in Nat /\ closing \in BOOLEAN /\ disturbed \in BOOLEAN
  /\ at = "transfer" /\ pc = "idle" => ret <= asked /\ committed <= asked
  /\ at = "any" => file = 0 /\ counted = 0 /\ moved = 0
  /\ IsPlay => /\ counted + file + Pending <= length
               /\ moved + file + Pending <= length
  /\ IsCapture =>
       /\ remaining = MaxFile /\ file <= counted /\ asked <= BufferSize
       /\ counted <= MaxFile + BufferSize /\ moved <= MaxFile + BufferSize
       /\ at = "read" /\ ~closing => counted <= MaxFile
       /\ at = "transfer" =>
            /\ counted <= MaxFile
            /\ moved + committed <= MaxFile + BufferSize
            /\ pc \in Settled \cup Moving => moved <= MaxFile

SInv == FInv /\ TInv /\ Asks /\ Portions

LEMMA PortionsHold == ClientInit => SInv
<1> SUFFICES ASSUME ClientInit PROVE SInv
  OBVIOUS
<1>1. FInv /\ Init /\ QueryInit
  BY ClientCountsHold DEF ClientInit, QueryInit
<1>2. TInv
  BY <1>1, BoundsHold
<1>3. mode \in Modes /\ MaxAvail \in Nat /\ MaxFile \in Nat /\ BufferSize \in Nat
      /\ Unlimited \in Nat /\ MaxFile <= Unlimited
      /\ period_size \in Nat /\ (IsPlay => ~IsCapture)
  BY <1>1, MaxAvailBounds, UnlimitedBounds, ClientAssumption, SizeAssumption,
     ClientModes DEF Init, FInv, CInv
<1>4. Asks
  BY <1>1, <1>3 DEF QueryInit, NoQuery, Asks
<1>5. /\ at \in {"read", "any"} /\ length = file /\ file \in 0 .. MaxFile
      /\ asked = 0 /\ counted = 0 /\ moved = 0
      /\ closing = FALSE /\ disturbed = FALSE
      /\ ~IsPlay => file = 0
      /\ at = "any" => ~IsPlay
      /\ IsCapture => remaining = MaxFile
  BY <1>3 DEF ClientInit
<1>6. remaining <= Unlimited
  <2>1. Max({file - 1, 0}) <= MaxFile
    <3> DEFINE less == file - 1
    <3>1. less \in Int /\ less <= MaxFile
      BY <1>3, <1>5
    <3> HIDE DEF less
    <3>2. Max({less, 0}) = IF less >= 0 THEN less ELSE 0
      BY <3>1, MinMaxOfTwo
    <3>3. Max({less, 0}) <= MaxFile
      BY <1>3, <3>1, <3>2
    <3> QED BY <3>3 DEF less
  <2>2. Max({file - 1, 0}) \in Int
    BY <1>5, MaxWithZero
  <2>3. remaining \in {Max({file - 1, 0}), file, MaxFile, Unlimited, 0}
    BY DEF ClientInit
  <2> HIDE DEF Unlimited
  <2> QED BY <1>3, <1>5, <2>1, <2>2, <2>3
<1>7. Portions
  <2>1. Pending = 0
    BY <1>5 DEF Pending
  <2>2. closing \in BOOLEAN /\ disturbed \in BOOLEAN
    BY <1>5
  <2>3. /\ length <= MaxFile /\ asked <= period_size /\ moved \in Nat
        /\ counted + file + Pending <= length
        /\ moved + file + Pending <= length
    BY <1>3, <1>5, <2>1
  <2>4. IsCapture =>
          /\ remaining = MaxFile /\ file <= counted /\ asked <= BufferSize
          /\ counted <= MaxFile + BufferSize /\ moved <= MaxFile + BufferSize
          /\ counted <= MaxFile
    BY <1>3, <1>5
  <2>5. at # "transfer" /\ (at = "any" => file = 0 /\ counted = 0 /\ moved = 0)
    BY <1>5
  <2> HIDE DEF Unlimited, Pending, IsPlay, IsCapture, period_size
  <2> QED BY <1>6, <2>2, <2>3, <2>4, <2>5 DEF Portions
<1> QED BY <1>1, <1>2, <1>4, <1>7 DEF SInv

------------------------------------------------------------------------------
(* Queries keep the bounds                                                 *)

LEMMA SeenLevel == TInv => SeenAvail <= MaxAvail
BY DEF TInv, Levels, SeenAvail

LEMMA AskingBounds ==
  ASSUME SInv, Query
  PROVE  Asks'
<1>1. query \in [of : Function,
                 at : {"none", "update", "avail", "tstamp", "sync", "state",
                       "hw_ptr", "done"},
                 avail : Nat, tstamp : Nat, checking : BOOLEAN]
  BY DEF SInv, FInv, CInv, QInv, QueryType
<1>2. /\ query.avail <= MaxAvail /\ query.tstamp <= MaxAvail
      /\ SeenAvail <= MaxAvail /\ Fetch(TRUE).avail <= MaxAvail
      /\ MaxAvail \in Nat
  BY SeenLevel, FetchedLevel, MaxAvailBounds
     DEF SInv, Asks, TInv, FInv, CInv, IInv, Typed
<1>3. /\ \/ query'.avail = query.avail \/ query'.avail = 0
         \/ query'.avail = SeenAvail \/ query'.avail = Fetch(TRUE).avail
      /\ \/ query'.tstamp = query.tstamp \/ query'.tstamp = 0
         \/ query'.tstamp = SeenAvail
  <2>1. NoQuery.avail = 0 /\ NoQuery.tstamp = 0
    BY DEF NoQuery
  <2> HIDE DEF SeenAvail, NoQuery
  <2>2. CASE AvailUpdate
    BY <1>1, <2>2 DEF AvailUpdate, Step
  <2>3. CASE AvailRead
    BY <1>1, <2>3 DEF AvailRead
  <2>4. CASE AvailStamp
    BY <1>1, <2>4 DEF AvailStamp
  <2>5. CASE PointerSync \/ PointerState
    <3>1. query' = NoQuery \/ Step("state") \/ Step("tstamp")
      BY <2>5 DEF PointerSync, PointerState
    <3> QED BY <1>1, <2>1, <3>1 DEF Step
  <2>6. CASE PointerStamp
    BY <1>1, <2>1, <2>6 DEF PointerStamp
  <2>7. CASE PointerRead
    BY <1>1, <2>7 DEF PointerRead
  <2>8. CASE Answer
    BY <2>1, <2>8 DEF Answer
  <2> QED BY <2>2, <2>3, <2>4, <2>5, <2>6, <2>7, <2>8 DEF Query
<1>4. 0 <= MaxAvail
  BY ONLY <1>2
<1>5. query'.avail <= MaxAvail /\ query'.tstamp <= MaxAvail
  BY ONLY <1>2, <1>3, <1>4
<1> QED BY <1>5 DEF Asks

(* Nothing a program counts changes.                                       *)
LEMMA PortionsKept ==
  ASSUME SInv, UNCHANGED <<mode, pc, ret, committed>>,
         UNCHANGED <<at, length, file, remaining, asked, counted, moved>>,
         closing' \in BOOLEAN, closing => closing', disturbed' \in BOOLEAN
  PROVE  Portions'
<1> HIDE DEF Unlimited
<1>1. UNCHANGED <<IsPlay, IsCapture, period_size, Pending, Unlimited>>
  BY DEF IsPlay, IsCapture, period_size, Pending, Unlimited
<1> QED BY <1>1 DEF SInv, Portions

LEMMA QueryBounds == SInv /\ QueryStep => SInv'
<1> SUFFICES ASSUME SInv, QueryStep PROVE SInv'
  OBVIOUS
<1>1. FInv' /\ Asks'
  BY QueryCounts, AskingBounds DEF SInv, QueryStep
<1>2. /\ UNCHANGED <<mode, kernelVars, callVars, uncounted>>
      /\ seen' = seen \/ \E hwsync \in BOOLEAN : seen' = Fetch(hwsync)
      /\ UNCHANGED programVars
  BY QueryReads DEF QueryStep, SInv, FInv, CInv
<1>3. TInv'
  <2>1. seen'.avail <= MaxAvail
    BY <1>2, FetchedLevel DEF SInv, TInv, FInv, CInv, Levels
  <2> QED
    BY <1>2, <2>1 DEF SInv, TInv, Levels, Shares, Within, Marks, kernelVars,
                      callVars
<1>4. Portions'
  BY <1>2, PortionsKept DEF callVars, programVars, SInv, Portions
<1> QED BY <1>1, <1>3, <1>4 DEF SInv

LEMMA AnyClientBounds == SInv /\ AnyClient => SInv'
<1> SUFFICES ASSUME SInv, AnyClient PROVE SInv'
  OBVIOUS
<1>1. /\ FInv' /\ at = "any" /\ UNCHANGED programVars
      /\ IInv /\ Apart /\ TInv /\ Asks
  BY AnyClientCounts DEF SInv, AnyClient, FInv, CInv
<1>2. CASE Client /\ UNCHANGED query
  <2>1. TInv'
    BY <1>1, <1>2, ClientBounds
  <2>2. Asks'
    BY <1>1, <1>2 DEF Asks
  <2>3. Portions'
    <3>1. mode' = mode /\ ~IsPlay /\ ~IsCapture
      BY <1>1, <1>2 DEF Client, SInv, FInv, Programs
    <3>2. ~IsPlay' /\ ~IsCapture' /\ period_size' = period_size /\ Unlimited' = Unlimited
      BY <3>1 DEF IsPlay, IsCapture, period_size, Unlimited
    <3> QED BY <1>1, <3>2 DEF SInv, Portions, programVars
  <2> QED BY <1>1, <2>1, <2>2, <2>3 DEF SInv
<1>3. CASE pcm_get_htimestamp \/ pcm_mmap_get_hw_ptr
  <2>1. /\ UNCHANGED vars
        /\ \/ query' = [NoQuery EXCEPT !.of = "pcm_get_htimestamp", !.at = "update"]
           \/ query' = [NoQuery EXCEPT !.of = "pcm_mmap_get_hw_ptr", !.at = "sync"]
    BY <1>3 DEF pcm_get_htimestamp, pcm_mmap_get_hw_ptr, Ask
  <2>2. TInv'
    BY <1>1, <2>1, BoundsInductive
  <2>3. query'.avail = 0 /\ query'.tstamp = 0 /\ MaxAvail \in Nat
    BY <1>1, <2>1, MaxAvailBounds DEF NoQuery, IInv, Typed
  <2>4. Asks'
    BY <2>3 DEF Asks
  <2>5. Portions'
    BY <1>1, <2>1, PortionsKept DEF vars, programVars, SInv, Portions
  <2> QED BY <1>1, <2>2, <2>4, <2>5 DEF SInv
<1> QED BY <1>2, <1>3 DEF AnyClient

------------------------------------------------------------------------------
(* The calls keep the bounds                                               *)

(* A call returns no more than was asked for, moves frames only where it   *)
(* copies, and gets there only on a device that is plugged in.             *)
LEMMA LibraryReturns ==
  ASSUME IInv, Apart, TInv, Library
  PROVE  /\ committed' <= request
         /\ pc' = "idle" => ret' <= request
         /\ committed' = committed \/ pc \in Moving
         /\ pc' \in Settled \cup Moving =>
              pc \in Settled \cup Moving \/ state # "DISCONNECTED"
<1>1. /\ pc # "idle" /\ (pc' # "idle" => request' = request)
      /\ request \in Nat /\ committed <= request
      /\ call.user_offset <= request /\ -1 \in Int
  BY LibraryKeeps DEF IInv, Typed, TInv, Within
<1>2. TInv'
  BY LibraryBounds
<1>3. committed' = committed \/ pc \in Moving
  BY DEF Library, EntryState, EntryPrepare, Finish, Restart, StartState,
         StartIoctl, MmapEntry, Loop, Wait, PollError, Areas, Copy,
         Threshold, RwEntry, RwCopy, RwEnd, Moving
<1>4. pc' = "idle" =>
        /\ committed' = committed
        /\ ret' = -1 \/ ret' = call.user_offset
  <2>1. CASE EntryPrepare \/ Finish \/ Restart
    BY <2>1 DEF EntryPrepare, Finish, Restart, Return, Goto
  <2>2. CASE ~(EntryPrepare \/ Finish \/ Restart)
    BY <1>1, <2>2
       DEF Library, EntryState, StartState, StartIoctl, MmapEntry, Loop, Wait,
           PollError, Areas, Copy, Threshold, RwEntry, RwCopy, RwEnd, Goto, Fail
  <2> QED BY <2>1, <2>2
<1>5. pc' # "idle" => committed' <= request
  BY <1>1, <1>2 DEF TInv, Within
<1>6. pc' = "idle" => ret' <= request
  <2>1. -1 <= request
    BY <1>1
  <2> QED BY <1>1, <1>4, <2>1
<1>7. pc' \in Settled \cup Moving =>
        pc \in Settled \cup Moving \/ state # "DISCONNECTED"
  <2>1. CASE EntryState \/ EntryPrepare \/ Finish \/ Restart
    BY <2>1 DEF EntryState, EntryPrepare, Finish, Restart, Return, Goto,
                Settled, Moving
  <2>2. CASE MmapEntry \/ RwEntry
    <3>1. state = "DISCONNECTED" =>
            StateError(state) # "none" /\ SyncError(TRUE) # "none"
      BY Unplugged DEF SyncError
    <3> QED
      BY <2>2, <3>1 DEF MmapEntry, RwEntry, Fail, Goto, Settled, Moving
  <2>3. CASE ~(EntryState \/ EntryPrepare \/ Finish \/ Restart
                 \/ MmapEntry \/ RwEntry)
    BY <2>3 DEF Library, StartState, StartIoctl, Loop, Wait, PollError, Areas,
                Copy, Threshold, RwCopy, RwEnd, Settled, Moving
  <2> QED BY <2>1, <2>2, <2>3
<1> QED BY <1>1, <1>3, <1>4, <1>5, <1>6, <1>7

LEMMA LibraryPortions ==
  ASSUME SInv, Library, UNCHANGED mode,
         UNCHANGED <<at, length, file, remaining, asked, counted, moved, closing>>,
         disturbed' \in BOOLEAN
  PROVE  Portions'
<1>1. /\ IInv /\ Apart /\ TInv /\ Programs /\ Tally /\ Portions
      /\ MaxFile \in Nat /\ BufferSize \in Nat
  BY ClientAssumption, SizeAssumption DEF SInv, FInv, CInv
<1>2. UNCHANGED <<IsPlay, IsCapture, period_size, Pending, Unlimited>>
  BY DEF IsPlay, IsCapture, period_size, Pending, Unlimited
<1> HIDE DEF IsPlay, IsCapture, period_size, Pending, Unlimited
<1>3. /\ committed' <= request
      /\ pc' = "idle" => ret' <= request
      /\ committed' = committed \/ pc \in Moving
      /\ pc' \in Settled \cup Moving =>
           pc \in Settled \cup Moving \/ state # "DISCONNECTED"
      /\ pc # "idle"
  BY <1>1, LibraryReturns, LibraryKeeps
<1>4. at = "transfer" => request = asked
  BY <1>1, <1>3 DEF Programs
<1>5. /\ committed' \in Nat /\ moved \in Nat /\ asked \in Nat /\ counted \in Nat
  BY <1>1, Inductive DEF Next, IInv, Typed, Portions, Tally
<1>6. IsCapture /\ at = "transfer" =>
        /\ moved + committed' <= MaxFile + BufferSize
        /\ pc' \in Settled \cup Moving => moved <= MaxFile
  <2> SUFFICES ASSUME IsCapture, at = "transfer"
               PROVE  /\ moved + committed' <= MaxFile + BufferSize
                      /\ pc' \in Settled \cup Moving => moved <= MaxFile
    OBVIOUS
  <2>1. /\ asked <= BufferSize /\ counted <= MaxFile
        /\ moved + committed <= MaxFile + BufferSize
        /\ pc \in Settled \cup Moving => moved <= MaxFile
    BY <1>1 DEF Portions
  <2>2. state # "DISCONNECTED" => moved <= MaxFile
    BY <1>1, <2>1 DEF Tally
  <2>3. moved <= MaxFile => moved + committed' <= MaxFile + BufferSize
    <3>1. committed' <= asked
      BY <1>3, <1>4
    <3>2. MaxFile \in Nat /\ BufferSize \in Nat /\ asked <= BufferSize
      BY <1>1, <2>1
    <3>3. \A a, b, c, d, e \in Nat : a <= b /\ c <= d /\ d <= e => a + c <= b + e
      OBVIOUS
    <3> QED BY ONLY <1>5, <3>1, <3>2, <3>3
  <2> QED BY <1>3, <2>1, <2>2, <2>3
<1> QED BY <1>1, <1>2, <1>3, <1>4, <1>6 DEF Portions

LEMMA BelowBounds ==
  SInv /\ (BelowLibrary \/ BelowHardware \/ BelowEnvironment) => SInv'
<1> SUFFICES ASSUME SInv, BelowLibrary \/ BelowHardware \/ BelowEnvironment
             PROVE  SInv'
  OBVIOUS
<1>1. /\ Library \/ Hardware \/ Environment
      /\ UNCHANGED <<query, at, length, file, remaining, asked, counted,
                     closing, moved>>
      /\ disturbed' \in BOOLEAN
  <2>1. /\ Library \/ Hardware \/ Environment
        /\ UNCHANGED <<query, at, length, file, remaining, asked, counted,
                       closing, moved>>
    BY DEF BelowLibrary, BelowHardware, BelowEnvironment, Below
  <2>2. disturbed' \in BOOLEAN
    BY DEF BelowLibrary, BelowHardware, BelowEnvironment, Below
  <2> QED BY <2>1, <2>2
<1>2. FInv' /\ mode' = mode
  BY <1>1, BelowCounts DEF SInv, Library, Hardware, Environment
<1>3. TInv'
  BY <1>1, LibraryBounds, HardwareBounds, EnvironmentBounds
     DEF SInv, FInv, CInv
<1>4. Asks'
  BY <1>1 DEF SInv, Asks
<1>5. Portions'
  <2>1. CASE Library
    BY <1>1, <1>2, <2>1, LibraryPortions
  <2>2. CASE WaitInterrupted
    <3>1. /\ pc = "wait" /\ pc' = "finish" /\ UNCHANGED <<ret, committed>>
      BY <2>2 DEF WaitInterrupted, Fail, Goto
    <3>2. UNCHANGED <<IsPlay, IsCapture, period_size, Pending, Unlimited>>
      BY <1>1, <1>2 DEF IsPlay, IsCapture, period_size, Pending, Unlimited
    <3> HIDE DEF IsPlay, IsCapture, period_size, Pending, Unlimited
    <3> QED BY <1>1, <1>2, <3>1, <3>2 DEF SInv, Portions, Settled, Moving
  <2>3. CASE Hardware \/ (Environment /\ ~WaitInterrupted)
    <3>1. UNCHANGED callVars
      BY <2>3 DEF Hardware, Advance, Environment, OtherStop, OtherStart,
                  Suspend, Disconnect
    <3>2. closing' \in BOOLEAN
      BY <1>1 DEF SInv, Portions
    <3> QED BY <1>1, <1>2, <3>1, <3>2, PortionsKept DEF callVars
  <2> QED BY <1>1, <2>1, <2>2, <2>3
<1> QED BY <1>2, <1>3, <1>4, <1>5 DEF SInv

------------------------------------------------------------------------------
(* The programs keep the bounds                                            *)

LEMMA AboveBounds == SInv /\ UNCHANGED queryVars => TInv' /\ Asks'
<1> SUFFICES ASSUME SInv, UNCHANGED queryVars PROVE TInv' /\ Asks'
  OBVIOUS
<1>1. UNCHANGED vars /\ UNCHANGED query
  BY DEF queryVars
<1>2. TInv'
  BY <1>1, BoundsInductive DEF SInv, FInv, CInv
<1>3. Asks'
  BY <1>1 DEF SInv, Asks
<1> QED BY <1>2, <1>3

LEMMA TransferBounds ==
  ASSUME SInv, NEW n \in Nat, n >= 1, n <= period_size, Transfers(n)
  PROVE  TInv' /\ Asks' /\ mode' = mode /\ pc' = "entry" /\ committed' = 0
<1>1. Call(n) /\ UNCHANGED <<mode, query>>
  BY DEF Transfers
<1>2. TInv'
  BY <1>1, CallBounds DEF SInv, FInv, CInv, period_size
<1>3. Asks'
  BY <1>1 DEF SInv, Asks
<1> QED BY <1>1, <1>2, <1>3 DEF Call, Goto

LEMMA SameProgram ==
  ASSUME mode' = mode
  PROVE  UNCHANGED <<IsPlay, IsCapture, period_size, Unlimited>>
BY DEF IsPlay, IsCapture, period_size, Unlimited

LEMMA PlayReadBounds == SInv /\ Program /\ PlayRead => SInv'
<1> SUFFICES ASSUME SInv, Program, PlayRead PROVE SInv'
  OBVIOUS
<1> DEFINE num_read == Min({remaining, period_size, file})
<1>1. /\ FInv' /\ IsPlay /\ at = "read" /\ ~IsCapture
      /\ period_size \in Nat
      /\ remaining \in Nat /\ file \in Nat /\ length \in Nat /\ counted \in Nat
      /\ moved \in Nat /\ Portions
  BY PlayReadCounts, ClientModes DEF SInv, FInv, CInv, PlayRead, Tally, Portions
<1>2. num_read \in {remaining, period_size, file}
      /\ num_read <= period_size /\ num_read <= file
  <2>1. remaining \in Int /\ period_size \in Int /\ file \in Int
    BY <1>1
  <2> QED BY ONLY <2>1, MinOfThree
<1>3. /\ asked' = num_read /\ file' = file - num_read
      /\ UNCHANGED <<length, remaining, counted, closing, moved, disturbed>>
      /\ IF num_read > 0
         THEN Transfers(num_read) /\ at' = "transfer"
         ELSE at' = "wait" /\ UNCHANGED queryVars
  BY DEF Program, PlayRead
<1> HIDE DEF num_read
<1>4. num_read \in Nat
  BY <1>1, <1>2
<1>5. /\ TInv' /\ Asks' /\ mode' = mode
      /\ at' = "transfer" => pc' = "entry"
      /\ at' \in {"transfer", "wait"}
  <2>1. CASE num_read > 0
    BY <1>2, <1>3, <1>4, <2>1, TransferBounds
  <2>2. CASE ~(num_read > 0)
    BY <1>3, <2>2, AboveBounds DEF queryVars, vars
  <2> QED BY <2>1, <2>2
<1>6. UNCHANGED <<IsPlay, IsCapture, period_size, Unlimited>>
  BY <1>5, SameProgram
<1>7. /\ counted' + file' + Pending' <= length'
      /\ moved' + file' + Pending' <= length'
  <2>1. counted + file <= length /\ moved + file <= length
    BY <1>1 DEF Portions, Pending
  <2>2. Pending' = IF at' = "transfer" THEN num_read ELSE 0
    BY <1>3 DEF Pending
  <2>3. /\ file' + Pending' <= file
        /\ file' + Pending' \in Int
    BY <1>1, <1>3, <1>4, <2>2
  <2> HIDE DEF Pending
  <2>4. file' \in Int /\ Pending' \in Int
    BY <1>1, <1>3, <1>4, <2>2
  <2> QED BY <1>1, <1>3, <2>1, <2>3, <2>4
<1>8. Portions'
  <2> HIDE DEF IsPlay, IsCapture, period_size, Pending, Unlimited
  <2> QED BY <1>1, <1>2, <1>3, <1>5, <1>6, <1>7 DEF Portions
<1> QED BY <1>1, <1>5, <1>8 DEF SInv

LEMMA PlayWrittenBounds == SInv /\ Program /\ PlayWritten => SInv'
<1> SUFFICES ASSUME SInv, Program, PlayWritten PROVE SInv'
  OBVIOUS
<1>1. /\ FInv' /\ IsPlay /\ ~IsCapture /\ at = "transfer" /\ pc = "idle"
      /\ ret \in Int /\ committed \in Nat
      /\ counted \in Nat /\ moved \in Nat /\ remaining \in Nat
      /\ asked \in Nat /\ file \in Nat /\ length \in Nat
      /\ ret <= asked /\ committed <= asked /\ Portions
  BY PlayWrittenCounts, ClientModes
     DEF SInv, FInv, CInv, IInv, Typed, PlayWritten, Back, Tally, Portions
<1>2. /\ moved' = moved + committed /\ at' \in {"read", "wait"}
      /\ UNCHANGED <<queryVars, length, file, asked, closing>>
  BY DEF Program, PlayWritten
<1>3. TInv' /\ Asks' /\ mode' = mode
  BY <1>2, AboveBounds DEF queryVars, vars
<1>4. UNCHANGED <<IsPlay, IsCapture, period_size, Unlimited>>
  BY <1>3, SameProgram
<1>5. /\ remaining' = remaining \/ remaining' = remaining - asked
      /\ counted' = counted \/ (counted' = counted + ret /\ ret >= 0)
  BY <1>1 DEF PlayWritten
<1>6. disturbed' \in BOOLEAN
  BY <1>1 DEF PlayWritten, Portions
<1>7. remaining' <= Unlimited
  <2>1. remaining <= Unlimited /\ Unlimited \in Nat
    BY <1>1, UnlimitedBounds DEF Portions, SInv, FInv, CInv, IInv, Typed
  <2> HIDE DEF Unlimited
  <2> QED BY <1>1, <1>5, <2>1
<1>8. /\ counted' + file' + Pending' <= length'
      /\ moved' + file' + Pending' <= length' /\ moved' \in Nat
  <2>1. counted + file + asked <= length /\ moved + file + asked <= length
    BY <1>1 DEF Portions, Pending
  <2>2. Pending' = 0
    BY <1>2 DEF Pending
  <2>3. counted' + file <= length /\ moved' + file <= length
    BY <1>1, <1>2, <1>5, <2>1
  <2>4. counted' \in Int /\ moved' \in Nat
    BY <1>1, <1>2, <1>5
  <2>5. file' = file /\ length' = length /\ file \in Int /\ length \in Int
    BY <1>1, <1>2
  <2>6. \A a, b, c \in Int : a + b <= c => a + b + 0 <= c
    OBVIOUS
  <2>7. moved' \in Int
    BY <2>4
  <2>8. /\ counted' + file' + 0 <= length'
        /\ moved' + file' + 0 <= length'
    BY ONLY <2>3, <2>4, <2>5, <2>6, <2>7
  <2> QED BY ONLY <2>2, <2>4, <2>8
<1>9. Portions'
  <2> HIDE DEF IsPlay, IsCapture, period_size, Pending, Unlimited
  <2> QED BY <1>1, <1>2, <1>4, <1>6, <1>7, <1>8 DEF Portions
<1> QED BY <1>1, <1>3, <1>9 DEF SInv

(* Waiting and closing count nothing.                                      *)
LEMMA PlayWaitBounds == SInv /\ Program /\ PlayWait => SInv'
<1> SUFFICES ASSUME SInv, Program, PlayWait PROVE SInv'
  OBVIOUS
<1>1. /\ FInv' /\ at = "wait" /\ at' = "close" /\ Portions
      /\ UNCHANGED <<queryVars, length, file, remaining, asked, counted,
                     closing, moved, disturbed>>
  BY PlayWaitCounts DEF SInv, Program, PlayWait
<1>2. TInv' /\ Asks' /\ mode' = mode
  BY <1>1, AboveBounds DEF queryVars, vars
<1>3. UNCHANGED <<IsPlay, IsCapture, period_size, Unlimited>>
  BY <1>2, SameProgram
<1>4. Pending' = Pending
  BY <1>1 DEF Pending
<1>5. Portions'
  <2> HIDE DEF IsPlay, IsCapture, period_size, Pending, Unlimited
  <2> QED BY <1>1, <1>3, <1>4 DEF Portions
<1> QED BY <1>1, <1>2, <1>5 DEF SInv

LEMMA CloseBounds == SInv /\ Program /\ Close => SInv'
<1> SUFFICES ASSUME SInv, Program, Close PROVE SInv'
  OBVIOUS
<1>1. /\ FInv' /\ at = "close" /\ at' = "ended" /\ Portions
      /\ state' = IF state = "DISCONNECTED" THEN state ELSE "SETUP"
      /\ UNCHANGED <<mode, avail, slot, seen, callVars, uncounted, query, length,
                     file, remaining, asked, counted, closing, moved, disturbed>>
  BY CloseCounts DEF SInv, Program, Close
<1>2. TInv'
  <2>1. avail \in Nat /\ IInv /\ Levels
    BY DEF SInv, FInv, CInv, IInv, Typed, TInv
  <2>2. Levels'
    BY <1>1, <2>1, LevelsKept DEF Levels, callVars
  <2>3. Shares' /\ Within' /\ Marks'
    BY <1>1 DEF SInv, TInv, Shares, Within, Marks, callVars
  <2> QED BY <2>2, <2>3 DEF TInv
<1>3. Asks'
  BY <1>1 DEF SInv, Asks
<1>4. UNCHANGED <<IsPlay, IsCapture, period_size, Unlimited>>
  BY <1>1, SameProgram
<1>5. Pending' = Pending
  BY <1>1 DEF Pending
<1>6. Portions'
  <2> HIDE DEF IsPlay, IsCapture, period_size, Pending, Unlimited
  <2> QED BY <1>1, <1>4, <1>5 DEF Portions
<1> QED BY <1>1, <1>2, <1>3, <1>6 DEF SInv

LEMMA CaptureReadBounds == SInv /\ Program /\ CaptureRead => SInv'
<1> SUFFICES ASSUME SInv, Program, CaptureRead PROVE SInv'
  OBVIOUS
<1>1. /\ FInv' /\ IsCapture /\ ~IsPlay /\ at = "read" /\ Portions
      /\ BufferSize \in Nat /\ BufferSize >= 1 /\ BufferSize <= period_size
      /\ moved \in Nat /\ moved <= MaxFile + BufferSize /\ MaxFile \in Nat
      /\ UNCHANGED <<length, file, remaining, counted, closing, moved, disturbed>>
  BY CaptureReadCounts, ClientModes, SizeAssumption, ClientAssumption
     DEF SInv, FInv, CInv, CaptureRead, Program, Portions, IsCapture, period_size
<1>2. \/ at' = "close" /\ UNCHANGED <<queryVars, asked>>
      \/ /\ ~closing /\ Transfers(BufferSize)
         /\ asked' = BufferSize /\ at' = "transfer"
  BY DEF CaptureRead
<1>3. /\ TInv' /\ Asks' /\ mode' = mode
      /\ at' = "transfer" => pc' = "entry" /\ committed' = 0
  <2>1. CASE at' = "close" /\ UNCHANGED queryVars
    BY <2>1, AboveBounds DEF queryVars, vars
  <2>2. CASE Transfers(BufferSize)
    BY <1>1, <2>2, TransferBounds
  <2> QED BY <1>2, <2>1, <2>2
<1>4. UNCHANGED <<IsPlay, IsCapture, period_size, Unlimited>>
  BY <1>3, SameProgram
<1>5. moved' + 0 <= MaxFile + BufferSize
  BY <1>1
<1>6. Portions'
  <2> HIDE DEF IsPlay, IsCapture, period_size, Pending, Unlimited
  <2>1. at' = "transfer" => counted <= MaxFile /\ pc' \notin Settled \cup Moving
    BY <1>1, <1>2, <1>3 DEF Portions, Settled, Moving
  <2>2. asked' <= period_size' /\ asked' <= BufferSize
    BY <1>1, <1>2, <1>4 DEF Portions
  <2> QED BY <1>1, <1>2, <1>3, <1>4, <1>5, <2>1, <2>2 DEF Portions
<1> QED BY <1>1, <1>3, <1>6 DEF SInv

LEMMA CaptureWrittenBounds == SInv /\ Program /\ CaptureWritten => SInv'
<1> SUFFICES ASSUME SInv, Program, CaptureWritten PROVE SInv'
  OBVIOUS
<1>1. /\ FInv' /\ IsCapture /\ ~IsPlay /\ at = "transfer" /\ pc = "idle"
      /\ ret \in Int /\ committed \in Nat /\ moved \in Nat
      /\ counted \in Nat /\ file \in Nat /\ Portions
      /\ MaxFile \in Nat /\ BufferSize \in Nat /\ asked \in Nat
      /\ closing \in BOOLEAN /\ disturbed \in BOOLEAN
  BY CaptureWrittenCounts, ClientModes, ClientAssumption, SizeAssumption
     DEF SInv, FInv, CInv, IInv, Typed, CaptureWritten, Back, Tally, Portions
<1>2. /\ moved' = moved + committed /\ at' \in {"read", "close", "undefined"}
      /\ UNCHANGED <<queryVars, length, remaining, asked>>
  BY DEF Program, CaptureWritten
<1>3. TInv' /\ Asks' /\ mode' = mode
  BY <1>2, AboveBounds DEF queryVars, vars
<1>4. UNCHANGED <<IsPlay, IsCapture, period_size, Unlimited>>
  BY <1>3, SameProgram
<1>5. /\ remaining = MaxFile /\ file <= counted /\ counted <= MaxFile
      /\ ret <= asked /\ asked <= BufferSize
      /\ moved' \in Nat /\ moved' <= MaxFile + BufferSize
  BY <1>1, <1>2 DEF Portions
<1>6. /\ file' <= counted' /\ counted' <= MaxFile + BufferSize
      /\ closing' \in BOOLEAN /\ disturbed' \in BOOLEAN
      /\ at' = "read" /\ ~closing' => counted' <= MaxFile
  <2>1. CASE ret < 0
    <3>1. at' = "undefined" /\ UNCHANGED <<file, counted, closing, disturbed>>
      BY <2>1 DEF CaptureWritten
    <3>2. counted <= MaxFile + BufferSize
      BY <1>1, <1>5
    <3> QED BY <1>1, <1>5, <3>1, <3>2
  <2>2. CASE ret >= 0
    <3>1. /\ counted' = counted + ret
          /\ closing' = (closing \/ counted' >= remaining)
          /\ \/ file' = file + ret /\ disturbed' = disturbed
             \/ file' \in file .. file + ret - 1 /\ disturbed' = TRUE
      BY <1>1, <2>2 DEF CaptureWritten, Total
    <3>2. file' <= counted'
      BY <1>1, <1>5, <2>2, <3>1
    <3>3. counted' <= MaxFile + BufferSize /\ counted' \in Nat
      <4>1. ret <= BufferSize
        BY <1>1, <1>5
      <4> QED BY <1>1, <1>5, <2>2, <3>1, <4>1
    <3>4. closing' \in BOOLEAN /\ disturbed' \in BOOLEAN
      BY <1>1, <3>1
    <3>5. ~closing' => counted' <= MaxFile
      <4>1. ~closing' => ~(counted' >= MaxFile)
        BY <1>5, <3>1
      <4> QED BY <1>1, <3>3, <4>1
    <3> QED BY <3>2, <3>3, <3>4, <3>5
  <2> QED BY <1>1, <2>1, <2>2
<1>7. Portions'
  <2> HIDE DEF IsPlay, IsCapture, period_size, Pending, Unlimited
  <2> QED BY <1>1, <1>2, <1>4, <1>5, <1>6 DEF Portions
<1> QED BY <1>1, <1>3, <1>7 DEF SInv

LEMMA InterruptBounds ==
  SInv /\ (Interrupt \/ Ended \/ UNCHANGED clientVars) => SInv'
<1> SUFFICES ASSUME SInv, Interrupt \/ Ended \/ UNCHANGED clientVars
             PROVE  SInv'
  OBVIOUS
<1>1. FInv'
  BY InterruptCounts DEF SInv
<1>2. /\ UNCHANGED <<queryVars, at, length, file, remaining, asked, counted, moved>>
      /\ disturbed' = disturbed /\ (closing' = closing \/ closing' = TRUE)
  BY DEF Interrupt, stream_close, sigint_handler, Ended, clientVars,
         programVars
<1>3. TInv' /\ Asks'
  BY <1>2, AboveBounds
<1>4. closing' \in BOOLEAN /\ disturbed' \in BOOLEAN /\ (closing => closing')
  BY <1>2 DEF SInv, Portions
<1>5. Portions'
  BY <1>2, <1>4, PortionsKept DEF queryVars, vars
<1> QED BY <1>1, <1>3, <1>5 DEF SInv

LEMMA SizesInductive == SInv /\ [ClientNext]_clientVars => SInv'
BY BelowBounds, QueryBounds, AnyClientBounds, PlayReadBounds,
   PlayWrittenBounds, PlayWaitBounds, CaptureReadBounds, CaptureWrittenBounds,
   CloseBounds, InterruptBounds
   DEF ClientNext, Thread, Program

LEMMA PortionsAreTypes == SInv => ClientTypeOK
<1> SUFFICES ASSUME SInv PROVE ClientTypeOK
  OBVIOUS
<1>1. /\ TypeOK /\ MaxAvail \in Nat /\ MaxFile \in Nat /\ BufferSize \in Nat
      /\ Unlimited \in Nat /\ period_size \in Nat
      /\ Programs /\ Tally /\ Portions
  BY BoundsAreTypes, MaxAvailBounds, UnlimitedBounds, ClientAssumption,
     SizeAssumption, ClientModes
     DEF SInv, FInv, CInv, IInv, Typed
<1>2. query \in [of : Function,
                 at : {"none", "update", "avail", "tstamp", "sync", "state",
                       "hw_ptr", "done"},
                 avail : 0 .. MaxAvail, tstamp : 0 .. MaxAvail,
                 checking : BOOLEAN]
  <2>1. /\ query \in [of : Function,
                      at : {"none", "update", "avail", "tstamp", "sync",
                            "state", "hw_ptr", "done"},
                      avail : Nat, tstamp : Nat, checking : BOOLEAN]
        /\ query.avail <= MaxAvail /\ query.tstamp <= MaxAvail
    BY DEF SInv, FInv, CInv, QInv, QueryType, Asks
  <2>2. query.avail \in 0 .. MaxAvail /\ query.tstamp \in 0 .. MaxAvail
    <3> HIDE DEF MaxAvail
    <3> QED BY ONLY <1>1, <2>1
  <2> HIDE DEF MaxAvail
  <2> QED BY <2>1, <2>2
<1>3. /\ length \in 0 .. MaxFile /\ remaining \in 0 .. Unlimited
      /\ asked \in 0 .. period_size
  <2>1. /\ length \in Nat /\ remaining \in Nat /\ asked \in Nat
        /\ length <= MaxFile /\ remaining <= Unlimited /\ asked <= period_size
    BY <1>1 DEF Tally, Portions
  <2> HIDE DEF Unlimited, period_size
  <2> QED BY <1>1, <2>1
<1>4. /\ counted <= MaxFile + BufferSize /\ file <= MaxFile + BufferSize
      /\ moved <= MaxFile + BufferSize
      /\ counted \in Nat /\ file \in Nat /\ moved \in Nat
  <2>1. counted \in Nat /\ file \in Nat /\ moved \in Nat /\ asked \in Nat
        /\ length \in Nat /\ length <= MaxFile
    BY <1>1 DEF Tally, Portions
  <2>2. CASE IsPlay
    <3>1. Pending \in Nat
      BY <2>1 DEF Pending
    <3>2. counted + file + Pending <= length /\ moved + file + Pending <= length
      BY <1>1, <2>2 DEF Portions
    <3> HIDE DEF Pending
    <3> QED BY <1>1, <2>1, <3>1, <3>2
  <2>3. CASE IsCapture
    BY <1>1, <2>1, <2>3 DEF Portions
  <2>4. CASE ~IsPlay /\ ~IsCapture
    BY <1>1, <2>1, <2>4 DEF Programs, Portions
  <2> QED BY <2>2, <2>3, <2>4
<1>5. /\ file \in 0 .. MaxFile + BufferSize
      /\ counted \in 0 .. MaxFile + BufferSize
      /\ moved \in 0 .. MaxFile + BufferSize
  BY <1>1, <1>4
<1>6. /\ at \in {"any", "read", "transfer", "wait", "close", "ended", "undefined"}
      /\ closing \in BOOLEAN /\ disturbed \in BOOLEAN
  BY <1>1 DEF Programs, Portions
<1> QED BY <1>1, <1>2, <1>3, <1>5, <1>6 DEF ClientTypeOK, QueryTypeOK

(* No counter of tinyplay, tinycap or a query leaves its range: a program  *)
(* moves no frame its file does not have, and a capture stops less than a  *)
(* buffer after it has what it wants (play_sample, capture_sample).        *)
THEOREM ClientTypeCorrect == ClientSpec => []ClientTypeOK
<1>1. SInv => ClientTypeOK
  BY PortionsAreTypes
<1>2. ClientSpec => []SInv
  BY PortionsHold, SizesInductive, PTL DEF ClientSpec
<1> QED BY <1>1, <1>2, PTL
==============================================================================
