------------------------- MODULE PcmTransfer_proofs --------------------------
(***************************************************************************)
(* The frames a call reports are the frames it moved, and what the library *)
(* knows of a stream is never more than there is, for every stream, buffer *)
(* and request, and whatever else happens to the stream.                   *)
(***************************************************************************)
EXTENDS PcmTransferProperties, FiniteSetTheorems, TLAPS

------------------------------------------------------------------------------
(* Frames                                                                  *)

LEMMA MinOfThree ==
  ASSUME NEW a \in Int, NEW b \in Int, NEW c \in Int
  PROVE  /\ Min({a, b, c}) \in {a, b, c}
         /\ Min({a, b, c}) <= a
         /\ Min({a, b, c}) <= b
         /\ Min({a, b, c}) <= c
<1>1. \E m \in {a, b, c} : \A y \in {a, b, c} : m <= y
  OBVIOUS
<1> QED BY <1>1 DEF Min

LEMMA MinOfFour ==
  ASSUME NEW a \in Int, NEW b \in Int, NEW c \in Int, NEW d \in Int
  PROVE  /\ Min({a, b, c, d}) \in {a, b, c, d}
         /\ Min({a, b, c, d}) <= a
         /\ Min({a, b, c, d}) <= b
         /\ Min({a, b, c, d}) <= c
         /\ Min({a, b, c, d}) <= d
<1>1. \E m \in {a, b, c, d} : \A y \in {a, b, c, d} : m <= y
  OBVIOUS
<1> QED BY <1>1 DEF Min

LEMMA MaxWithZero ==
  /\ Max({-1, 0}) = 0 /\ Max({0, 0}) = 0
  /\ \A n \in Nat : Max({n, 0}) = n
  /\ \A n \in Int : Max({n, 0}) \in Nat
<1>1. ASSUME NEW n \in Int PROVE Max({n, 0}) = IF n >= 0 THEN n ELSE 0
  <2>1. \E m \in {n, 0} : \A y \in {n, 0} : m >= y
    OBVIOUS
  <2> QED BY <2>1 DEF Max
<1>2. Max({-1, 0}) = 0
  BY <1>1
<1>3. \A n \in Nat : Max({n, 0}) = n
  BY <1>1
<1>4. \A n \in Int : Max({n, 0}) \in Nat
  BY <1>1
<1> QED BY <1>2, <1>3, <1>4

(* A finite set of numbers has a greatest one: the one with the fewest     *)
(* above it.                                                               *)
LEMMA MaxOfFinite ==
  ASSUME NEW S, S \subseteq Int, IsFiniteSet(S), S # {}
  PROVE  Max(S) \in S /\ \A x \in S : x <= Max(S)
<1> DEFINE Above(x) == {y \in S : x < y}
           Aboves == {Above(x) : x \in S}
           Smaller == StrictSubsetOrdering(S)
<1>1. IsWellFoundedOn(Smaller, SUBSET S)
  BY FS_StrictSubsetOrderingWellFounded, FS_FiniteSubsetsOfFinite
<1>2. Aboves \subseteq SUBSET S /\ Aboves # {}
  OBVIOUS
<1>3. \E a \in Aboves : \A b \in Aboves : ~(<<b, a>> \in Smaller)
  <2> HIDE DEF Aboves, Smaller
  <2> QED BY <1>1, <1>2, WFMin
<1>4. PICK x \in S : \A y \in S : ~(<<Above(y), Above(x)>> \in Smaller)
  BY <1>3
<1>5. \A y \in S : y <= x
  <2> SUFFICES ASSUME NEW y \in S, x < y PROVE FALSE
    OBVIOUS
  <2>1. Above(y) \subseteq Above(x) /\ y \in Above(x) /\ y \notin Above(y)
    <3>1. x \in Int /\ y \in Int /\ \A z \in S : z \in Int
      OBVIOUS
    <3>2. /\ \A z \in S : y < z => x < z
          /\ ~(y < y)
      BY <3>1
    <3>3. Above(y) \subseteq Above(x)
      BY <3>2
    <3>4. y \in Above(x)
      OBVIOUS
    <3>5. y \notin Above(y)
      BY <3>2
    <3> QED BY ONLY <3>3, <3>4, <3>5
  <2>2. <<Above(y), Above(x)>> \in (SUBSET S) \X (SUBSET S)
    OBVIOUS
  <2> HIDE DEF Above
  <2>3. <<Above(y), Above(x)>> \in Smaller
    BY <2>1, <2>2 DEF StrictSubsetOrdering
  <2> QED BY <1>4, <2>3
<1>6. \E m \in S : \A y \in S : m >= y
  BY <1>5
<1> QED BY <1>6 DEF Max

(* So there is more room in the counter than any stream fills.             *)
LEMMA MaxAvailBounds ==
  ASSUME mode \in Modes
  PROVE  /\ MaxAvail \in Nat
         /\ BufferSize + MaxAdvance <= MaxAvail
         /\ mode.stop_threshold + MaxAdvance <= MaxAvail
         /\ mode.stop_threshold \in Nat
<1> DEFINE Thresholds == {m.stop_threshold : m \in Modes}
           threshold == [m \in Modes |-> m.stop_threshold]
           S == {BufferSize} \cup Thresholds
<1>1. \A m \in Modes : m.stop_threshold \in Nat
  BY ModeAssumption DEF Mode
<1>2. threshold \in Surjection(Modes, Thresholds)
  BY DEF Surjection
<1>3. IsFiniteSet(Thresholds)
  BY <1>2, FS_Surjection, ModeAssumption
<1>4. IsFiniteSet(S)
  <2> HIDE DEF Thresholds
  <2> QED BY <1>3, FS_Singleton, FS_Union
<1>5. S \subseteq Nat /\ BufferSize \in S /\ mode.stop_threshold \in S
  BY <1>1, SizeAssumption
<1>6. MaxAvail = Max(S) + MaxAdvance
  BY DEF MaxAvail
<1> HIDE DEF S
<1>7. Max(S) \in S /\ \A x \in S : x <= Max(S)
  <2>1. S \subseteq Int /\ S # {}
    BY <1>5
  <2> QED BY <1>4, <2>1, MaxOfFinite
<1>8. Max(S) \in Nat /\ BufferSize <= Max(S) /\ mode.stop_threshold <= Max(S)
  BY <1>5, <1>7
<1>9. BufferSize \in Nat /\ MaxAdvance \in Nat /\ mode.stop_threshold \in Nat
  BY <1>1, SizeAssumption
<1> QED BY <1>6, <1>8, <1>9

(* No call brings an unplugged device back.                                *)
LEMMA Unplugged ==
  /\ StateError("DISCONNECTED") # "none"
  /\ PrepareError("DISCONNECTED") # "none"
BY DEF StateError, PrepareError

------------------------------------------------------------------------------
(* The invariant                                                           *)

Slots == 0 .. BufferSize - 1
View == [state : State, avail : Nat]
CallType == [frames : Nat, user_offset : Nat, avail : Nat, state : State,
             count : Nat]

Typed ==
  /\ mode \in Modes
  /\ state \in State /\ avail \in Nat /\ slot \in Slots
  /\ seen \in View
  /\ call \in CallType
  /\ request \in Nat /\ committed \in Nat /\ ret \in Int

Fresh == {"idle", "entry", "prepare", "again"}
Unmoved == {"entry", "prepare", "again", "restart"}
Settled == {"start", "start_ioctl", "loop", "wait", "poll_error", "threshold"}
Moving == {"areas", "copy", "rw_copy"}

(* What the locals of the call say it moved: the count of a round is added *)
(* to user_offset before anything can fail, but for the failure of an      *)
(* unplugged device.                                                       *)
Accounts ==
  /\ pc \in {"idle", "finish"} \cup Unmoved \cup Settled \cup Moving
  /\ pc \in Fresh => call.user_offset = 0
  /\ pc \in Settled => call.count = 0
  /\ pc \in Moving => call.count <= call.frames
  /\ state # "DISCONNECTED" =>
       /\ pc \in Unmoved => committed = 0
       /\ pc \in Settled \cup Moving =>
            committed = call.user_offset + call.count
       /\ pc = "finish" => committed = call.user_offset
       /\ pc = "idle" => committed = Max({ret, 0})

IInv == Typed /\ Accounts /\ SeenNeverAhead

LEMMA ModeTypes ==
  ASSUME mode \in Modes
  PROVE  mode.max_request \in Nat
BY ModeAssumption DEF Mode

LEMMA InitHolds == Init => IInv
BY MaxWithZero, SizeAssumption
   DEF Init, IInv, Typed, Accounts, SeenNeverAhead, Slots, View, CallType,
       NoCall, State, Fresh, Unmoved, Settled, Moving

(* What the library fetches is never more than there is.                   *)
LEMMA Fetched ==
  ASSUME Typed, SeenNeverAhead, NEW hwsync \in BOOLEAN
  PROVE  /\ Fetch(hwsync) \in View
         /\ IsMmap => Fetch(hwsync).avail <= avail
BY DEF Typed, SeenNeverAhead, Fetch, View

(* PREPARE empties the ring, and the library sees it.                      *)
LEMMA Prepared ==
  ASSUME Typed, pcm_prepare, UNCHANGED mode
  PROVE  /\ state # "DISCONNECTED" /\ state' = "PREPARED"
         /\ state' \in State /\ avail' \in Nat /\ slot' \in Slots
         /\ seen' \in View
         /\ SeenNeverAhead'
<1>1. state # "DISCONNECTED"
  BY Unplugged DEF pcm_prepare
<1>2. avail' \in Nat /\ slot' \in Slots /\ state' = "PREPARED"
  BY SizeAssumption DEF pcm_prepare, KernelPrepare, Slots
<1>3. seen' = [state |-> state', avail |-> avail']
  BY DEF pcm_prepare
<1> QED
  BY <1>1, <1>2, <1>3 DEF SeenNeverAhead, View, State

------------------------------------------------------------------------------
(* The steps of a call                                                     *)

(* A step that moves no frame and only looks at the stream.                *)
Looking ==
  /\ UNCHANGED <<mode, avail, slot, committed>>
  /\ state' \in State /\ (state = "DISCONNECTED" => state' = state)
  /\ seen' = seen \/ \E hwsync \in BOOLEAN : seen' = Fetch(hwsync)

LEMMA LookingHolds ==
  ASSUME IInv, Looking, call' \in CallType, request' \in Nat, ret' \in Int
  PROVE  Typed' /\ SeenNeverAhead'
<1>1. seen' \in View /\ (mode.sync_ptr /\ IsMmap => seen'.avail <= avail)
  BY Fetched DEF IInv, Typed, Looking, SeenNeverAhead
<1> QED
  BY <1>1 DEF IInv, Typed, Looking, SeenNeverAhead, IsMmap

NoCallTyped == NoCall \in CallType /\ NoCall.user_offset = 0

LEMMA NoCallType == NoCallTyped
BY DEF NoCallTyped, NoCall, CallType, State

LEMMA EntryStateStep == IInv /\ EntryState /\ UNCHANGED mode => IInv'
<1> SUFFICES ASSUME IInv, EntryState, UNCHANGED mode PROVE IInv'
  OBVIOUS
<1>1. Typed' /\ SeenNeverAhead'
  BY LookingHolds DEF EntryState, Looking, Sync, kernelVars, IInv, Typed
<1>2. Accounts'
  BY DEF EntryState, kernelVars, Goto, IInv, Accounts,
         Fresh, Unmoved, Settled, Moving
<1> QED BY <1>1, <1>2 DEF IInv

LEMMA EntryPrepareStep == IInv /\ EntryPrepare /\ UNCHANGED mode => IInv'
<1> SUFFICES ASSUME IInv, EntryPrepare, UNCHANGED mode PROVE IInv'
  OBVIOUS
<1>1. CASE pcm_prepare /\ Goto("again") /\ UNCHANGED <<request, call, errno, ret>>
  <2>1. Typed' /\ SeenNeverAhead'
    BY <1>1, Prepared DEF IInv, Typed, EntryPrepare
  <2>2. Accounts'
    BY <1>1, Prepared DEF IInv, Accounts, EntryPrepare, Goto,
           Fresh, Unmoved, Settled, Moving
  <2> QED BY <2>1, <2>2 DEF IInv
<1>2. CASE Return(-1) /\ UNCHANGED <<kernelVars, seen>>
  <2>1. Typed' /\ SeenNeverAhead'
    BY <1>2, LookingHolds, NoCallType
       DEF EntryPrepare, Looking, Return, kernelVars, IInv, Typed, NoCallTyped
  <2>2. Accounts'
    <3>1. /\ pc = "prepare" /\ pc' = "idle"
          /\ ret' = -1 /\ call' = NoCall
          /\ UNCHANGED <<state, committed>>
      BY <1>2 DEF EntryPrepare, Return, Goto, kernelVars
    <3> QED
      BY <3>1, MaxWithZero, NoCallType
         DEF IInv, Accounts, NoCallTyped, Fresh, Unmoved, Settled, Moving
  <2> QED BY <2>1, <2>2 DEF IInv
<1> QED BY <1>1, <1>2 DEF EntryPrepare

LEMMA RestartStep == IInv /\ Restart /\ UNCHANGED mode => IInv'
<1> SUFFICES ASSUME IInv, Restart, UNCHANGED mode PROVE IInv'
  OBVIOUS
<1>1. CASE pcm_prepare /\ call' = NoCall /\ Goto("again")
             /\ UNCHANGED <<request, errno, ret>>
  <2>1. Typed' /\ SeenNeverAhead'
    BY <1>1, Prepared, NoCallType DEF IInv, Typed, Restart, NoCallTyped
  <2>2. Accounts'
    BY <1>1, Prepared, NoCallType
       DEF IInv, Accounts, Restart, Goto, NoCallTyped,
           Fresh, Unmoved, Settled, Moving
  <2> QED BY <2>1, <2>2 DEF IInv
<1>2. CASE Return(-1) /\ UNCHANGED <<kernelVars, seen>>
  <2>1. Typed' /\ SeenNeverAhead'
    BY <1>2, LookingHolds, NoCallType
       DEF Restart, Looking, Return, kernelVars, IInv, Typed, NoCallTyped
  <2>2. Accounts'
    <3>1. /\ pc = "restart" /\ pc' = "idle"
          /\ ret' = -1 /\ call' = NoCall
          /\ UNCHANGED <<state, committed>>
      BY <1>2 DEF Restart, Return, Goto, kernelVars
    <3> QED
      BY <3>1, MaxWithZero, NoCallType
         DEF IInv, Accounts, NoCallTyped, Fresh, Unmoved, Settled, Moving
  <2> QED BY <2>1, <2>2 DEF IInv
<1> QED BY <1>1, <1>2 DEF Restart

LEMMA FinishStep == IInv /\ Finish /\ UNCHANGED mode => IInv'
<1> SUFFICES ASSUME IInv, Finish, UNCHANGED mode PROVE IInv'
  OBVIOUS
<1>1. call.user_offset \in Nat /\ call \in CallType
  BY DEF IInv, Typed, CallType
<1>2. \/ call.user_offset > 0 /\ Return(call.user_offset)
      \/ call.user_offset = 0 /\ Return(-1)
      \/ call.user_offset = 0 /\ Goto("restart") /\ UNCHANGED <<request, call, ret>>
  BY <1>1 DEF Finish
<1>3. Typed' /\ SeenNeverAhead'
  BY <1>1, <1>2, LookingHolds, NoCallType
     DEF Finish, Looking, Return, kernelVars, IInv, Typed, NoCallTyped
<1>4. Accounts'
  BY <1>1, <1>2, MaxWithZero, NoCallType
     DEF NoCallTyped, Finish, Return, Goto, kernelVars, IInv, Accounts,
         Fresh, Unmoved, Settled, Moving
<1> QED BY <1>3, <1>4 DEF IInv

LEMMA StartStep ==
  IInv /\ (StartState \/ StartIoctl) /\ UNCHANGED mode => IInv'
<1> SUFFICES ASSUME IInv, StartState \/ StartIoctl, UNCHANGED mode PROVE IInv'
  OBVIOUS
<1>1. CASE StartState /\ pcm_prepare
  <2>1. pc = "start" /\ pc' \in {"start_ioctl", "finish"}
        /\ UNCHANGED <<request, call, ret, committed>>
    BY <1>1 DEF StartState, Goto, Fail
  <2>2. Typed' /\ SeenNeverAhead'
    BY <1>1, <2>1, Prepared DEF IInv, Typed
  <2>3. Accounts'
    BY <1>1, <2>1, Prepared
       DEF IInv, Typed, CallType, Accounts, Fresh, Unmoved, Settled, Moving
  <2> QED BY <2>2, <2>3 DEF IInv
<1>2. CASE StartState /\ ~pcm_prepare
  <2>1. /\ pc = "start" /\ pc' \in {"start_ioctl", "finish"}
        /\ Sync(FALSE)
        /\ UNCHANGED <<kernelVars, request, call, ret, committed>>
    BY <1>2 DEF StartState, Goto, Fail
  <2>2. Typed' /\ SeenNeverAhead'
    BY <2>1, LookingHolds DEF Looking, Sync, kernelVars, IInv, Typed
  <2>3. Accounts'
    BY <2>1 DEF kernelVars, IInv, Typed, CallType, Accounts,
                Fresh, Unmoved, Settled, Moving
  <2> QED BY <2>2, <2>3 DEF IInv
<1>3. CASE StartIoctl
  <2>1. /\ pc = "start_ioctl" /\ pc' \in {"loop", "finish"}
        /\ state' = state \/ (state = "PREPARED" /\ state' = "RUNNING")
        /\ UNCHANGED <<avail, slot, seen, request, call, ret, committed>>
    BY <1>3 DEF StartIoctl, Goto, Fail
  <2>2. Typed' /\ SeenNeverAhead'
    BY <2>1, LookingHolds DEF Looking, IInv, Typed, State
  <2>3. Accounts'
    BY <2>1 DEF IInv, Typed, CallType, Accounts, Fresh, Unmoved, Settled, Moving
  <2> QED BY <2>2, <2>3 DEF IInv
<1> QED BY <1>1, <1>2, <1>3

LEMMA MmapEntryStep == IInv /\ MmapEntry /\ UNCHANGED mode => IInv'
<1> SUFFICES ASSUME IInv, MmapEntry, UNCHANGED mode PROVE IInv'
  OBVIOUS
<1> DEFINE fresh == [NoCall EXCEPT !.frames = request, !.state = state]
<1>1. fresh \in CallType /\ fresh.count = 0 /\ fresh.user_offset = 0
  BY DEF NoCall, CallType, IInv, Typed, State
<1> HIDE DEF fresh
<1>2. \/ pc' = "finish" /\ call' = call
      \/ pc' \in {"start", "loop"} /\ call' = fresh
  BY DEF MmapEntry, Fail, Goto, fresh
<1>3. CASE pc' \in {"start", "loop"} /\ call' = fresh
  <2>1. Typed' /\ SeenNeverAhead'
    BY <1>1, <1>3, LookingHolds
       DEF MmapEntry, Looking, Sync, kernelVars, IInv, Typed
  <2>2. Accounts'
    BY <1>1, <1>3 DEF MmapEntry, kernelVars, IInv, Accounts,
                      Fresh, Unmoved, Settled, Moving
  <2> QED BY <2>1, <2>2 DEF IInv
<1>4. CASE pc' = "finish" /\ call' = call
  <2>1. Typed' /\ SeenNeverAhead'
    BY <1>4, LookingHolds
       DEF MmapEntry, Looking, Sync, kernelVars, IInv, Typed
  <2>2. Accounts'
    BY <1>4 DEF MmapEntry, kernelVars, IInv, Accounts,
                Fresh, Unmoved, Settled, Moving
  <2> QED BY <2>1, <2>2 DEF IInv
<1> QED BY <1>2, <1>3, <1>4

LEMMA LoopStep == IInv /\ Loop /\ UNCHANGED mode => IInv'
<1> SUFFICES ASSUME IInv, Loop, UNCHANGED mode PROVE IInv'
  OBVIOUS
<1> DEFINE read == [call EXCEPT !.avail = Fetch(TRUE).avail]
<1>1. Fetch(TRUE) \in View
  BY Fetched DEF IInv
<1>2. /\ read \in CallType
      /\ read.count = call.count /\ read.user_offset = call.user_offset
      /\ read.frames = call.frames
  BY <1>1 DEF CallType, View, IInv, Typed
<1> HIDE DEF read
<1>3. /\ pc = "loop"
      /\ call' \in {call, read}
      /\ pc' \in {"finish", "areas", "wait"}
      /\ seen' = seen \/ Sync(TRUE)
      /\ UNCHANGED <<kernelVars, request, ret, committed>>
  BY DEF Loop, Goto, Fail, read
<1>4. Typed' /\ SeenNeverAhead'
  BY <1>2, <1>3, LookingHolds DEF Looking, Sync, kernelVars, IInv, Typed
<1>5. Accounts'
  <2>1. /\ call'.count = call.count /\ call'.user_offset = call.user_offset
        /\ call'.frames = call.frames
    BY <1>2, <1>3
  <2> QED
    BY <1>3, <2>1 DEF kernelVars, IInv, Typed, CallType, Accounts,
                      Fresh, Unmoved, Settled, Moving
<1> QED BY <1>4, <1>5 DEF IInv

LEMMA WaitStep ==
  ASSUME IInv, Wait \/ WaitInterrupted \/ PollError \/ Threshold, UNCHANGED mode
  PROVE  IInv'
<1>1. /\ pc \in {"wait", "poll_error", "threshold"}
      /\ pc' \in {"areas", "poll_error", "finish", "start", "loop"}
      /\ seen' = seen \/ Sync(FALSE)
      /\ UNCHANGED <<kernelVars, request, call, ret, committed>>
  BY DEF Wait, WaitInterrupted, PollError, Threshold, Goto, Fail
<1>2. Typed' /\ SeenNeverAhead'
  BY <1>1, LookingHolds DEF Looking, Sync, kernelVars, IInv, Typed
<1>3. Accounts'
  BY <1>1 DEF kernelVars, IInv, Typed, CallType, Accounts,
              Fresh, Unmoved, Settled, Moving
<1> QED BY <1>2, <1>3 DEF IInv

LEMMA AreasStep == IInv /\ Areas /\ UNCHANGED mode => IInv'
<1> SUFFICES ASSUME IInv, Areas, UNCHANGED mode PROVE IInv'
  OBVIOUS
<1>1. pc = "areas" /\ call \in CallType /\ call.count <= call.frames
  BY DEF Areas, IInv, Typed, Accounts, Moving
<1>2. /\ Transferred \in CallType /\ Transferred.count = 0
      /\ Transferred.user_offset = call.user_offset + call.count
  <2>1. /\ call.frames \in Nat /\ call.user_offset \in Nat
        /\ call.count \in Nat /\ call.avail \in Nat /\ call.state \in State
    BY <1>1 DEF CallType
  <2>2. call.frames - call.count \in Nat /\ call.user_offset + call.count \in Nat
    BY <1>1, <2>1
  <2> DEFINE moved == call.user_offset + call.count
             left == call.frames - call.count
             one == [call EXCEPT !.user_offset = moved]
             two == [one EXCEPT !.frames = left]
             three == [two EXCEPT !.count = 0]
  <2>3. Transferred = three
    BY DEF Transferred
  <2> HIDE DEF moved, left
  <2>4. one \in CallType /\ one.user_offset = moved
    BY <1>1, <2>2 DEF CallType, moved
  <2> HIDE DEF one
  <2>5. two \in CallType /\ two.user_offset = moved
    BY <2>2, <2>4 DEF CallType, left
  <2> HIDE DEF two
  <2>6. three \in CallType /\ three.user_offset = moved /\ three.count = 0
    BY <2>5 DEF CallType
  <2> QED BY <2>3, <2>6 DEF moved
<1>3. \/ pc' = "copy" /\ call' = call /\ call.count < call.frames
      \/ pc' = "threshold" /\ call' = Transferred
  BY DEF Areas, Goto
<1>4. Typed' /\ SeenNeverAhead'
  BY <1>1, <1>2, <1>3, LookingHolds
     DEF Areas, Looking, Sync, kernelVars, IInv, Typed
<1>5. Accounts'
  <2>1. CASE pc' = "copy" /\ call' = call
    BY <1>1, <2>1 DEF Areas, kernelVars, IInv, Accounts,
                      Fresh, Unmoved, Settled, Moving
  <2>2. CASE pc' = "threshold" /\ call' = Transferred
    <3>1. call'.user_offset + call'.count = call.user_offset + call.count
      BY <1>1, <1>2, <2>2 DEF CallType
    <3> QED
      BY <1>1, <1>2, <2>2, <3>1
         DEF Areas, kernelVars, IInv, Accounts, Fresh, Unmoved, Settled, Moving
  <2> QED BY <1>3, <2>1, <2>2
<1> QED BY <1>4, <1>5 DEF IInv

(* What pcm_mmap_begin hands out is there, and no more than asked for.     *)
LEMMA CopyBounds ==
  ASSUME IInv, pc = "copy", IsMmap, NEW room \in Nat, room <= avail
  PROVE  /\ CopyFrames(room) \in Nat
         /\ CopyFrames(room) <= avail
         /\ CopyFrames(room) <= room
         /\ call.count + CopyFrames(room) <= call.frames
<1> DEFINE left == call.frames - call.count
           rest == BufferSize - slot
           n == Min({left, room, BufferSize, rest})
<1>1. left \in Nat /\ call.frames \in Nat /\ call.count \in Nat
  BY DEF IInv, Typed, CallType, Accounts, Moving
<1>2. rest \in Nat /\ BufferSize \in Nat /\ avail \in Nat
  BY SizeAssumption DEF IInv, Typed, Slots
<1>3. CopyFrames(room) = n
  BY DEF CopyFrames
<1> HIDE DEF rest
<1>4. /\ n \in {left, room, BufferSize, rest}
      /\ n <= left /\ n <= room
  <2> HIDE DEF left
  <2>1. left \in Int /\ room \in Int /\ BufferSize \in Int /\ rest \in Int
    BY <1>1, <1>2
  <2> QED BY ONLY <2>1, MinOfFour
<1>5. n \in Nat
  BY <1>1, <1>2, <1>4
<1> HIDE DEF n
<1> QED BY <1>1, <1>2, <1>3, <1>4, <1>5

(* A copy of n frames moves the count, the ring and the account by n.      *)
Moves(n) ==
  /\ avail' = avail - n
  /\ slot' = (slot + n) % BufferSize
  /\ call' = [call EXCEPT !.count = @ + n]
  /\ committed' = committed + n

LEMMA Moved ==
  ASSUME IInv, pc \in {"copy", "rw_copy"}, pc' \in {"areas", "rw_copy"},
         NEW n \in Nat, n <= avail, call.count + n <= call.frames, Moves(n),
         state' \in State, state = "DISCONNECTED" => state' = state,
         seen' \in View, mode.sync_ptr /\ IsMmap => seen'.avail <= avail',
         UNCHANGED <<mode, request, ret>>
  PROVE  IInv'
<1>1. call \in CallType /\ slot \in Nat /\ avail \in Nat /\ committed \in Nat
  BY SizeAssumption DEF IInv, Typed, Slots
<1>2. /\ call' \in CallType
      /\ call'.count = call.count + n
      /\ call'.user_offset = call.user_offset
      /\ call'.frames = call.frames
  BY <1>1 DEF Moves, CallType
<1>3. slot' \in Slots
  BY <1>1, SizeAssumption DEF Moves, Slots
<1>4. avail' \in Nat /\ committed' \in Nat
  BY <1>1 DEF Moves
<1>5. Typed' /\ SeenNeverAhead'
  BY <1>2, <1>3, <1>4 DEF IInv, Typed, SeenNeverAhead, IsMmap
<1>6. state # "DISCONNECTED" => committed' = call'.user_offset + call'.count
  <2>1. state # "DISCONNECTED" => committed = call.user_offset + call.count
    BY DEF IInv, Accounts, Moving
  <2> QED BY <1>1, <1>2, <2>1 DEF Moves, CallType
<1>7. Accounts'
  BY <1>2, <1>6 DEF Accounts, Fresh, Unmoved, Settled, Moving
<1> QED BY <1>5, <1>7 DEF IInv

LEMMA CopyStep == IInv /\ IsMmap /\ Copy /\ UNCHANGED mode => IInv'
<1> SUFFICES ASSUME IInv, IsMmap, Copy, UNCHANGED mode PROVE IInv'
  OBVIOUS
<1> DEFINE view == Fetch(TRUE)
           n == CopyFrames(view.avail)
<1>1. pc = "copy" /\ UNCHANGED <<state, request, ret>>
  BY DEF Copy
<1>2. view \in View /\ view.avail <= avail
  BY Fetched DEF IInv
<1>3. n \in Nat /\ n <= avail /\ n <= view.avail /\ call.count + n <= call.frames
  BY <1>1, <1>2, CopyBounds DEF View
<1>4. avail \in Nat /\ state \in State
  BY DEF IInv, Typed
<1>5. CASE SyncError(FALSE) = "none"
  <2>1. Moves(n) /\ pc' = "areas" /\ seen' = SeenAfterCommit(n)
    BY <1>5 DEF Copy, Moves, Goto
  <2> HIDE DEF view, n
  <2>3. avail - n \in Nat /\ avail' = avail - n
    BY <1>3, <1>4, <2>1 DEF Moves
  <2>2. seen' \in View /\ seen'.avail = avail'
    BY <1>4, <2>1, <2>3 DEF SeenAfterCommit, View
  <2> QED BY <1>1, <1>3, <1>4, <2>1, <2>2, <2>3, Moved
<1>6. CASE SyncError(FALSE) # "none"
  <2>1. /\ seen' = [view EXCEPT !.avail = @ - n] /\ pc' = "finish"
        /\ UNCHANGED <<avail, slot, call, committed>>
    BY <1>6 DEF Copy, Fail, Goto
  <2>2. seen' \in View /\ seen'.avail <= avail
    <3> HIDE DEF view, n
    <3> QED BY <1>2, <1>3, <1>4, <2>1 DEF View
  <2>3. Typed' /\ SeenNeverAhead'
    BY <1>1, <2>1, <2>2 DEF IInv, Typed, SeenNeverAhead
  <2>4. state = "DISCONNECTED"
    BY <1>6 DEF SyncError
  <2>5. Accounts'
    BY <1>1, <2>1, <2>4 DEF Accounts, Fresh, Unmoved, Settled, Moving
  <2> QED BY <2>3, <2>5 DEF IInv
<1> QED BY <1>5, <1>6

LEMMA RwEntryStep == IInv /\ RwEntry /\ UNCHANGED mode => IInv'
<1> SUFFICES ASSUME IInv, RwEntry, UNCHANGED mode PROVE IInv'
  OBVIOUS
<1> DEFINE fresh == [NoCall EXCEPT !.frames = request]
<1>1. fresh \in CallType /\ fresh.count = 0 /\ fresh.user_offset = 0
  BY DEF NoCall, CallType, IInv, Typed, State
<1> HIDE DEF fresh
<1>2. /\ pc = "again"
      /\ \/ pc' = "finish" /\ call' = call /\ state' = state
         \/ /\ pc' = "rw_copy" /\ call' = fresh
            /\ state # "DISCONNECTED" /\ state' \in {state, "RUNNING"}
      /\ UNCHANGED <<avail, slot, seen, request, ret, committed>>
  BY Unplugged DEF RwEntry, Fail, Goto, fresh
<1>3. Typed' /\ SeenNeverAhead'
  <2>1. call' \in CallType
    BY <1>1, <1>2 DEF IInv, Typed
  <2> QED
    BY <1>2, <2>1, LookingHolds DEF Looking, IInv, Typed, State
<1>4. Accounts'
  <2>1. call'.user_offset = 0 /\ (pc' = "rw_copy" => call'.count = 0)
    BY <1>1, <1>2 DEF IInv, Accounts, Fresh
  <2>2. call'.count <= call'.frames \/ pc' = "finish"
    BY <1>1, <1>2, <2>1 DEF CallType
  <2> QED
    BY <1>2, <2>1, <2>2 DEF IInv, Accounts, Fresh, Unmoved, Settled, Moving
<1> QED BY <1>3, <1>4 DEF IInv

LEMMA RwCopyStep == IInv /\ ~IsMmap /\ RwCopy /\ UNCHANGED mode => IInv'
<1> SUFFICES ASSUME IInv, ~IsMmap, RwCopy, UNCHANGED mode PROVE IInv'
  OBVIOUS
<1> DEFINE left == call.frames - call.count
           rest == BufferSize - slot
           n == Min({left, avail, rest})
<1>1. left \in Nat /\ call.frames \in Nat /\ call.count \in Nat
  BY DEF RwCopy, IInv, Typed, CallType, Accounts, Moving
<1>2. rest \in Nat /\ avail \in Nat
  BY SizeAssumption DEF IInv, Typed, Slots
<1>3. /\ pc = "rw_copy" /\ pc' = "rw_copy" /\ Moves(n)
      /\ state # "DISCONNECTED" /\ state' \in {state, "RUNNING"}
      /\ UNCHANGED <<seen, request, ret>>
  BY Unplugged DEF RwCopy, Moves
<1> HIDE DEF rest
<1>4. n \in {left, avail, rest} /\ n <= left /\ n <= avail
  <2> HIDE DEF left
  <2>1. left \in Int /\ avail \in Int /\ rest \in Int
    BY <1>1, <1>2
  <2> QED BY ONLY <2>1, MinOfThree
<1>5. n \in Nat
  BY <1>1, <1>2, <1>4
<1> HIDE DEF n
<1>6. call.count + n <= call.frames
  BY <1>1, <1>4, <1>5
<1>7. state' \in State /\ seen' \in View
  BY <1>3 DEF IInv, Typed, State
<1> QED BY <1>3, <1>4, <1>5, <1>6, <1>7, Moved

LEMMA RwEndStep ==
  IInv /\ call.user_offset = 0 /\ RwEnd /\ UNCHANGED mode => IInv'
<1> SUFFICES ASSUME IInv, call.user_offset = 0, RwEnd, UNCHANGED mode
    PROVE  IInv'
  OBVIOUS
<1>1. /\ pc = "rw_copy" /\ pc' = "finish"
      /\ UNCHANGED <<kernelVars, seen, request, ret, committed>>
  BY DEF RwEnd, Goto
<1>2. call' \in CallType /\ call'.user_offset = call.count
  BY DEF RwEnd, RwResult, IInv, Typed, CallType
<1>3. Typed' /\ SeenNeverAhead'
  BY <1>1, <1>2, LookingHolds DEF Looking, kernelVars, IInv, Typed
<1>4. Accounts'
  BY <1>1, <1>2 DEF kernelVars, IInv, Typed, CallType, Accounts,
                    Fresh, Unmoved, Settled, Moving
<1> QED BY <1>3, <1>4 DEF IInv

------------------------------------------------------------------------------
(* What happens around a call                                              *)

(* Whatever happens elsewhere adds to what there is to transfer, or leaves *)
(* it, and plugs no device back in.                                        *)
LEMMA Elsewhere ==
  ASSUME IInv, state' \in State, avail' \in Nat, avail <= avail',
         state = "DISCONNECTED" => state' = state,
         UNCHANGED <<mode, slot, seen, callVars>>
  PROVE  IInv'
<1>1. SeenNeverAhead'
  BY DEF IInv, Typed, View, SeenNeverAhead, IsMmap
<1>2. Typed'
  BY DEF IInv, Typed, callVars
<1>3. Accounts'
  BY DEF IInv, Accounts, callVars, Fresh, Unmoved, Settled, Moving
<1> QED BY <1>1, <1>2, <1>3 DEF IInv

LEMMA HardwareStep == IInv /\ Hardware => IInv'
<1> SUFFICES ASSUME IInv, UNCHANGED mode,
                    NEW n \in 1 .. MaxAdvance, Advance(n)
             PROVE  IInv'
  BY DEF Hardware
<1>1. state = "RUNNING" /\ state' \in State
  BY DEF Advance, IInv, Typed, State
<1>2. avail' \in Nat /\ avail <= avail' /\ UNCHANGED <<slot, seen, callVars>>
  BY SizeAssumption DEF Advance, IInv, Typed
<1> QED BY <1>1, <1>2, Elsewhere

LEMMA EnvironmentStep == IInv /\ Environment => IInv'
<1> SUFFICES ASSUME IInv, Environment PROVE IInv'
  OBVIOUS
<1>1. CASE WaitInterrupted
  BY <1>1, WaitStep DEF Environment
<1>2. CASE OtherStop \/ OtherStart \/ Suspend \/ Disconnect
  <2>1. /\ state' \in State
        /\ state = "DISCONNECTED" => state' = state
        /\ UNCHANGED <<mode, avail, slot, seen, callVars>>
    BY <1>2 DEF Environment, OtherStop, OtherStart, Suspend, Disconnect, State
  <2> QED BY <2>1, Elsewhere DEF IInv, Typed
<1> QED BY <1>1, <1>2 DEF Environment

LEMMA CallStep == \A n \in Nat : IInv /\ Call(n) /\ UNCHANGED mode => IInv'
<1> SUFFICES ASSUME NEW n \in Nat, IInv, Call(n), UNCHANGED mode PROVE IInv'
  OBVIOUS
<1>1. /\ pc = "idle" /\ pc' = "entry" /\ committed' = 0 /\ request' = n
      /\ UNCHANGED <<kernelVars, seen, call, ret>>
  BY DEF Call, Goto
<1>2. Typed' /\ SeenNeverAhead'
  BY <1>1 DEF kernelVars, IInv, Typed, SeenNeverAhead, IsMmap
<1>3. Accounts'
  BY <1>1 DEF IInv, Accounts, Fresh, Unmoved, Settled, Moving
<1> QED BY <1>2, <1>3 DEF IInv

LEMMA ClientStep == IInv /\ Client => IInv'
<1> SUFFICES ASSUME IInv, Client PROVE IInv'
  OBVIOUS
<1>1. ASSUME NEW n \in 1 .. mode.max_request, Call(n) PROVE IInv'
  <2>1. n \in Nat
    BY ModeTypes DEF IInv, Typed
  <2> QED BY <1>1, <2>1, CallStep DEF Client
<1>2. CASE ClientPrepare
  <2>1. pcm_prepare /\ UNCHANGED <<mode, callVars>>
    BY <1>2 DEF Client, ClientPrepare
  <2>2. Typed' /\ SeenNeverAhead'
    BY <2>1, Prepared DEF IInv, Typed, callVars
  <2>3. Accounts'
    BY <2>1, Prepared DEF IInv, Accounts, callVars,
                          Fresh, Unmoved, Settled, Moving
  <2> QED BY <2>2, <2>3 DEF IInv
<1> QED BY <1>1, <1>2 DEF Client

------------------------------------------------------------------------------
(* The two kinds of transfer keep apart: a step of pcm_mmap_transfer is    *)
(* never taken by a stream without PCM_MMAP.                               *)
Apart ==
  /\ pc \in Settled \cup {"areas", "copy"} => IsMmap
  /\ pc = "rw_copy" => ~IsMmap /\ call.user_offset = 0

LEMMA ApartHolds == Init => Apart
BY DEF Init, Apart, Settled

LEMMA ApartStep == IInv /\ Apart /\ [Next]_vars => Apart'
<1> SUFFICES ASSUME IInv, Apart, [Next]_vars PROVE Apart'
  OBVIOUS
<1>1. CASE Library
  <2>1. UNCHANGED mode
    BY <1>1 DEF Library
  <2>2. CASE EntryState \/ EntryPrepare \/ Finish \/ Restart
    BY <2>2 DEF EntryState, EntryPrepare, Finish, Restart, Goto, Return,
                Apart, Settled
  <2>3. CASE StartState \/ StartIoctl
    <3>1. pc \in Settled /\ pc' # "rw_copy"
      BY <2>3 DEF StartState, StartIoctl, Goto, Fail, Settled
    <3> QED BY <2>1, <3>1 DEF Apart, IsMmap
  <2>4. CASE MmapEntry \/ Loop \/ Wait \/ PollError \/ Areas \/ Copy \/ Threshold
    <3>1. IsMmap
      BY <2>4 DEF MmapEntry, Loop, Wait, PollError, Areas, Copy, Threshold,
                  Apart, Settled
    <3>2. pc' # "rw_copy"
      BY <2>4 DEF MmapEntry, Loop, Wait, PollError, Areas, Copy, Threshold,
                  Goto, Fail
    <3> QED BY <2>1, <3>1, <3>2 DEF Apart, IsMmap
  <2>5. CASE RwEntry
    <3>1. ~IsMmap /\ pc' \in {"finish", "rw_copy"}
      BY <2>5 DEF RwEntry, Fail, Goto
    <3>2. pc' = "rw_copy" => call'.user_offset = 0
      BY <2>5 DEF RwEntry, Fail, Goto, NoCall
    <3> QED BY <2>1, <3>1, <3>2 DEF Apart, IsMmap, Settled
  <2>6. CASE RwCopy
    BY <2>1, <2>6 DEF RwCopy, Apart, IsMmap, Settled, IInv, Typed, CallType
  <2>7. CASE RwEnd
    BY <2>7 DEF RwEnd, Goto, Apart, Settled
  <2> QED BY <1>1, <2>2, <2>3, <2>4, <2>5, <2>6, <2>7 DEF Library
<1>2. CASE WaitInterrupted \/ \E n \in 1 .. mode.max_request : Call(n)
  BY <1>2 DEF WaitInterrupted, Call, Fail, Goto, Apart, Settled
<1>3. CASE UNCHANGED <<mode, callVars>>
  BY <1>3 DEF callVars, Apart, IsMmap
<1>4. \/ Library
      \/ WaitInterrupted \/ \E n \in 1 .. mode.max_request : Call(n)
      \/ UNCHANGED <<mode, callVars>>
  BY DEF Next, Hardware, Advance, Client, ClientPrepare, Environment,
         OtherStop, OtherStart, Suspend, Disconnect, vars, callVars
<1> QED BY <1>1, <1>2, <1>3, <1>4

------------------------------------------------------------------------------
LEMMA Inductive == IInv /\ Apart /\ [Next]_vars => IInv'
<1> SUFFICES ASSUME IInv, Apart, [Next]_vars PROVE IInv'
  OBVIOUS
<1>1. CASE Library
  <2>1. CASE EntryState \/ EntryPrepare \/ Finish \/ Restart
    BY <1>1, <2>1, EntryStateStep, EntryPrepareStep, FinishStep, RestartStep
       DEF Library
  <2>2. CASE StartState \/ StartIoctl \/ MmapEntry \/ Loop
    BY <1>1, <2>2, StartStep, MmapEntryStep, LoopStep DEF Library
  <2>3. CASE Wait \/ PollError \/ Threshold
    BY <1>1, <2>3, WaitStep DEF Library
  <2>4. CASE Areas \/ Copy
    <3>1. Copy => IsMmap
      BY DEF Copy, Apart
    <3> QED BY <1>1, <2>4, <3>1, AreasStep, CopyStep DEF Library
  <2>5. CASE RwEntry \/ RwCopy \/ RwEnd
    <3>1. /\ RwCopy => ~IsMmap
          /\ RwEnd => call.user_offset = 0
      BY DEF RwCopy, RwEnd, Apart
    <3> QED BY <1>1, <2>5, <3>1, RwEntryStep, RwCopyStep, RwEndStep DEF Library
  <2> QED BY <1>1, <2>1, <2>2, <2>3, <2>4, <2>5 DEF Library
<1>2. CASE Hardware \/ Client \/ Environment
  BY <1>2, HardwareStep, ClientStep, EnvironmentStep
<1>3. CASE UNCHANGED vars
  <2>1. UNCHANGED <<mode, state, avail, slot, seen, callVars>>
    BY <1>3 DEF vars, callVars
  <2> QED BY <2>1, Elsewhere DEF IInv, Typed
<1> QED BY <1>1, <1>2, <1>3 DEF Next

LEMMA Invariant == Spec => [](IInv /\ Apart)
<1>1. Init => IInv /\ Apart
  BY InitHolds, ApartHolds
<1>2. IInv /\ Apart /\ [Next]_vars => IInv' /\ Apart'
  BY Inductive, ApartStep
<1> QED BY <1>1, <1>2, PTL DEF Spec

------------------------------------------------------------------------------
(* A stream that nobody but the library and the hardware touches           *)

(* What a call still has to move.                                          *)
Shares ==
  /\ pc # "idle" => request >= 1
  /\ pc \in Settled \cup {"areas", "copy"} =>
       call.frames + call.user_offset = request
  /\ pc \in {"wait", "poll_error", "areas", "copy"} => call.frames >= 1
  /\ pc = "rw_copy" => call.frames = request

(* Where the stream can be while the call is where it is.                  *)
Reachable ==
  /\ state \in {"SETUP", "PREPARED", "RUNNING", "XRUN"}
  /\ state = "SETUP" => pc \in {"idle", "entry", "prepare"}
  /\ pc = "prepare" => state = "SETUP"
  /\ pc \in {"poll_error", "restart"} => state = "XRUN"

(* A playback stream is started with a frame in it.                        *)
Room ==
  IsPlayback /\ state = "PREPARED" =>
    /\ avail <= BufferSize
    /\ pc \in {"areas", "copy"} => avail + call.count <= BufferSize
    /\ pc \in {"threshold", "start", "start_ioctl"} => avail < BufferSize

(* Only an xrun fails with EPIPE, and only an xrun stops a blocking call   *)
(* short of its request.                                                   *)
Outcome ==
  /\ pc = "start_ioctl" /\ state # "XRUN" => SeenState = state
  /\ pc = "finish" /\ call.user_offset = 0 =>
       errno # "ESTRPIPE" /\ (errno = "EPIPE" => state = "XRUN")
  /\ pc = "finish" /\ state # "XRUN" /\ ~IsNonblock =>
       call.user_offset = request

Calm == Reachable /\ Room /\ Outcome

(* pcm->xruns against the kernel's: at most one to count, none of a stream *)
(* that moves, and none counted again but with PCM_NORESTART.              *)
Counted ==
  /\ uncounted \in -2 .. 1
  /\ state \in {"SETUP", "PREPARED", "RUNNING"} => uncounted = 0
  /\ ~IsNoRestart => uncounted >= 0
  /\ pc = "restart" => uncounted = 0 /\ ~IsNoRestart
  /\ ~IsNoRestart /\ state = "XRUN" /\ pc # "restart" => uncounted = 1

LEMMA SharesHolds == Init => Shares
BY DEF Init, Shares, Settled

LEMMA CalmHolds == Init => Calm
BY SizeAssumption DEF Init, Calm, Reachable, Room, Outcome, NoCall

LEMMA CountedHolds == Init => Counted
BY DEF Init, Counted

(* What each step of the library does to the frames of a call.             *)
LEMMA FreshFields ==
  ASSUME IInv, NEW s \in State
  PROVE  LET fresh == [NoCall EXCEPT !.frames = request, !.state = s]
             rw == [NoCall EXCEPT !.frames = request]
         IN  /\ fresh.frames = request /\ fresh.user_offset = 0
             /\ fresh.count = 0
             /\ rw.frames = request /\ rw.user_offset = 0 /\ rw.count = 0
BY DEF NoCall

LEMMA TransferredFields ==
  ASSUME IInv, pc = "areas"
  PROVE  /\ Transferred.frames = call.frames - call.count
         /\ Transferred.user_offset = call.user_offset + call.count
         /\ Transferred.count = 0
BY DEF Transferred, IInv, Typed, CallType

LEMMA SharesStep == IInv /\ Apart /\ Shares /\ Library => Shares'
<1> SUFFICES ASSUME IInv, Apart, Shares, Library PROVE Shares'
  OBVIOUS
<1>1. CASE EntryState \/ EntryPrepare \/ Finish \/ Restart
  BY <1>1 DEF EntryState, EntryPrepare, Finish, Restart, Goto, Return,
              Shares, Settled
<1>2. CASE StartState \/ StartIoctl \/ Wait \/ PollError \/ Threshold
  <2>1. /\ pc \in Settled /\ pc' \in Settled \cup {"areas", "finish"}
        /\ pc' \in {"areas", "poll_error"} => pc = "wait"
        /\ pc' # "wait"
        /\ UNCHANGED <<call, request>>
    BY <1>2 DEF StartState, StartIoctl, Wait, PollError, Threshold, Goto,
                Fail, Settled
  <2> QED BY <2>1 DEF Shares, Settled
<1>3. CASE MmapEntry
  <2>1. \/ pc' = "finish"
        \/ /\ pc' \in {"start", "loop"}
           /\ call' = [NoCall EXCEPT !.frames = request, !.state = state]
    BY <1>3 DEF MmapEntry, Goto, Fail
  <2>2. pc = "again" /\ request' = request /\ request \in Nat
    BY <1>3 DEF MmapEntry, IInv, Typed
  <2>3. pc' # "finish" => call'.frames = request /\ call'.user_offset = 0
    BY <2>1, FreshFields DEF IInv, Typed
  <2> QED BY <2>1, <2>2, <2>3 DEF Shares, Settled
<1>4. CASE Loop
  <2>1. /\ pc = "loop" /\ pc' \in {"finish", "areas", "wait"}
        /\ pc' # "finish" => call.frames # 0
        /\ request' = request /\ call.frames \in Nat
        /\ call'.frames = call.frames
        /\ call'.user_offset = call.user_offset
    BY <1>4 DEF Loop, Goto, Fail, IInv, Typed, CallType
  <2> QED BY <2>1 DEF Shares, Settled
<1>5. CASE Areas
  <2>1. /\ pc = "areas" /\ request' = request
        /\ \/ pc' = "copy" /\ call' = call
           \/ pc' = "threshold" /\ call' = Transferred
        /\ call.frames \in Nat /\ call.count \in Nat
        /\ call.user_offset \in Nat
    BY <1>5 DEF Areas, Goto, IInv, Typed, CallType
  <2>2. pc' = "threshold" =>
          call'.frames + call'.user_offset = call.frames + call.user_offset
    BY <2>1, TransferredFields
  <2> QED BY <2>1, <2>2 DEF Shares, Settled
<1>6. CASE Copy
  <2>1. /\ pc = "copy" /\ pc' \in {"areas", "finish"} /\ request' = request
        /\ call'.frames = call.frames
        /\ call'.user_offset = call.user_offset
    BY <1>6 DEF Copy, Goto, Fail, IInv, Typed, CallType
  <2> QED BY <2>1 DEF Shares, Settled
<1>7. CASE RwEntry
  <2>1. /\ pc = "again" /\ request' = request
        /\ \/ pc' = "finish"
           \/ pc' = "rw_copy" /\ call' = [NoCall EXCEPT !.frames = request]
    BY <1>7 DEF RwEntry, Goto, Fail
  <2>2. pc' = "rw_copy" => call'.frames = request
    BY <2>1, FreshFields DEF IInv, Typed
  <2> QED BY <2>1, <2>2 DEF Shares, Settled
<1>8. CASE RwCopy \/ RwEnd
  <2>1. /\ pc = "rw_copy" /\ pc' \in {"rw_copy", "finish"}
        /\ request' = request /\ call'.frames = call.frames
    BY <1>8 DEF RwCopy, RwEnd, Goto, IInv, Typed, CallType
  <2> QED BY <2>1 DEF Shares, Settled
<1> QED BY <1>1, <1>2, <1>3, <1>4, <1>5, <1>6, <1>7, <1>8 DEF Library

(* The answers of such a stream: every ioctl works, unless it has stopped  *)
(* in an xrun.                                                             *)
LEMMA CalmAnswers ==
  ASSUME IInv, Reachable
  PROVE  /\ SyncError(FALSE) = "none"
         /\ mode.sync_ptr => Fetch(FALSE).state = state
         /\ pc \notin {"idle", "entry", "prepare"} =>
              /\ StateError(state) = IF state = "XRUN" THEN "EPIPE" ELSE "none"
              /\ SyncError(TRUE) = StateError(state)
              /\ state # "XRUN" => Fetch(TRUE).avail = avail
BY DEF Reachable, SyncError, StateError, Fetch

LEMMA CalmStep == IInv /\ Apart /\ Shares /\ Calm /\ Library => Calm'
<1> SUFFICES ASSUME IInv, Apart, Shares, Calm, Library PROVE Calm'
  OBVIOUS
<1> USE DEF IsPlayback, IsNonblock
<1>0. /\ mode' = mode /\ BufferSize \in Nat \ {0} /\ avail \in Nat
      /\ Reachable /\ Room /\ Outcome
  BY SizeAssumption DEF Library, IInv, Typed, Calm
<1>1. CASE EntryState
  <2>1. /\ pc = "entry" /\ UNCHANGED <<state, avail, call>>
        /\ pc' = IF state = "SETUP" THEN "prepare" ELSE "again"
    BY <1>0, <1>1, CalmAnswers DEF EntryState, Goto, kernelVars
  <2> QED BY <1>0, <2>1 DEF Calm, Reachable, Room, Outcome
<1>2. CASE EntryPrepare \/ Restart
  <2>1. /\ pc \in {"prepare", "restart"} /\ state \in {"SETUP", "XRUN"}
        /\ PrepareError(state) = "none"
    BY <1>0, <1>2 DEF EntryPrepare, Restart, Reachable, PrepareError
  <2>2. /\ pc' = "again" /\ state' = "PREPARED"
        /\ IsPlayback => avail' = BufferSize
    BY <1>2, <2>1 DEF EntryPrepare, Restart, pcm_prepare, pcm_prepare_fails,
                      KernelPrepare, Goto
  <2> QED BY <1>0, <2>2 DEF Calm, Reachable, Room, Outcome
<1>3. CASE Finish
  <2>1. /\ pc = "finish" /\ pc' \in {"idle", "restart"}
        /\ UNCHANGED <<state, avail>>
    BY <1>3 DEF Finish, Return, Goto, kernelVars
  <2>2. pc' = "restart" => state = "XRUN"
    <3>1. pc' = "restart" => ~(call.user_offset > 0) /\ MayRestart
      BY <1>3 DEF Finish, Return, Goto
    <3>2. call.user_offset \in Nat
      BY DEF IInv, Typed, CallType
    <3> QED BY <1>0, <2>1, <3>1, <3>2 DEF MayRestart, Outcome
  <2> QED BY <1>0, <2>1, <2>2 DEF Calm, Reachable, Room, Outcome
<1>4. CASE StartState
  <2>1. pc = "start" /\ state # "SETUP"
    BY <1>0, <1>4 DEF StartState, Reachable
  <2>2. /\ pc' = "start_ioctl" /\ UNCHANGED <<state, avail, call>>
        /\ seen' = Fetch(FALSE)
    BY <1>0, <1>4, <2>1, CalmAnswers
       DEF StartState, Goto, Sync, kernelVars
  <2>3. SeenState' = state'
    BY <1>0, <2>2, CalmAnswers DEF SeenState
  <2> QED BY <1>0, <2>1, <2>2, <2>3 DEF Calm, Reachable, Room, Outcome
<1>5. CASE StartIoctl
  <2>1. /\ pc = "start_ioctl" /\ UNCHANGED <<avail, call>>
        /\ \/ pc' = "loop" /\ state' \in {state, "RUNNING"}
              /\ (state' # state => state = "PREPARED")
           \/ pc' = "finish" /\ state' = state /\ SeenState # "RUNNING"
              /\ \/ state = "PREPARED" /\ ~HasData
                 \/ state # "PREPARED" /\ errno' \notin {"EPIPE", "ESTRPIPE"}
    BY <1>5 DEF StartIoctl, Goto, Fail
  <2>2. pc' = "finish" => state = "XRUN"
    BY <1>0, <2>1 DEF Reachable, Room, Outcome, HasData
  <2> QED BY <1>0, <2>1, <2>2 DEF Calm, Reachable, Room, Outcome
<1>6. CASE MmapEntry
  <2>1. /\ pc = "again" /\ UNCHANGED <<state, avail>>
        /\ \/ pc' = "finish" /\ state = "XRUN" /\ errno' = "EPIPE"
           \/ pc' \in {"start", "loop"}
              /\ (pc' = "start" => ~IsPlayback)
    BY <1>0, <1>6, CalmAnswers DEF MmapEntry, Goto, Fail, kernelVars
  <2> QED BY <1>0, <2>1 DEF Calm, Reachable, Room, Outcome
<1>7. CASE Loop
  <2>1. /\ pc = "loop" /\ UNCHANGED <<state, avail, request>>
        /\ call'.count = call.count /\ call'.user_offset = call.user_offset
        /\ call.count = 0
        /\ \/ pc' = "finish" /\ call.frames = 0
           \/ pc' = "finish" /\ errno' = "EAGAIN" /\ IsNonblock
           \/ pc' \in {"areas", "wait"}
    BY <1>7 DEF Loop, Goto, Fail, MayBlock, kernelVars, IInv, Typed, CallType,
                Accounts, Settled
  <2>2. call.frames = 0 => call.user_offset = request /\ request # 0
    BY <2>1 DEF Shares, Settled, IInv, Typed, CallType
  <2> QED BY <1>0, <2>1, <2>2 DEF Calm, Reachable, Room, Outcome
<1>8. CASE Wait \/ Threshold
  <2>1. /\ pc \in {"wait", "threshold"} /\ UNCHANGED <<state, avail, call>>
        /\ pc' \in {"areas", "poll_error", "start", "loop"}
        /\ pc' = "poll_error" => PollFailed
        /\ pc' = "areas" => pc = "wait"
        /\ pc' = "start" => pc = "threshold"
        /\ pc = "wait" => call.count = 0
    BY <1>8 DEF Wait, Threshold, Goto, kernelVars, IInv, Accounts, Settled
  <2> QED BY <1>0, <2>1 DEF Calm, Reachable, Room, Outcome, PollFailed
<1>9. CASE PollError
  <2>1. pc = "poll_error" /\ pc' = "finish" /\ UNCHANGED <<state, avail, call>>
    BY <1>9 DEF PollError, Goto, Fail, kernelVars
  <2>2. state = "XRUN" /\ errno' = "EPIPE"
    BY <1>0, <1>9, <2>1, CalmAnswers DEF PollError, Fail, Reachable
  <2> QED BY <1>0, <2>1, <2>2 DEF Calm, Reachable, Room, Outcome
<1>10. CASE Areas
  <2>1. /\ pc = "areas" /\ UNCHANGED <<state, avail>>
        /\ call.frames >= 1 /\ call.frames \in Nat /\ call.count \in Nat
    BY <1>10 DEF Areas, kernelVars, Shares, IInv, Typed, CallType
  <2>2. \/ pc' = "copy" /\ call' = call
        \/ /\ pc' = "threshold"
           /\ Fetch(TRUE).avail = 0 \/ ~(call.count < call.frames)
    BY <1>10 DEF Areas, Goto
  <2>3. pc' = "threshold" /\ IsPlayback /\ state = "PREPARED" => avail < BufferSize
    <3>1. state # "XRUN" => Fetch(TRUE).avail = avail
      BY <1>0, <2>1, CalmAnswers
    <3>2. pc' = "threshold" /\ state = "PREPARED" =>
            avail = 0 \/ call.count >= 1
      <4>1. CASE call.count < call.frames
        BY <2>2, <3>1, <4>1
      <4>2. CASE ~(call.count < call.frames)
        BY <2>1, <4>2
      <4> QED BY <4>1, <4>2
    <3> QED BY <1>0, <2>1, <3>2 DEF Room
  <2> QED BY <1>0, <2>1, <2>2, <2>3 DEF Calm, Reachable, Room, Outcome
<1>11. CASE Copy
  <2> DEFINE n == CopyFrames(Fetch(TRUE).avail)
  <2>1. /\ pc = "copy" /\ pc' = "areas" /\ UNCHANGED state
        /\ avail' = avail - n
        /\ call' = [call EXCEPT !.count = @ + n]
    BY <1>0, <1>11, CalmAnswers DEF Copy, Goto
  <2>2. n \in Nat /\ n <= avail
    <3>1. /\ Fetch(TRUE).avail \in Nat /\ Fetch(TRUE).avail <= avail
          /\ IsMmap
      BY <2>1, Fetched DEF View, IInv, Apart
    <3> QED BY <2>1, <3>1, CopyBounds
  <2> HIDE DEF n
  <2>3. call'.count = call.count + n /\ call.count \in Nat
    BY <2>1 DEF IInv, Typed, CallType
  <2> QED BY <1>0, <2>1, <2>2, <2>3 DEF Calm, Reachable, Room, Outcome
<1>12. CASE RwEntry
  <2>1. /\ pc = "again" /\ avail' = avail
        /\ \/ pc' = "finish" /\ state' = state /\ state = "XRUN" /\ errno' = "EPIPE"
           \/ pc' = "rw_copy" /\ state' \in {state, "RUNNING"}
    BY <1>0, <1>12, CalmAnswers DEF RwEntry, Goto, Fail
  <2> QED BY <1>0, <2>1 DEF Calm, Reachable, Room, Outcome
<1>13. CASE RwCopy
  <2> DEFINE n == Min({call.frames - call.count, avail, BufferSize - slot})
  <2>1. /\ pc = "rw_copy" /\ pc' = "rw_copy" /\ state' \in {state, "RUNNING"}
        /\ avail' = avail - n
    BY <1>13 DEF RwCopy
  <2>2. n \in Nat
    <3>1. /\ call.frames - call.count \in Nat
          /\ BufferSize - slot \in Nat
      BY <1>0, <2>1 DEF IInv, Typed, CallType, Slots, Accounts, Moving
    <3> DEFINE left == call.frames - call.count
               rest == BufferSize - slot
    <3> HIDE DEF left, rest
    <3>2. left \in Nat /\ rest \in Nat
      BY <3>1 DEF left, rest
    <3>3. Min({left, avail, rest}) \in {left, avail, rest}
      <4>1. left \in Int /\ avail \in Int /\ rest \in Int
        BY <1>0, <3>2
      <4> QED BY ONLY <4>1, MinOfThree
    <3>4. Min({left, avail, rest}) \in Nat
      BY <1>0, <3>2, <3>3
    <3> QED BY <3>4 DEF left, rest
  <2> HIDE DEF n
  <2> QED BY <1>0, <2>1, <2>2 DEF Calm, Reachable, Room, Outcome
<1>14. CASE RwEnd
  <2>1. /\ pc = "rw_copy" /\ pc' = "finish" /\ UNCHANGED <<state, avail, request>>
        /\ call'.user_offset = call.count
        /\ \/ call.count = call.frames
           \/ StateError(state) # "none" /\ errno' = StateError(state)
           \/ IsNonblock /\ errno' = "EAGAIN"
    BY <1>14 DEF RwEnd, RwResult, Goto, kernelVars, IInv, Typed, CallType
  <2>2. call.frames = request /\ request >= 1 /\ request \in Nat
    BY <2>1 DEF Shares, IInv, Typed
  <2>3. StateError(state) = IF state = "XRUN" THEN "EPIPE" ELSE "none"
    BY <1>0, <2>1, CalmAnswers
  <2>4. /\ call'.user_offset = 0 => errno' # "ESTRPIPE"
        /\ call'.user_offset = 0 /\ errno' = "EPIPE" => state = "XRUN"
        /\ state # "XRUN" /\ ~IsNonblock => call'.user_offset = request
    BY <2>1, <2>2, <2>3
  <2> QED BY <1>0, <2>1, <2>4 DEF Calm, Reachable, Room, Outcome
<1> QED
  BY <1>1, <1>2, <1>3, <1>4, <1>5, <1>6, <1>7, <1>8, <1>9, <1>10, <1>11,
     <1>12, <1>13, <1>14 DEF Library

LEMMA MinMaxOfTwo ==
  ASSUME NEW a \in Int, NEW b \in Int
  PROVE  /\ Min({a, b}) = IF a <= b THEN a ELSE b
         /\ Max({a, b}) = IF a >= b THEN a ELSE b
<1>1. Min({a, b}) = IF a <= b THEN a ELSE b
  <2>1. \E m \in {a, b} : \A y \in {a, b} : m <= y
    OBVIOUS
  <2> QED BY <2>1 DEF Min
<1>2. Max({a, b}) = IF a >= b THEN a ELSE b
  <2>1. \E m \in {a, b} : \A y \in {a, b} : m >= y
    OBVIOUS
  <2> QED BY <2>1 DEF Max
<1> QED BY <1>1, <1>2

LEMMA CountedStep ==
  IInv /\ Shares /\ Calm /\ Counted /\ Library => Counted'
<1> SUFFICES ASSUME IInv, Shares, Calm, Counted, Library PROVE Counted'
  OBVIOUS
<1> USE DEF IsNoRestart
<1>0. mode' = mode /\ Reachable /\ Outcome /\ Room
  BY DEF Library, Calm
<1>1. CASE EntryPrepare \/ Restart
  <2>1. /\ pc \in {"prepare", "restart"} /\ state \in {"SETUP", "XRUN"}
        /\ PrepareError(state) = "none"
    BY <1>0, <1>1 DEF EntryPrepare, Restart, Reachable, PrepareError
  <2>2. pc' = "again" /\ state' = "PREPARED" /\ uncounted' = uncounted
    BY <1>1, <2>1 DEF EntryPrepare, Restart, pcm_prepare, pcm_prepare_fails,
                      KernelPrepare, Goto
  <2>3. uncounted = 0
    BY <1>0, <2>1 DEF Counted, Reachable
  <2> QED BY <1>0, <2>2, <2>3 DEF Counted
<1>2. CASE Finish
  <2>1. /\ pc = "finish" /\ state' = state /\ call.user_offset \in Nat
    BY <1>2 DEF Finish, kernelVars, IInv, Typed, CallType
  <2>2. CASE call.user_offset > 0
    <3>1. pc' = "idle" /\ uncounted' = uncounted
      BY <1>2, <2>2 DEF Finish, Return, Goto
    <3> QED BY <1>0, <2>1, <3>1 DEF Counted
  <2>3. CASE call.user_offset = 0 /\ errno = "EPIPE"
    <3>1. state = "XRUN"
      BY <1>0, <2>1, <2>3 DEF Outcome
    <3>2. uncounted' = Max({uncounted - 1, -2}) /\ uncounted \in -2 .. 1
      BY <1>2, <2>3 DEF Finish, CountXrun, Counted
    <3>3. uncounted' = IF uncounted >= -1 THEN uncounted - 1 ELSE -2
      <4> DEFINE less == uncounted - 1
                 least == -2
      <4>1. less \in Int /\ least \in Int
        BY <3>2
      <4>2. uncounted' = Max({less, least})
        BY <3>2
      <4> HIDE DEF less, least
      <4>3. uncounted' = IF less >= least THEN less ELSE least
        BY <4>1, <4>2, MinMaxOfTwo
      <4> QED BY <3>2, <4>3 DEF less, least
    <3>4. pc' = IF IsNoRestart THEN "idle" ELSE "restart"
      BY <1>2, <2>3 DEF Finish, MayRestart, Return, Goto
    <3> QED BY <1>0, <2>1, <3>1, <3>2, <3>3, <3>4 DEF Counted
  <2>4. CASE call.user_offset = 0 /\ errno # "EPIPE"
    <3>1. pc' = "idle" /\ uncounted' = uncounted
      BY <1>0, <1>2, <2>1, <2>4
         DEF Finish, CountXrun, MayRestart, Outcome, Return, Goto
    <3> QED BY <1>0, <2>1, <3>1 DEF Counted
  <2> QED BY <2>1, <2>2, <2>3, <2>4
<1>3. CASE ~(EntryPrepare \/ Restart \/ Finish)
  <2>1. pc # "restart" /\ pc' # "restart" /\ uncounted' = uncounted
    BY <1>3 DEF Library, EntryState, StartState, StartIoctl, MmapEntry, Loop,
           Wait, PollError, Areas, Copy, Threshold, RwEntry, RwCopy, RwEnd,
           Goto, Fail, kernelVars
  <2>2. \/ state' = state
        \/ state \in {"PREPARED", "RUNNING"} /\ state' \in {"PREPARED", "RUNNING"}
    <3>1. CASE StartState
      BY <1>0, <3>1 DEF StartState, Reachable, kernelVars
    <3>2. CASE StartIoctl
      BY <3>2 DEF StartIoctl
    <3>3. CASE RwEntry \/ RwCopy
      <4>1. \/ StateError(state) = "none" /\ pc \in {"again", "rw_copy"}
            \/ state' = state
        BY <3>3 DEF RwEntry, RwCopy
      <4>2. state' \in {state, "RUNNING"}
        BY <3>3 DEF RwEntry, RwCopy
      <4>3. StateError(state) = "none" => state # "XRUN"
        BY DEF StateError
      <4> QED BY <1>0, <4>1, <4>2, <4>3 DEF Reachable
    <3>4. CASE EntryState \/ MmapEntry \/ Loop \/ Wait \/ PollError \/ Areas
               \/ Copy \/ Threshold \/ RwEnd
      BY <3>4 DEF EntryState, MmapEntry, Loop, Wait, PollError, Areas, Copy,
                  Threshold, RwEnd, kernelVars
    <3> QED BY <1>3, <3>1, <3>2, <3>3, <3>4 DEF Library
  <2> QED BY <1>0, <2>1, <2>2 DEF Counted
<1> QED BY <1>1, <1>2, <1>3

(* The hardware only runs a running stream, into an xrun at most.          *)
LEMMA HardwareCalm ==
  IInv /\ Shares /\ Calm /\ Hardware => Shares' /\ Calm'
<1> SUFFICES ASSUME IInv, Shares, Calm, Hardware PROVE Shares' /\ Calm'
  OBVIOUS
<1>1. /\ state = "RUNNING" /\ state' \in {"RUNNING", "XRUN"}
      /\ UNCHANGED <<mode, slot, seen, callVars>>
  BY DEF Hardware, Advance
<1>2. Shares'
  BY <1>1 DEF Shares, callVars
<1>3. Calm'
  BY <1>1 DEF Calm, Reachable, Room, Outcome, SeenState, IsPlayback,
              IsNonblock, callVars
<1> QED BY <1>2, <1>3

LEMMA HardwareCounted == IInv /\ Calm /\ Counted /\ Hardware => Counted'
<1> SUFFICES ASSUME IInv, Calm, Counted,
                    UNCHANGED mode, NEW n \in 1 .. MaxAdvance, Advance(n)
             PROVE  Counted'
  BY DEF Hardware
<1>1. state = "RUNNING" /\ pc' = pc /\ uncounted = 0 /\ pc # "restart"
  BY DEF Advance, callVars, Counted, Calm, Reachable
<1>2. \/ state' = "XRUN" /\ uncounted' = Min({uncounted + 1, 2})
      \/ state' = state /\ uncounted' = uncounted
  BY DEF Advance
<1>3. Min({uncounted + 1, 2}) = 1
  BY <1>1, MinMaxOfTwo
<1> QED BY <1>1, <1>2, <1>3 DEF Counted, IsNoRestart

LEMMA CallCalm ==
  ASSUME NEW n \in Nat, n >= 1, Call(n), UNCHANGED mode
  PROVE  /\ Shares'
         /\ Calm => Calm'
         /\ Counted => Counted'
<1>1. /\ pc = "idle" /\ pc' = "entry" /\ request' = n
      /\ UNCHANGED <<mode, state, avail, call, uncounted>>
  BY DEF Call, Goto, kernelVars
<1>2. Shares'
  BY <1>1 DEF Shares, Settled
<1>3. Calm => Calm'
  BY <1>1 DEF Calm, Reachable, Room, Outcome, IsPlayback
<1>4. Counted => Counted'
  BY <1>1 DEF Counted, IsNoRestart
<1> QED BY <1>2, <1>3, <1>4

------------------------------------------------------------------------------
(* How full the counters get                                               *)

(* A stream that runs has room for one more update below the bound; what   *)
(* the library keeps of avail was avail once.                              *)
Levels ==
  /\ avail <= MaxAvail
  /\ state = "PREPARED" => avail <= BufferSize
  /\ state = "RUNNING" => avail + MaxAdvance <= MaxAvail
  /\ seen.avail <= MaxAvail /\ call.avail <= MaxAvail

(* No local of a call, and nothing it moved, exceeds its request.          *)
Within ==
  /\ pc \in Fresh => call = NoCall
  /\ pc \in Fresh \ {"idle"} => committed = 0
  /\ pc \in Settled \cup Moving => committed <= call.user_offset + call.count
  /\ call.frames <= request /\ call.user_offset <= request
  /\ call.count <= call.frames
  /\ pc # "idle" => committed <= request
  /\ request <= mode.max_request /\ committed <= mode.max_request
  /\ ret >= -1 /\ ret <= mode.max_request

Marks == errno \in Errno /\ uncounted \in -2 .. 2

TInv == Shares /\ Levels /\ Within /\ Marks

LEMMA BoundsHold == Init => TInv
<1> SUFFICES ASSUME Init PROVE TInv
  OBVIOUS
<1>1. Shares
  BY SharesHolds
<1>2. mode \in Modes /\ mode.max_request \in Nat /\ MaxAvail \in Nat
  BY ModeTypes, MaxAvailBounds DEF Init
<1>3. Levels
  BY <1>2 DEF Init, Levels, NoCall
<1>4. Within
  BY <1>2 DEF Init, Within, NoCall, Fresh, Settled, Moving
<1>5. Marks
  BY DEF Init, Marks, Errno
<1> QED BY <1>1, <1>3, <1>4, <1>5 DEF TInv

LEMMA FetchedLevel ==
  ASSUME IInv, Levels, NEW hwsync \in BOOLEAN
  PROVE  Fetch(hwsync).avail <= MaxAvail
BY DEF Levels, Fetch

(* Frames that leave, and a start, keep within the levels.                 *)
LEMMA LevelsKept ==
  ASSUME IInv, Levels, mode' = mode, avail' \in Nat, avail' <= avail,
         \/ state' = state
         \/ state \in {"PREPARED", "RUNNING"} /\ state' = "RUNNING"
         \/ state' \notin {"PREPARED", "RUNNING"},
         seen'.avail <= MaxAvail, call'.avail <= MaxAvail
  PROVE  Levels'
<1>1. /\ MaxAvail \in Nat /\ BufferSize + MaxAdvance <= MaxAvail
      /\ avail \in Nat /\ BufferSize \in Nat /\ MaxAdvance \in Nat
  BY MaxAvailBounds, SizeAssumption DEF IInv, Typed
<1>2. state \in {"PREPARED", "RUNNING"} => avail + MaxAdvance <= MaxAvail
  BY <1>1 DEF Levels
<1> HIDE DEF MaxAvail
<1>3. avail' <= MaxAvail
  BY <1>1 DEF Levels
<1>4. state' = "PREPARED" => avail' <= BufferSize
  BY <1>1 DEF Levels
<1>5. state' = "RUNNING" => avail' + MaxAdvance <= MaxAvail
  <2>1. state' = "RUNNING" => state \in {"PREPARED", "RUNNING"}
    OBVIOUS
  <2>2. \A a, b, c, d \in Nat : a <= b /\ b + c <= d => a + c <= d
    OBVIOUS
  <2>3. avail + MaxAdvance <= MaxAvail => avail' + MaxAdvance <= MaxAvail
    <3>1. avail' \in Nat /\ avail' <= avail
      OBVIOUS
    <3> QED BY ONLY <1>1, <2>2, <3>1
  <2> QED BY <1>2, <2>1, <2>3
<1> QED BY <1>3, <1>4, <1>5 DEF Levels, MaxAvail

LEMMA LevelsPrepared ==
  ASSUME IInv, pcm_prepare, call'.avail <= MaxAvail
  PROVE  Levels'
<1>1. /\ MaxAvail \in Nat /\ BufferSize + MaxAdvance <= MaxAvail
      /\ BufferSize \in Nat /\ MaxAdvance \in Nat
  BY MaxAvailBounds, SizeAssumption DEF IInv, Typed
<1>2. /\ state' = "PREPARED" /\ avail' \in {0, BufferSize}
      /\ seen'.avail = avail'
  BY DEF pcm_prepare, KernelPrepare
<1> HIDE DEF MaxAvail
<1>3. avail' <= BufferSize /\ avail' <= MaxAvail
  BY <1>1, <1>2
<1> QED BY <1>2, <1>3 DEF Levels, MaxAvail

(* The avail of a round is one the library fetched.                        *)
LEMMA CallLevel ==
  ASSUME IInv, Levels, Library
  PROVE  call'.avail <= MaxAvail
<1>1. call \in CallType /\ MaxAvail \in Nat /\ call.avail <= MaxAvail
  BY MaxAvailBounds DEF IInv, Typed, Levels
<1>2. \/ call' = call
      \/ call'.avail = 0
      \/ call'.avail = call.avail
      \/ call'.avail = Fetch(TRUE).avail
  <2>1. CASE EntryState \/ EntryPrepare \/ Finish \/ Restart
    <3>1. call' \in {call, NoCall}
      BY <2>1 DEF EntryState, EntryPrepare, Finish, Restart, Return
    <3>2. NoCall.avail = 0
      BY DEF NoCall
    <3> QED BY <3>1, <3>2
  <2>2. CASE StartState \/ StartIoctl \/ Wait \/ PollError \/ Threshold
    BY <2>2 DEF StartState, StartIoctl, Wait, PollError, Threshold
  <2>3. CASE MmapEntry \/ RwEntry
    BY <2>3 DEF MmapEntry, RwEntry, NoCall
  <2>4. CASE Loop
    BY <1>1, <2>4 DEF Loop, CallType
  <2>5. CASE Areas
    BY <1>1, <2>5 DEF Areas, Transferred, CallType
  <2>6. CASE Copy \/ RwCopy \/ RwEnd
    BY <1>1, <2>6 DEF Copy, RwCopy, RwEnd, CallType
  <2> QED BY <2>1, <2>2, <2>3, <2>4, <2>5, <2>6 DEF Library
<1>3. Fetch(TRUE).avail <= MaxAvail
  BY FetchedLevel
<1>4. 0 <= MaxAvail
  BY ONLY <1>1
<1> QED BY ONLY <1>1, <1>2, <1>3, <1>4

LEMMA LibraryLevels == IInv /\ Apart /\ Levels /\ Library => Levels'
<1> SUFFICES ASSUME IInv, Apart, Levels, Library PROVE Levels'
  OBVIOUS
<1>1. /\ mode' = mode /\ call'.avail <= MaxAvail /\ avail \in Nat
      /\ IInv' /\ avail' \in Nat /\ seen'.avail \in Nat
      /\ seen.avail <= MaxAvail /\ avail <= MaxAvail /\ MaxAvail \in Nat
  BY CallLevel, Inductive, MaxAvailBounds
     DEF Next, Library, IInv, Typed, View, Levels
<1>2. CASE pcm_prepare
  BY <1>1, <1>2, LevelsPrepared
<1>3. CASE ~pcm_prepare
  <2>1. CASE Copy
    <3> DEFINE view == Fetch(TRUE)
               n == CopyFrames(view.avail)
    <3>1. /\ view \in View /\ view.avail <= avail /\ IsMmap /\ pc = "copy"
          /\ view.avail <= MaxAvail
      BY <2>1, Fetched, FetchedLevel DEF Copy, IInv, Apart
    <3>2. n \in Nat /\ n <= avail
      BY <3>1, CopyBounds DEF View
    <3>3. /\ state' = state
          /\ \/ avail' = avail - n /\ seen' = SeenAfterCommit(n)
             \/ avail' = avail /\ seen' = [view EXCEPT !.avail = @ - n]
      BY <2>1 DEF Copy
    <3>4. \/ avail' = avail - n /\ seen'.avail = avail - n
          \/ avail' = avail /\ seen'.avail = view.avail - n
      <4> HIDE DEF view, n
      <4> QED BY <3>1, <3>3 DEF SeenAfterCommit, View
    <3> HIDE DEF view, n
    <3>5. avail' <= avail /\ seen'.avail <= MaxAvail
      <4>1. view.avail \in Nat
        BY <3>1 DEF View
      <4> HIDE DEF MaxAvail
      <4> QED BY <1>1, <3>1, <3>2, <3>4, <4>1
    <3> QED BY <1>1, <3>3, <3>5, LevelsKept
  <2>2. CASE RwCopy
    <3>1. seen' = seen /\ state' \in {state, "RUNNING"}
          /\ (state' # state => state \in {"PREPARED", "RUNNING"})
      <4>1. StateError(state) = "none" /\ state \in State
        BY <2>2 DEF RwCopy, IInv, Typed
      <4>2. state \in {"PREPARED", "RUNNING"}
        BY <4>1 DEF StateError, State
      <4> QED BY <2>2, <4>2 DEF RwCopy
    <3>2. avail' <= avail
      <4> DEFINE left == call.frames - call.count
                 rest == BufferSize - slot
                 n == Min({left, avail, rest})
      <4>1. /\ left \in Nat /\ rest \in Nat /\ avail' = avail - n
        BY <2>2, SizeAssumption
           DEF RwCopy, IInv, Typed, CallType, Slots, Accounts, Moving
      <4> HIDE DEF left, rest
      <4>2. n \in {left, avail, rest}
        <5>1. left \in Int /\ avail \in Int /\ rest \in Int
          BY <1>1, <4>1
        <5> QED BY ONLY <5>1, MinOfThree
      <4>3. n \in Nat
        BY <1>1, <4>1, <4>2
      <4> HIDE DEF n
      <4> QED BY <1>1, <4>1, <4>3
    <3> QED BY <1>1, <3>1, <3>2, LevelsKept
  <2>3. CASE RwEntry \/ StartIoctl
    <3>1. /\ seen' = seen /\ avail' = avail
          /\ \/ state' = state
             \/ state \in {"PREPARED", "RUNNING"} /\ state' = "RUNNING"
      <4>1. StateError(state) = "none" => state \in {"PREPARED", "RUNNING"}
        BY DEF StateError, State, IInv, Typed
      <4> QED BY <2>3, <4>1 DEF RwEntry, StartIoctl
    <3> QED BY <1>1, <3>1, LevelsKept
  <2>4. CASE ~(Copy \/ RwCopy \/ RwEntry \/ StartIoctl)
    <3>1. /\ UNCHANGED kernelVars
          /\ seen' = seen \/ \E hwsync \in BOOLEAN : seen' = Fetch(hwsync)
      BY <1>3, <2>4 DEF Library, EntryState, EntryPrepare, Finish, Restart,
         StartState, MmapEntry, Loop, Wait, PollError, Areas, Threshold,
         RwEnd, Sync
    <3>2. seen'.avail <= MaxAvail
      BY <1>1, <3>1, FetchedLevel
    <3> QED BY <1>1, <3>1, <3>2, LevelsKept DEF kernelVars
  <2> QED BY <2>1, <2>2, <2>3, <2>4
<1> QED BY <1>2, <1>3

(* A step that keeps the frames of the call, or that ends it.              *)
LEMMA WithinKept ==
  ASSUME IInv, Within, UNCHANGED <<mode, request, committed, ret>>,
         call' = call \/ (pc' \notin Fresh /\ call'.frames = call.frames
                            /\ call'.user_offset = call.user_offset
                            /\ call'.count = call.count),
         \/ pc' \in {"finish", "restart"}
         \/ pc \in Settled \cup Moving /\ pc' \in Settled \cup Moving
         \/ pc \in Fresh \ {"idle"} /\ pc' \in Fresh \ {"idle"},
         pc # "idle"
  PROVE  Within'
<1>1. /\ call'.frames = call.frames /\ call'.user_offset = call.user_offset
      /\ call'.count = call.count /\ pc' # "idle"
  BY DEF Fresh, Settled, Moving
<1>2. pc' \in Fresh => call' = NoCall /\ committed' = 0
  BY DEF Within, Fresh, Settled, Moving
<1> QED BY <1>1, <1>2 DEF Within, Fresh, Settled, Moving

LEMMA WithinReturned ==
  ASSUME IInv, Within, UNCHANGED <<mode, committed>>,
         NEW r \in Int, r >= -1, r <= mode.max_request, Return(r)
  PROVE  Within'
<1>1. /\ pc' = "idle" /\ ret' = r /\ call' = NoCall /\ request' = 0
      /\ mode.max_request \in Nat
  BY ModeTypes DEF Return, Goto, IInv, Typed
<1>2. NoCall.frames = 0 /\ NoCall.user_offset = 0 /\ NoCall.count = 0
  BY DEF NoCall
<1>3. committed' <= mode'.max_request
  BY DEF Within
<1> QED BY <1>1, <1>2, <1>3 DEF Within, Fresh, Settled, Moving

LEMMA WithinStep == IInv /\ Apart /\ Shares /\ Within /\ Library => Within'
<1> SUFFICES ASSUME IInv, Apart, Shares, Within, Library PROVE Within'
  OBVIOUS
<1>0. /\ mode' = mode /\ mode.max_request \in Nat
      /\ call \in CallType /\ request \in Nat /\ committed \in Nat /\ ret \in Int
      /\ call.frames \in Nat /\ call.user_offset \in Nat /\ call.count \in Nat
      /\ -1 \in Int
  BY ModeTypes DEF Library, IInv, Typed, CallType
<1>1. CASE EntryState
  BY <1>0, <1>1, WithinKept DEF EntryState, Goto, Fresh
<1>2. CASE EntryPrepare
  <2>1. pc = "prepare" /\ committed' = committed
    BY <1>2 DEF EntryPrepare
  <2>2. \/ pc' = "again" /\ UNCHANGED <<request, call, ret>>
        \/ Return(-1)
    BY <1>2 DEF EntryPrepare, Goto
  <2>3. -1 <= mode.max_request
    BY <1>0
  <2> QED BY <1>0, <2>1, <2>2, <2>3, WithinKept, WithinReturned DEF Fresh
<1>3. CASE Finish
  <2>1. pc = "finish" /\ committed' = committed
    BY <1>3 DEF Finish
  <2>2. \/ Return(call.user_offset)
        \/ Return(-1)
        \/ pc' = "restart" /\ UNCHANGED <<request, call, ret>>
    BY <1>3 DEF Finish, Goto
  <2>3. /\ call.user_offset >= -1 /\ call.user_offset <= mode.max_request
        /\ -1 <= mode.max_request
    BY <1>0 DEF Within
  <2> QED BY <1>0, <2>1, <2>2, <2>3, WithinKept, WithinReturned
<1>4. CASE Restart
  <2>1. pc = "restart" /\ committed' = committed
    BY <1>4 DEF Restart
  <2>2. CASE Return(-1)
    BY <1>0, <2>1, <2>2, WithinReturned
  <2>3. CASE pcm_prepare /\ pc' = "again" /\ call' = NoCall
               /\ UNCHANGED <<request, ret>>
    <3>1. committed = 0
      BY <1>0, <2>1, <2>3, Prepared DEF IInv, Accounts, Unmoved
    <3>2. NoCall.frames = 0 /\ NoCall.user_offset = 0 /\ NoCall.count = 0
      BY DEF NoCall
    <3> QED BY <1>0, <2>1, <2>3, <3>1, <3>2
            DEF Within, Fresh, Settled, Moving
  <2> QED BY <1>4, <2>2, <2>3 DEF Restart, Goto
<1>5. CASE StartState \/ StartIoctl \/ Wait \/ PollError \/ Threshold
  <2>1. /\ pc \in Settled /\ pc' \in Settled \cup {"areas", "finish"}
        /\ UNCHANGED <<call, request, committed, ret>>
    BY <1>5 DEF StartState, StartIoctl, Wait, PollError, Threshold, Goto,
                Fail, Settled
  <2> QED BY <1>0, <2>1, WithinKept DEF Settled, Moving
<1>6. CASE MmapEntry \/ RwEntry
  <2> DEFINE fresh == [NoCall EXCEPT !.frames = request, !.state = state]
             rw == [NoCall EXCEPT !.frames = request]
  <2>1. /\ pc = "again" /\ UNCHANGED <<request, committed, ret>>
        /\ \/ pc' = "finish" /\ call' = call
           \/ pc' \in {"start", "loop", "rw_copy"} /\ call' \in {fresh, rw}
    BY <1>6 DEF MmapEntry, RwEntry, Goto, Fail
  <2>2. CASE pc' = "finish" /\ call' = call
    BY <1>0, <2>1, <2>2, WithinKept
  <2>3. CASE pc' \in {"start", "loop", "rw_copy"} /\ call' \in {fresh, rw}
    <3>1. /\ call'.frames = request /\ call'.user_offset = 0
          /\ call'.count = 0
      BY <2>3, FreshFields DEF IInv, Typed
    <3>2. committed = 0
      BY <2>1 DEF Within, Fresh
    <3> QED BY <1>0, <2>1, <2>3, <3>1, <3>2
            DEF Within, Fresh, Settled, Moving
  <2> QED BY <2>1, <2>2, <2>3
<1>7. CASE Loop
  <2>1. /\ pc = "loop" /\ pc' \in {"finish", "areas", "wait"}
        /\ UNCHANGED <<request, committed, ret>>
        /\ call'.frames = call.frames
        /\ call'.user_offset = call.user_offset
        /\ call'.count = call.count
    BY <1>0, <1>7 DEF Loop, Goto, Fail, CallType
  <2> QED BY <1>0, <2>1, WithinKept DEF Fresh, Settled, Moving
<1>8. CASE Areas
  <2>1. /\ pc = "areas" /\ UNCHANGED <<request, committed, ret>>
        /\ \/ pc' = "copy" /\ call' = call
           \/ pc' = "threshold" /\ call' = Transferred
        /\ call.frames + call.user_offset = request
        /\ call.count <= call.frames
        /\ committed <= call.user_offset + call.count
        /\ committed <= request
    BY <1>8 DEF Areas, Goto, Shares, Within, Moving
  <2>2. CASE pc' = "copy" /\ call' = call
    BY <1>0, <2>1, <2>2, WithinKept DEF Moving
  <2>3. CASE pc' = "threshold" /\ call' = Transferred
    <3>1. /\ call'.frames = call.frames - call.count
          /\ call'.user_offset = call.user_offset + call.count
          /\ call'.count = 0
      BY <2>1, <2>3, TransferredFields
    <3>2. /\ call'.frames <= request /\ call'.user_offset <= request
          /\ call'.count <= call'.frames
          /\ committed <= call'.user_offset + call'.count
      BY <1>0, <2>1, <3>1
    <3> QED BY <1>0, <2>1, <2>3, <3>2 DEF Within, Fresh, Settled, Moving
  <2> QED BY <2>1, <2>2, <2>3
<1>9. ASSUME NEW n \in Nat, Moves(n), pc \in {"copy", "rw_copy"},
             pc' \in {"areas", "rw_copy"},
             call.count + n <= call.frames,
             call.frames + call.user_offset <= request,
             UNCHANGED <<request, ret>>
      PROVE  Within'
  <2>1. /\ call'.frames = call.frames /\ call'.user_offset = call.user_offset
        /\ call'.count = call.count + n /\ committed' = committed + n
    BY <1>0, <1>9 DEF Moves, CallType
  <2>2. committed <= call.user_offset + call.count
    BY <1>9 DEF Within, Moving
  <2>3. /\ call'.frames <= request /\ call'.user_offset <= request
        /\ call'.count <= call'.frames
        /\ committed' <= call'.user_offset + call'.count
        /\ committed' <= request
    BY <1>0, <1>9, <2>1, <2>2
  <2>4. committed' <= mode.max_request
    BY <1>0, <2>1, <2>3 DEF Within
  <2> QED BY <1>0, <1>9, <2>3, <2>4 DEF Within, Fresh, Settled, Moving
<1>10. CASE Copy
  <2> DEFINE view == Fetch(TRUE)
             n == CopyFrames(view.avail)
  <2>1. view \in View /\ view.avail <= avail /\ IsMmap /\ pc = "copy"
    BY <1>10, Fetched DEF Copy, IInv, Apart
  <2>2. n \in Nat /\ call.count + n <= call.frames
    BY <2>1, CopyBounds DEF View
  <2>3. /\ UNCHANGED <<request, ret>>
        /\ \/ Moves(n) /\ pc' = "areas"
           \/ pc' = "finish" /\ UNCHANGED <<call, committed>>
    BY <1>10 DEF Copy, Moves, Goto, Fail
  <2> HIDE DEF view, n
  <2>4. call.frames + call.user_offset <= request
    BY <1>0, <2>1 DEF Shares
  <2>5. CASE pc' = "finish" /\ UNCHANGED <<call, committed>>
    BY <1>0, <2>1, <2>3, <2>5, WithinKept
  <2> QED BY <1>9, <2>1, <2>2, <2>3, <2>4, <2>5
<1>11. CASE RwCopy
  <2> DEFINE left == call.frames - call.count
             rest == BufferSize - slot
             n == Min({left, avail, rest})
  <2>1. /\ left \in Nat /\ rest \in Nat /\ avail \in Nat
        /\ pc = "rw_copy" /\ pc' = "rw_copy" /\ Moves(n)
        /\ UNCHANGED <<request, ret>>
    BY <1>11, SizeAssumption
       DEF RwCopy, Moves, IInv, Typed, CallType, Slots, Accounts, Moving
  <2>2. call.frames + call.user_offset <= request
    BY <1>0, <2>1 DEF Shares, Apart
  <2> HIDE DEF rest
  <2>3. n \in {left, avail, rest} /\ n <= left
    <3> HIDE DEF left
    <3>1. left \in Int /\ avail \in Int /\ rest \in Int
      BY <2>1
    <3> QED BY ONLY <3>1, MinOfThree
  <2>4. n \in Nat
    BY <2>1, <2>3
  <2> HIDE DEF n
  <2>5. call.count + n <= call.frames
    BY <1>0, <2>3, <2>4
  <2> QED BY <1>9, <2>1, <2>2, <2>4, <2>5
<1>12. CASE RwEnd
  <2>1. /\ pc = "rw_copy" /\ pc' = "finish"
        /\ UNCHANGED <<request, committed, ret>>
        /\ call'.user_offset = call.count
        /\ call'.frames = call.frames /\ call'.count = call.count
        /\ call.count <= call.frames
    BY <1>0, <1>12 DEF RwEnd, RwResult, Goto, CallType, Within
  <2>2. call'.user_offset <= request
    BY <1>0, <2>1 DEF Within
  <2> QED BY <1>0, <2>1, <2>2 DEF Within, Fresh, Settled, Moving
<1> QED
  BY <1>1, <1>2, <1>3, <1>4, <1>5, <1>6, <1>7, <1>8, <1>10, <1>11, <1>12
     DEF Library

LEMMA AnswersAreErrors ==
  /\ \A s \in State : StateError(s) \in Errno /\ PrepareError(s) \in Errno
  /\ Typed => \A hwsync \in BOOLEAN : SyncError(hwsync) \in Errno
BY DEF StateError, PrepareError, SyncError, Errno, State, Typed

LEMMA MarksStep == IInv /\ Marks /\ Library => Marks'
<1> SUFFICES ASSUME IInv, Marks, Library PROVE Marks'
  OBVIOUS
<1>1. /\ errno \in Errno /\ uncounted \in -2 .. 2 /\ state \in State
      /\ StateError(state) \in Errno /\ PrepareError(state) \in Errno
      /\ SyncError(FALSE) \in Errno /\ SyncError(TRUE) \in Errno
  BY AnswersAreErrors DEF Marks, IInv, Typed
<1>2. errno' \in Errno
  <2>1. CASE EntryState \/ EntryPrepare \/ Finish \/ Restart
    BY <1>1, <2>1 DEF EntryState, EntryPrepare, Finish, Restart
  <2>2. CASE StartState \/ MmapEntry \/ RwEntry
    <3> HIDE DEF Errno
    <3> QED BY <1>1, <2>2 DEF StartState, MmapEntry, RwEntry, Fail
  <2>3. CASE StartIoctl
    BY <1>1, <2>3 DEF StartIoctl, Fail, Errno
  <2>4. CASE Loop \/ Wait \/ Areas \/ Threshold
    BY <1>1, <2>4 DEF Loop, Wait, Areas, Threshold, Fail, Errno
  <2>5. CASE PollError
    BY <2>5 DEF PollError, Fail, Errno
  <2>6. CASE Copy \/ RwCopy
    BY <1>1, <2>6 DEF Copy, RwCopy, Fail
  <2>7. CASE RwEnd
    BY <1>1, <2>7 DEF RwEnd, Errno
  <2> QED BY <2>1, <2>2, <2>3, <2>4, <2>5, <2>6, <2>7 DEF Library
<1>3. uncounted' \in -2 .. 2
  <2>1. \/ uncounted' = uncounted
        \/ uncounted' = Max({uncounted - 1, -2})
    BY DEF Library, EntryState, EntryPrepare, Finish, Restart, StartState,
           StartIoctl, MmapEntry, Loop, Wait, PollError, Areas, Copy,
           Threshold, RwEntry, RwCopy, RwEnd, CountXrun
  <2> DEFINE less == uncounted - 1
             least == -2
  <2>2. less \in Int /\ least \in Int
    BY <1>1
  <2> HIDE DEF less, least
  <2>3. Max({less, least}) = IF less >= least THEN less ELSE least
    BY <2>2, MinMaxOfTwo
  <2> QED BY <1>1, <2>1, <2>3 DEF less, least
<1> QED BY <1>2, <1>3 DEF Marks

LEMMA LibraryBounds == IInv /\ Apart /\ TInv /\ Library => TInv'
BY SharesStep, LibraryLevels, WithinStep, MarksStep DEF TInv

LEMMA HardwareBounds == IInv /\ TInv /\ Hardware => TInv'
<1> SUFFICES ASSUME IInv, TInv, UNCHANGED mode,
                    NEW n \in 1 .. MaxAdvance, Advance(n)
             PROVE  TInv'
  BY DEF Hardware
<1>1. /\ state = "RUNNING" /\ avail' = avail + n
      /\ UNCHANGED <<mode, slot, seen, callVars>>
      /\ \/ /\ avail' >= mode.stop_threshold
            /\ state' = "XRUN" /\ uncounted' = Min({uncounted + 1, 2})
         \/ ~(avail' >= mode.stop_threshold) /\ UNCHANGED <<state, uncounted>>
  BY DEF Advance
<1>2. /\ MaxAvail \in Nat /\ mode.stop_threshold + MaxAdvance <= MaxAvail
      /\ mode.stop_threshold \in Nat
      /\ avail \in Nat /\ n \in Nat /\ n <= MaxAdvance /\ MaxAdvance \in Nat
  BY MaxAvailBounds, SizeAssumption DEF IInv, Typed
<1>3. avail + MaxAdvance <= MaxAvail
  BY <1>1 DEF TInv, Levels
<1>4. /\ avail' <= MaxAvail
      /\ state' = "RUNNING" => avail' + MaxAdvance <= MaxAvail
      /\ state' # "PREPARED"
  <2> HIDE DEF MaxAvail
  <2>1. avail' <= MaxAvail
    BY ONLY <1>1, <1>2, <1>3
  <2>2. state' = "RUNNING" => avail' < mode.stop_threshold
    BY <1>1, <1>2
  <2>3. avail' < mode.stop_threshold => avail' + MaxAdvance <= MaxAvail
    BY ONLY <1>1, <1>2
  <2> QED BY <1>1, <2>1, <2>2, <2>3
<1>5. Levels' /\ Within' /\ Shares'
  BY <1>1, <1>4 DEF TInv, Levels, Within, Shares, callVars
<1>6. uncounted \in -2 .. 2
  BY DEF TInv, Marks
<1>7. Min({uncounted + 1, 2}) \in -2 .. 2
  <2> DEFINE more == uncounted + 1
  <2>1. more \in Int /\ 2 \in Int /\ more >= -2
    BY <1>6
  <2> HIDE DEF more
  <2>2. Min({more, 2}) = IF more <= 2 THEN more ELSE 2
    BY <2>1, MinMaxOfTwo
  <2>3. Min({more, 2}) \in -2 .. 2
    BY <2>1, <2>2
  <2> QED BY <2>3 DEF more
<1>8. Marks'
  BY <1>1, <1>6, <1>7 DEF TInv, Marks, callVars
<1> QED BY <1>5, <1>8 DEF TInv

LEMMA EnvironmentBounds == IInv /\ TInv /\ Environment => TInv'
<1> SUFFICES ASSUME IInv, TInv, Environment PROVE TInv'
  OBVIOUS
<1>0. mode' = mode /\ avail \in Nat /\ call \in CallType
  BY DEF Environment, IInv, Typed
<1>1. CASE WaitInterrupted
  <2>1. /\ pc = "wait" /\ pc' = "finish" /\ errno' = "EINTR"
        /\ UNCHANGED <<state, avail, seen, request, call, ret, committed, uncounted>>
    BY <1>1 DEF WaitInterrupted, Fail, Goto, kernelVars
  <2>2. Within'
    BY <1>0, <2>1, WithinKept DEF TInv
  <2>3. Levels' /\ Shares' /\ Marks'
    BY <1>0, <2>1 DEF TInv, Levels, Shares, Settled, Marks, Errno
  <2> QED BY <2>2, <2>3 DEF TInv
<1>2. CASE OtherStop \/ OtherStart \/ Suspend \/ Disconnect
  <2>1. /\ UNCHANGED <<avail, slot, seen, callVars, uncounted>>
        /\ \/ state' \notin {"PREPARED", "RUNNING"}
           \/ state = "PREPARED" /\ state' = "RUNNING"
    BY <1>2 DEF OtherStop, OtherStart, Suspend, Disconnect
  <2>2. Levels'
    BY <1>0, <2>1, LevelsKept DEF TInv, Levels, callVars
  <2>3. Shares' /\ Within' /\ Marks'
    BY <1>0, <2>1 DEF TInv, Shares, Within, Marks, callVars
  <2> QED BY <2>2, <2>3 DEF TInv
<1> QED BY <1>1, <1>2 DEF Environment

LEMMA CallBounds ==
  ASSUME IInv, TInv, NEW n \in Nat, n >= 1, n <= mode.max_request, Call(n),
         UNCHANGED mode
  PROVE  TInv'
<1>1. /\ pc = "idle" /\ pc' = "entry" /\ request' = n /\ committed' = 0
      /\ errno' = "none"
      /\ UNCHANGED <<state, avail, slot, seen, call, ret, uncounted>>
  BY DEF Call, Goto, kernelVars
<1>2. call = NoCall
  BY <1>1 DEF TInv, Within, Fresh
<1>3. NoCall.frames = 0 /\ NoCall.user_offset = 0 /\ NoCall.count = 0
  BY DEF NoCall
<1>4. Within'
  <2>1. mode.max_request \in Nat /\ mode' = mode
    BY ModeTypes DEF IInv, Typed
  <2>2. /\ call'.frames <= request' /\ call'.user_offset <= request'
        /\ call'.count <= call'.frames
        /\ committed' <= request' /\ committed' <= mode'.max_request
        /\ request' <= mode'.max_request
    BY <1>1, <1>2, <1>3, <2>1
  <2> QED BY <1>1, <1>2, <2>1, <2>2 DEF TInv, Within, Fresh, Settled, Moving
<1>5. Shares' /\ Levels' /\ Marks'
  BY <1>1 DEF TInv, Shares, Settled, Levels, Marks, Errno
<1> QED BY <1>4, <1>5 DEF TInv

LEMMA ClientBounds == IInv /\ TInv /\ Client => TInv'
<1> SUFFICES ASSUME IInv, TInv, Client PROVE TInv'
  OBVIOUS
<1>1. mode' = mode /\ mode.max_request \in Nat
  BY ModeTypes DEF Client, IInv, Typed
<1>2. CASE \E n \in 1 .. mode.max_request : Call(n)
  BY <1>1, <1>2, CallBounds
<1>3. CASE ClientPrepare
  <2>1. pcm_prepare /\ UNCHANGED <<callVars, uncounted>>
    BY <1>3 DEF ClientPrepare
  <2>2. Levels'
    BY <2>1, LevelsPrepared DEF TInv, Levels, callVars
  <2>3. Shares' /\ Within' /\ Marks'
    BY <1>1, <2>1 DEF TInv, Shares, Within, Marks, callVars
  <2> QED BY <2>2, <2>3 DEF TInv
<1> QED BY <1>2, <1>3 DEF Client

LEMMA BoundsInductive == IInv /\ Apart /\ TInv /\ [Next]_vars => TInv'
<1> SUFFICES ASSUME IInv, Apart, TInv, [Next]_vars PROVE TInv'
  OBVIOUS
<1>1. CASE UNCHANGED vars
  BY <1>1 DEF vars, TInv, Shares, Levels, Within, Marks
<1> QED
  BY <1>1, LibraryBounds, HardwareBounds, EnvironmentBounds, ClientBounds
     DEF Next

LEMMA BoundsAreTypes == IInv /\ TInv => TypeOK
<1> SUFFICES ASSUME IInv, TInv PROVE TypeOK
  OBVIOUS
<1>1. /\ mode \in Modes /\ mode.max_request \in Nat /\ MaxAvail \in Nat
      /\ state \in State /\ slot \in 0 .. BufferSize - 1
      /\ avail \in Nat /\ request \in Nat /\ committed \in Nat /\ ret \in Int
      /\ seen \in View /\ call \in CallType
  BY ModeTypes, MaxAvailBounds DEF IInv, Typed, Slots
<1>2. avail \in 0 .. MaxAvail /\ seen.avail \in 0 .. MaxAvail
      /\ call.avail \in 0 .. MaxAvail
  <2>1. avail <= MaxAvail /\ seen.avail <= MaxAvail /\ call.avail <= MaxAvail
    BY DEF TInv, Levels
  <2>2. seen.avail \in Nat /\ call.avail \in Nat
    BY <1>1 DEF View, CallType
  <2> HIDE DEF MaxAvail
  <2> QED BY ONLY <1>1, <2>1, <2>2
<1>3. seen \in [state : State, avail : 0 .. MaxAvail]
  BY <1>1, <1>2 DEF View
<1>4. pc \in {"idle", "entry", "prepare", "again", "start", "start_ioctl",
              "loop", "wait", "poll_error", "areas", "copy", "threshold",
              "rw", "rw_copy", "finish", "restart"}
  BY DEF IInv, Accounts, Fresh, Unmoved, Settled, Moving
<1> DEFINE Count == 0 .. mode.max_request
<1>5. /\ request \in Count /\ committed \in Count
      /\ ret \in -1 .. mode.max_request
      /\ call.frames \in Count /\ call.user_offset \in Count
      /\ call.count \in Count
  <2>1. /\ call.frames \in Nat /\ call.user_offset \in Nat /\ call.count \in Nat
    BY <1>1 DEF CallType
  <2>2. /\ call.frames <= request /\ call.user_offset <= request
        /\ call.count <= call.frames
        /\ request <= mode.max_request /\ committed <= mode.max_request
        /\ ret >= -1 /\ ret <= mode.max_request
    BY DEF TInv, Within
  <2> QED BY <1>1, <2>1, <2>2
<1>6. call \in [frames : Count, user_offset : Count, avail : 0 .. MaxAvail,
                state : State, count : Count]
  <2> HIDE DEF Count, MaxAvail
  <2> QED BY <1>1, <1>2, <1>5 DEF CallType
<1>7. errno \in Errno /\ uncounted \in -2 .. 2
  BY DEF TInv, Marks
<1> QED BY <1>1, <1>2, <1>3, <1>4, <1>5, <1>6, <1>7 DEF TypeOK

------------------------------------------------------------------------------
(* A call that returns a count moved exactly that many frames, whatever    *)
(* buffer, request and restarts it went through, unless the device was     *)
(* unplugged (pcm_generic_transfer, pcm_mmap_transfer, pcm_rw_transfer).   *)
THEOREM ReturnCountsFramesCorrect == Spec => []ReturnCountsFrames
<1>1. IInv => ReturnCountsFrames
  BY DEF IInv, Accounts, ReturnCountsFrames, Idle
<1> QED BY <1>1, Invariant, PTL

(* The avail the library keeps of an mmapped stream without mapped status  *)
(* never exceeds the kernel's (pcm_sync_ptr, pcm_mmap_avail).              *)
THEOREM SeenNeverAheadCorrect == Spec => []SeenNeverAhead
<1>1. IInv => SeenNeverAhead
  BY DEF IInv
<1> QED BY <1>1, Invariant, PTL
(* What keeps an undisturbed stream countable, whatever its flags.         *)
XInv == Shares /\ (Undisturbed => Calm /\ Counted)

LEMMA XInductive == IInv /\ Apart /\ XInv /\ [Next]_vars => XInv'
<1> SUFFICES ASSUME IInv, Apart, XInv, [Next]_vars PROVE XInv'
  OBVIOUS
<1>0. UNCHANGED mode /\ (Undisturbed' <=> Undisturbed)
  BY DEF Next, Library, Hardware, Client, Environment, vars, Undisturbed
<1>1. CASE Library
  BY <1>0, <1>1, SharesStep, CalmStep, CountedStep DEF XInv
<1>2. CASE Hardware
  <2>1. Shares'
    BY <1>2 DEF XInv, Hardware, Advance, callVars, Shares
  <2> QED BY <1>0, <1>2, <2>1, HardwareCalm, HardwareCounted DEF XInv
<1>3. CASE \E n \in 1 .. mode.max_request : Call(n)
  <2>1. PICK n \in 1 .. mode.max_request : Call(n)
    BY <1>3
  <2>2. n \in Nat /\ n >= 1
    BY ModeTypes DEF IInv, Typed
  <2> QED BY <1>0, <2>1, <2>2, CallCalm DEF XInv
<1>4. CASE Environment \/ ClientPrepare
  <2>1. ~Undisturbed
    BY <1>4 DEF Environment, WaitInterrupted, OtherStop, OtherStart, Suspend,
                Disconnect, ClientPrepare, Undisturbed
  <2>2. \/ pc' = "finish" /\ pc = "wait" /\ UNCHANGED request
        \/ UNCHANGED callVars
    BY <1>4 DEF Environment, WaitInterrupted, OtherStop, OtherStart, Suspend,
                Disconnect, ClientPrepare, Fail, Goto
  <2>3. Shares'
    BY <2>2 DEF XInv, Shares, Settled, callVars
  <2> QED BY <1>0, <2>1, <2>3 DEF XInv
<1>5. CASE UNCHANGED vars
  BY <1>5 DEF vars, XInv, Shares, Calm, Reachable, Room, Outcome, Counted,
              Undisturbed, SeenState, IsPlayback, IsNonblock, IsNoRestart
<1> QED BY <1>1, <1>2, <1>3, <1>4, <1>5 DEF Next, Client

(* An undisturbed stream that runs has every xrun it recovered from in     *)
(* pcm->xruns, and none is counted twice unless PCM_NORESTART leaves the   *)
(* stream stopped (the EPIPE case of pcm_generic_transfer), for every      *)
(* buffer, threshold, flag and request.                                    *)
THEOREM XrunsCountedOnceCorrect == Spec => []XrunsCountedOnce
<1>1. Init => XInv
  BY SharesHolds, CalmHolds, CountedHolds DEF XInv
<1>2. IInv /\ Apart /\ XInv /\ [Next]_vars => XInv'
  BY XInductive
<1>3. XInv => XrunsCountedOnce
  BY DEF XInv, Counted, XrunsCountedOnce
<1> QED BY <1>1, <1>2, <1>3, Invariant, PTL DEF Spec

(* No counter of a call ever leaves its range: no count exceeds its        *)
(* request, and avail never grows past a full buffer or the stop threshold *)
(* by more than one update of the hardware (pcm_mmap_transfer,             *)
(* pcm_rw_transfer), for every set of streams, buffer and request.         *)
THEOREM TypeCorrect == Spec => []TypeOK
<1>1. Init => TInv
  BY BoundsHold
<1>2. IInv /\ Apart /\ TInv /\ [Next]_vars => TInv'
  BY BoundsInductive
<1>3. IInv /\ TInv => TypeOK
  BY BoundsAreTypes
<1> QED BY <1>1, <1>2, <1>3, Invariant, PTL DEF Spec
==============================================================================
