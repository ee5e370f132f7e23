------------------------ MODULE PcmRingQueue_proofs -------------------------
(***************************************************************************)
(* The ring implements the frame queue, in both directions, for every      *)
(* buffer size, boundary and stop_threshold up to the buffer size, and     *)
(* what pcm_mmap_begin hands out is never torn.                            *)
(***************************************************************************)
EXTENDS MCPcmRing, PcmRing_proofs

USE DEF IsPlayback

------------------------------------------------------------------------------
(* Slots                                                                   *)

(* What a remainder is.                                                    *)
LEMMA Divides ==
  ASSUME NEW x \in Int, NEW N \in Nat \ {0}
  PROVE  \E q \in Int : x = q * N + (x % N) /\ (x % N) \in 0 .. N - 1
<1>1. x = (x \div N) * N + (x % N) /\ (x % N) \in 0 .. N - 1 /\ x \div N \in Int
  OBVIOUS
<1> QED BY <1>1

(* Only no multiple of N at all lies between -N and N.                     *)
LEMMA NoMultiple ==
  ASSUME NEW k \in Int, NEW N \in Nat \ {0}, k * N < N, -N < k * N
  PROVE  k = 0
<1>1. CASE k >= 1
  <2>1. k * N >= N
    BY <1>1
  <2> QED BY <2>1
<1>2. CASE k <= -1
  <2>1. k * N <= -N
    BY <1>2
  <2> QED BY <2>1
<1> QED BY <1>1, <1>2

(* Numbers a multiple of N apart have the same remainder.                  *)
LEMMA Congruent ==
  ASSUME NEW x \in Int, NEW y \in Int, NEW N \in Nat \ {0}, NEW k \in Int,
         x - y = k * N
  PROVE  (x % N) = (y % N)
<1>1. PICK p \in Int : x = p * N + (x % N) /\ (x % N) \in 0 .. N - 1
  BY Divides
<1>2. PICK q \in Int : y = q * N + (y % N) /\ (y % N) \in 0 .. N - 1
  BY Divides
<1> DEFINE r == (x % N)
           s == (y % N)
<1>3. r - s = (k - p + q) * N
  <2> HIDE DEF r, s
  <2>1. x = p * N + r /\ y = q * N + s /\ r \in Int /\ s \in Int
    BY <1>1, <1>2 DEF r, s
  <2>2. r - s = k * N - p * N + q * N
    BY <2>1
  <2>3. k * N - p * N + q * N = (k - p + q) * N
    OBVIOUS
  <2> QED BY <2>2, <2>3
<1>4. r \in 0 .. N-1 /\ s \in 0 .. N-1
  BY <1>1, <1>2
<1> HIDE DEF r, s
<1>5. k - p + q = 0
  BY <1>3, <1>4, NoMultiple
<1>6. r = s
  BY <1>3, <1>4, <1>5
<1> QED BY <1>6 DEF r, s

(* The slot of a position, counted from any pointer.                       *)
SlotOf(p) == p % BufferSize

LEMMA Positive == BufferSize \in Nat \ {0}
BY Constants DEF ConstantAssumptions

LEMMA SlotInside == ASSUME NEW p \in Int PROVE SlotOf(p) \in Slot
BY OffsetInside DEF SlotOf

LEMMA SlotItself == ASSUME NEW s \in Slot PROVE SlotOf(s) = s
BY Positive DEF SlotOf, Slot

LEMMA SlotInt == ASSUME NEW s \in Slot PROVE s \in Int /\ 0 <= s /\ s < BufferSize
BY Positive DEF Slot

LEMMA Turns ==
  ASSUME NEW p \in Int
  PROVE  \E q \in Int : p = q * BufferSize + SlotOf(p)
BY Positive, Divides DEF SlotOf

LEMMA TurnsApart ==
  ASSUME NEW p \in Int, NEW s \in Int, NEW q \in Int, p - s = q * BufferSize
  PROVE  SlotOf(p) = SlotOf(s)
BY Positive, Congruent DEF SlotOf

(* A turn around the boundary leads to the same slot, and one around the   *)
(* ring too.                                                               *)
LEMMA SameSlot ==
  ASSUME NEW p \in Int, NEW q \in Int,
         p - q \in {0, Boundary, -Boundary, BufferSize}
  PROVE  SlotOf(p) = SlotOf(q)
<1>1. Boundary \in Int
  BY Constants DEF ConstantAssumptions
<1>2. PICK t \in Int : Boundary = t * BufferSize
  <2>1. PICK t \in Int : Boundary = t * BufferSize + SlotOf(Boundary)
    BY <1>1, Turns
  <2>2. SlotOf(Boundary) = 0
    BY MultipleAssumption DEF SlotOf
  <2> QED BY <2>1, <2>2, Positive
<1>3. CASE p - q = 0
  <2>1. p - q = 0 * BufferSize
    BY <1>3, Positive
  <2> QED BY <2>1, TurnsApart
<1>4. CASE p - q = Boundary
  BY <1>2, <1>4, TurnsApart
<1>5. CASE p - q = -Boundary
  <2>1. q - p = Boundary
    BY <1>1, <1>5
  <2>2. SlotOf(q) = SlotOf(p)
    BY <1>2, <2>1, TurnsApart
  <2> QED BY <2>2
<1>6. CASE p - q = BufferSize
  <2>1. p - q = 1 * BufferSize
    BY <1>6, Positive
  <2> QED BY <2>1, TurnsApart
<1> QED BY <1>3, <1>4, <1>5, <1>6

(* The next slots after any pointer are different ones.                    *)
LEMMA Distinct ==
  ASSUME NEW p \in Int, NEW i \in Slot, NEW j \in Slot,
         SlotOf(p + i) = SlotOf(p + j)
  PROVE  i = j
<1> DEFINE r == SlotOf(p + i)
<1>1. i \in Int /\ j \in Int /\ i - j < BufferSize /\ -BufferSize < i - j
  BY Positive DEF Slot
<1>2. p + i \in Int /\ p + j \in Int
  BY <1>1
<1>3. PICK a \in Int : p + i = a * BufferSize + r
  BY <1>2, Turns
<1>4. PICK b \in Int : p + j = b * BufferSize + r
  BY <1>2, Turns
<1>5. r \in Int
  BY <1>2, SlotInside, SlotInt
<1> HIDE DEF r
<1>6. i - j = (a - b) * BufferSize
  <2>1. i - j = a * BufferSize - b * BufferSize
    BY <1>1, <1>3, <1>4, <1>5, Positive
  <2>2. a * BufferSize - b * BufferSize = (a - b) * BufferSize
    BY Positive
  <2> QED BY <2>1, <2>2
<1>7. a - b = 0
  BY <1>1, <1>6, Positive, NoMultiple
<1> QED BY <1>1, <1>6, <1>7, Positive

(* From one slot to another, the way round.                                *)
LEMMA WayTo ==
  ASSUME NEW p \in Int, NEW i \in Slot
  PROVE  SlotOf(SlotOf(p + i) - p) = i
<1> DEFINE s == SlotOf(p + i)
<1>1. i \in Int /\ p + i \in Int
  BY SlotInt
<1>2. PICK q \in Int : p + i = q * BufferSize + s
  BY <1>1, Turns
<1>3. s \in Int
  BY <1>1, SlotInside, SlotInt
<1> HIDE DEF s
<1>4. i - (s - p) = q * BufferSize /\ s - p \in Int
  BY <1>1, <1>2, <1>3, Positive
<1>5. SlotOf(i) = SlotOf(s - p)
  BY <1>1, <1>4, TurnsApart
<1> QED BY <1>5, SlotItself DEF s

(* A region that ends inside the ring does not wrap.                       *)
LEMMA NoWrap ==
  ASSUME NEW p \in Int, NEW j \in Nat, SlotOf(p) + j < BufferSize
  PROVE  SlotOf(p) + j = SlotOf(p + j)
<1> DEFINE s == SlotOf(p)
<1>1. PICK q \in Int : p = q * BufferSize + s
  BY Turns
<1>2. s \in Slot /\ s \in Int /\ 0 <= s
  BY SlotInside, SlotInt
<1>3. s + j < BufferSize
  OBVIOUS
<1> HIDE DEF s
<1>4. s + j \in Slot /\ s + j \in Int
  BY <1>2, <1>3, Positive DEF Slot
<1>5. (p + j) - (s + j) = q * BufferSize /\ p + j \in Int
  BY <1>1, <1>2, Positive
<1>6. SlotOf(p + j) = SlotOf(s + j)
  BY <1>4, <1>5, TurnsApart
<1> QED BY <1>4, <1>6, SlotItself DEF s

(* Moving a pointer by n frames and then by i leads to the slot n + i on.  *)
LEMMA ForwardSlot ==
  ASSUME NEW p \in Pointer, NEW n \in Nat, n <= Boundary, NEW i \in Int
  PROVE  /\ SlotOf(pcm_mmap_appl_forward(p, n) + i) = SlotOf(p + n + i)
         /\ SlotOf(HwForward(p, n) + i) = SlotOf(p + n + i)
<1> DEFINE f == pcm_mmap_appl_forward(p, n)
<1>1. f \in {p + n, p + n - Boundary} /\ HwForward(p, n) = f
  BY ForwardWraps
<1>2. Boundary \in Nat /\ p \in Nat
  BY Constants DEF ConstantAssumptions, Pointer
<1> HIDE DEF f
<1>3. (f + i) - (p + n + i) \in {0, -Boundary} /\ f + i \in Int /\ p + n + i \in Int
  BY <1>1, <1>2
<1>4. SlotOf(f + i) = SlotOf(p + n + i)
  BY <1>3, SameSlot
<1> QED BY <1>1, <1>4 DEF f

------------------------------------------------------------------------------
(* The invariant                                                           *)

Oldest == IF IsPlayback THEN hw_ptr ELSE appl_ptr
Put == IF IsPlayback THEN appl_total ELSE hw_total
Got == IF IsPlayback THEN hw_total ELSE appl_total

(* The frames under way are in the ring, in order from the tail on.        *)
Contents == \A i \in 0 .. Fill - 1 : ring[SlotOf(Oldest + i)] = Got + i

(* n places of f from one on hold consecutive frames.                      *)
Numbered(f, from, n, first) == \A j \in 0 .. n - 1 : f[from + j] = first + j

(* What the caller's buffer and the region hold at each place of a call.   *)
AtHead == Copying => pcm_offset = SlotOf(appl_ptr)
ToPlay ==
  IsPlayback /\ pc \in {"test", "begin", "copy", "commit"} =>
    Numbered(buf, offset, size, appl_total)
ToPlayDirect ==
  IsPlayback /\ pc = "direct" => Numbered(buf, 0, frames, appl_total)
Copied ==
  IsPlayback /\ pc = "commit" => Numbered(ring, pcm_offset, frames, appl_total)
Captured ==
  ~IsPlayback /\ pc = "commit" /\ ~broken =>
    Numbered(buf, offset, frames, appl_total)
Progress ==
  /\ ~broken /\ pc = "begin" => size >= 1 /\ ExactAvail >= 1
  /\ ~broken /\ pc \in {"copy", "commit"} => frames >= 1

InCall == AtHead /\ ToPlay /\ ToPlayDirect /\ Copied /\ Captured /\ Progress

Unbroken == state \in {"PREPARED", "RUNNING"} => ~broken

QInv ==
  /\ ~broken => Contents
  /\ InCall
  /\ Unbroken

NoLate == StopThreshold <= BufferSize

LEMMA Bounds ==
  ASSUME IInv, NoLate
  PROVE  /\ BufferSize \in Nat \ {0} /\ Boundary \in Nat
         /\ hw_ptr \in Pointer /\ appl_ptr \in Pointer
         /\ hw_ptr \in Nat /\ appl_ptr \in Nat
         /\ hw_total \in Nat /\ appl_total \in Nat /\ Fill \in Int
         /\ ~broken => Fill \in 0 .. BufferSize
         /\ ExactAvail = IF IsPlayback THEN BufferSize - Fill ELSE Fill
         /\ IsPlayback => Fill = appl_total - hw_total
         /\ ~IsPlayback => Fill = hw_total - appl_total
         /\ Put = Got + Fill
         /\ offset \in Nat /\ size \in Nat /\ frames \in Nat
         /\ pcm_offset \in Slot /\ pcm_offset \in Nat
         /\ direction \in {"PCM_OUT", "PCM_IN"}
BY Constants DEF ConstantAssumptions, IInv, TypeOK, AvailBounds, ExactAvail,
                 NoLate, Fill, Pointer, Put, Got, Slot, Direction

(* The head of the queue is Fill frames after its tail.                    *)
LEMMA HeadSlot ==
  ASSUME IInv, NoLate, NEW j \in Int
  PROVE  SlotOf(appl_ptr + j) = SlotOf(hw_ptr + (appl_total - hw_total) + j)
<1>1. (appl_ptr + j) - (hw_ptr + (appl_total - hw_total) + j)
        \in {0, Boundary, -Boundary}
  BY Bounds DEF IInv, PointersMatch
<1>2. /\ appl_ptr + j \in Int
      /\ hw_ptr + (appl_total - hw_total) + j \in Int
  BY Bounds
<1> QED BY <1>1, <1>2, SameSlot

(* The region handed out is the next slots of the application.             *)
LEMMA RegionSlots ==
  ASSUME IInv, NoLate, QInv, Copying, NEW j \in 0 .. frames - 1
  PROVE  /\ pcm_offset + j = SlotOf(appl_ptr + j)
         /\ pcm_offset + j \in Slot
<1>1. pcm_offset = SlotOf(appl_ptr)
  BY DEF QInv, InCall, AtHead, Progress
<1>2. /\ pcm_offset + j < BufferSize
      /\ j \in Nat /\ appl_ptr \in Int /\ pcm_offset \in Nat
      /\ BufferSize \in Nat
  BY Bounds DEF IInv, RegionInv
<1>3. SlotOf(appl_ptr) + j = SlotOf(appl_ptr + j)
  BY <1>1, <1>2, NoWrap
<1> QED BY <1>1, <1>2, <1>3 DEF Slot

(* For playback none of them holds a frame that is still to be played.     *)
LEMMA RegionFree ==
  ASSUME IInv, NoLate, QInv, Copying, IsPlayback, ~broken,
         NEW j \in 0 .. frames - 1, NEW i \in 0 .. Fill - 1
  PROVE  SlotOf(hw_ptr + i) # pcm_offset + j
<1>1. pcm_offset + j = SlotOf(hw_ptr + (Fill + j))
  <2>1. j \in Int
    BY Bounds
  <2>2. SlotOf(appl_ptr + j) = SlotOf(hw_ptr + (appl_total - hw_total) + j)
    BY <2>1, HeadSlot
  <2>3. hw_ptr + (appl_total - hw_total) + j = hw_ptr + (Fill + j)
    BY <2>1, Bounds
  <2> QED BY <2>2, <2>3, RegionSlots
<1>2. /\ i \in Slot /\ Fill + j \in Slot /\ i # Fill + j /\ hw_ptr \in Int
  <2>1. frames <= BufferSize - Fill
    BY Bounds DEF IInv, RegionInv
  <2> QED BY <2>1, Bounds DEF Slot
<1> QED BY <1>1, <1>2, Distinct

------------------------------------------------------------------------------
(* Taking frames out, and putting frames in                                *)

(* n frames less from the tail.                                            *)
LEMMA Taken ==
  ASSUME IInv, NoLate, Contents, NEW n \in Nat, n <= Fill, n <= Boundary,
         NEW t, t \in {pcm_mmap_appl_forward(Oldest, n), HwForward(Oldest, n)},
         UNCHANGED ring, Fill' = Fill - n, Got' = Got + n, Oldest' = t
  PROVE  Contents'
<1>1. Oldest \in Pointer /\ Got \in Nat /\ Fill \in Int
  BY Bounds DEF Oldest, Got
<1>2. ASSUME NEW i \in 0 .. Fill - n - 1
      PROVE  ring[SlotOf(t + i)] = Got + n + i
  <2>1. i \in Int /\ n + i \in 0 .. Fill - 1
    BY <1>1
  <2>2. SlotOf(t + i) = SlotOf(Oldest + n + i)
    BY <1>1, <2>1, ForwardSlot
  <2>3. Oldest + n + i = Oldest + (n + i) /\ Got + n + i = Got + (n + i)
    BY <1>1, <2>1 DEF Pointer
  <2>4. ring[SlotOf(Oldest + (n + i))] = Got + (n + i)
    BY <2>1 DEF Contents
  <2> QED BY <2>2, <2>3, <2>4
<1>3. Contents' <=> \A i \in 0 .. Fill' - 1 : ring[SlotOf(t + i)] = Got' + i
  BY DEF Contents
<1> QED BY <1>2, <1>3

(* n frames more at the head, where the ring already holds them.           *)
LEMMA Added ==
  ASSUME IInv, NoLate, NEW n \in Nat, Fill + n <= BufferSize, ~broken,
         Fill' = Fill + n, Got' = Got, Oldest' = Oldest,
         \A i \in 0 .. Fill - 1 : ring'[SlotOf(Oldest + i)] = Got + i,
         \A j \in 0 .. n - 1 :
           ring'[SlotOf(Oldest + (Fill + j))] = Got + (Fill + j)
  PROVE  Contents'
<1>1. Fill \in Nat /\ BufferSize \in Nat
  BY Bounds
<1>2. ASSUME NEW i \in 0 .. Fill + n - 1
      PROVE  ring'[SlotOf(Oldest + i)] = Got + i
  <2>1. CASE i < Fill
    BY <1>1, <2>1
  <2>2. CASE i >= Fill
    <3>1. i - Fill \in 0 .. n - 1 /\ Fill + (i - Fill) = i
      BY <1>1, <2>2
    <3> QED BY <3>1
  <2> QED BY <1>1, <2>1, <2>2
<1>3. ASSUME NEW i \in 0 .. Fill' - 1
      PROVE  ring'[SlotOf(Oldest' + i)] = Got' + i
  <2>1. i \in 0 .. Fill + n - 1
    BY <1>1
  <2> QED BY <1>2, <2>1
<1> QED BY <1>3 DEF Contents

------------------------------------------------------------------------------
(* The steps                                                               *)

Step ==
  \/ UNCHANGED <<Put, Got, delivered, broken>>
  \/ /\ ~broken
     /\ \/ \E n \in 1 .. BufferSize :
             \/ /\ Put - Got + n <= BufferSize
                /\ Put' = Put + n
                /\ UNCHANGED <<Got, delivered, broken>>
             \/ /\ n <= Put - Got
                /\ Got' = Got + n
                /\ delivered' = [i \in 1 .. n |-> Got + i - 1]
                /\ UNCHANGED <<Put, broken>>
        \/ /\ Got' = Put' /\ Put' >= Put
           /\ UNCHANGED <<delivered, broken>>
  \/ broken'
  \/ broken /\ ~broken' /\ Got' = Put'

(* A step of the application that neither commits nor copies.              *)
Steady == UNCHANGED <<direction, kernelVars, appl_ptr, ring, appl_total,
                      delivered>>

LEMMA SteadyStep ==
  ASSUME Steady
  PROVE  /\ Contents' <=> Contents
         /\ Unbroken' <=> Unbroken
         /\ ExactAvail' = ExactAvail /\ broken' = broken
         /\ Step
<1>1. /\ UNCHANGED <<direction, state, hw_ptr, hw_total, broken, appl_ptr,
                     ring, appl_total, delivered>>
  BY DEF Steady, kernelVars
<1>2. UNCHANGED <<Fill, ExactAvail, Oldest, Put, Got>>
  BY <1>1 DEF ExactAvail, Fill, Oldest, Put, Got
<1>3. Contents' <=> Contents
  BY <1>1, <1>2 DEF Contents
<1>4. Unbroken' <=> Unbroken
  BY <1>1 DEF Unbroken
<1> QED BY <1>1, <1>2, <1>3, <1>4 DEF Step

LEMMA CallQueue ==
  ASSUME IInv, NoLate, QInv, UNCHANGED direction,
         NEW n \in 1 .. MaxRequest, Call(n)
  PROVE  QInv' /\ Step
<1>1. Steady
  BY DEF Steady, Call
<1>2. InCall'
  <2>1. /\ pc' = "test" /\ offset' = 0 /\ size' = n /\ buf' = CallerBuffer(n)
        /\ UNCHANGED <<direction, appl_total>>
    BY DEF Call
  <2>2. ASSUME IsPlayback, NEW j \in 0 .. n - 1
        PROVE  buf'[0 + j] = appl_total + j
    BY <2>1, <2>2, Constants DEF CallerBuffer, ConstantAssumptions
  <2>3. IsPlayback => Numbered(buf', 0, n, appl_total)
    BY <2>2 DEF Numbered
  <2>4. ToPlay'
    BY <2>1, <2>3 DEF ToPlay
  <2>5. AtHead' /\ ToPlayDirect' /\ Copied' /\ Captured' /\ Progress'
    BY <2>1 DEF AtHead, ToPlayDirect, Copied, Captured, Progress, Copying
  <2> QED BY <2>4, <2>5 DEF InCall
<1> QED BY <1>1, <1>2, SteadyStep DEF QInv

LEMMA TestQueue ==
  ASSUME IInv, NoLate, QInv, UNCHANGED direction, TransferTest
  PROVE  QInv' /\ Step
<1>1. Steady
  BY DEF Steady, TransferTest
<1>2. InCall'
  <2>1. /\ pc = "test" /\ pc' \in {"begin", "idle"}
        /\ pc' = "begin" => avail # 0 /\ size # 0
        /\ UNCHANGED <<direction, buf, offset, size, appl_total>>
    BY DEF TransferTest
  <2>2. avail = ExactAvail /\ avail \in Nat
    BY AvailIsExact DEF IInv
  <2>3. pc' = "begin" => size >= 1 /\ ExactAvail >= 1
    BY <2>1, <2>2, Bounds
  <2>4. ExactAvail' = ExactAvail
    BY <1>1, SteadyStep
  <2>5. ToPlay'
    BY <2>1 DEF QInv, InCall, ToPlay
  <2>6. Progress'
    BY <2>1, <2>3, <2>4 DEF Progress
  <2>7. AtHead' /\ ToPlayDirect' /\ Copied' /\ Captured'
    BY <2>1 DEF AtHead, ToPlayDirect, Copied, Captured, Copying
  <2> QED BY <2>5, <2>6, <2>7 DEF InCall
<1> QED BY <1>1, <1>2, SteadyStep DEF QInv

(* Something is handed out, if something is asked for and available.       *)
LEMMA BeginSome ==
  ASSUME NEW h \in Pointer, NEW a \in Pointer, NEW n \in Nat, n >= 1,
         pcm_mmap_avail(direction, h, a) \in Nat,
         pcm_mmap_avail(direction, h, a) >= 1
  PROVE  BeginFrames(direction, h, a, n) >= 1
<1> DEFINE av == pcm_mmap_avail(direction, h, a)
           m == Min({av, BufferSize})
           cont == BufferSize - BeginOffset(a)
<1>1. BufferSize \in Nat \ {0}
  BY Positive
<1>2. m \in Int /\ m >= 1
  <2> HIDE DEF av
  <2>1. av \in Int /\ av >= 1
    BY DEF av
  <2>2. Min({av, BufferSize}) \in {av, BufferSize}
    <3>1. av \in Int /\ BufferSize \in Int
      BY <1>1, <2>1
    <3> QED BY <3>1, MinOfTwo, Zenon
  <2> QED BY <1>1, <2>1, <2>2
<1>3. cont \in Int /\ cont >= 1
  BY <1>1, OffsetInside DEF BeginOffset, Pointer, Slot
<1>4. BeginFrames(direction, h, a, n) = Min({n, m, cont})
  BY DEF BeginFrames
<1> HIDE DEF m, cont
<1>5. Min({n, m, cont}) \in {n, m, cont}
  <2>1. n \in Int
    OBVIOUS
  <2> QED BY <1>2, <1>3, <2>1, MinOfThree, Zenon
<1> QED BY <1>2, <1>3, <1>4, <1>5

LEMMA BeginQueue ==
  ASSUME IInv, NoLate, QInv, UNCHANGED direction, TransferBegin
  PROVE  QInv' /\ Step
<1>1. Steady
  BY DEF Steady, TransferBegin
<1>2. InCall'
  <2>1. /\ pc = "begin" /\ pc' = "copy"
        /\ pcm_offset' = SlotOf(appl_ptr)
        /\ frames' = BeginFrames(direction, hw_ptr, appl_ptr, size)
        /\ UNCHANGED <<direction, appl_ptr, buf, offset, size, appl_total,
                       broken>>
    BY DEF TransferBegin, pcm_mmap_begin, BeginOffset, SlotOf, kernelVars
  <2>2. pcm_mmap_avail(direction, hw_ptr, appl_ptr) = ExactAvail
        /\ pcm_mmap_avail(direction, hw_ptr, appl_ptr) \in Nat
    BY AvailIsExact DEF IInv, avail
  <2>3. ~broken => size >= 1 /\ ExactAvail >= 1
    BY <2>1 DEF QInv, InCall, Progress
  <2>4. ~broken => frames' >= 1
    BY <2>1, <2>2, <2>3, BeginSome, Bounds
  <2>5. ToPlay'
    BY <2>1 DEF QInv, InCall, ToPlay
  <2>6. AtHead' /\ ToPlayDirect' /\ Copied' /\ Captured' /\ Progress'
    BY <2>1, <2>4
       DEF AtHead, ToPlayDirect, Copied, Captured, Progress, Copying
  <2> QED BY <2>5, <2>6 DEF InCall
<1> QED BY <1>1, <1>2, SteadyStep DEF QInv

LEMMA DirectBeginQueue ==
  ASSUME IInv, NoLate, QInv, UNCHANGED direction,
         NEW n \in 1 .. MaxRequest, DirectBegin(n)
  PROVE  QInv' /\ Step
<1>1. Steady
  BY DEF Steady, DirectBegin
<1>2. InCall'
  <2>1. /\ pc' = "direct" /\ buf' = CallerBuffer(n)
        /\ pcm_offset' = SlotOf(appl_ptr)
        /\ frames' = BeginFrames(direction, hw_ptr, appl_ptr, n)
        /\ UNCHANGED <<direction, appl_ptr, appl_total>>
    BY DEF DirectBegin, pcm_mmap_begin, BeginOffset, SlotOf
  <2>2. frames' <= n /\ frames' \in Nat
    <3>1. pcm_mmap_avail(direction, hw_ptr, appl_ptr) \in Nat
      BY AvailIsExact DEF IInv, avail
    <3>2. n \in Nat
      BY Constants DEF ConstantAssumptions
    <3> QED BY <2>1, <3>1, <3>2, Bounds, BeginBounds
  <2>3. ASSUME IsPlayback, NEW j \in 0 .. frames' - 1
        PROVE  buf'[j] = appl_total + j
    <3>1. MaxRequest \in Nat
      BY Constants DEF ConstantAssumptions
    <3> DEFINE f == frames'
    <3>2. f \in Nat /\ f <= n /\ j \in 0 .. f - 1
      BY <2>2
    <3> HIDE DEF f
    <3>3. j < n /\ j \in 0 .. MaxRequest - 1
      BY <3>1, <3>2
    <3> QED BY <2>1, <2>3, <3>3 DEF CallerBuffer
  <2>4. IsPlayback => Numbered(buf', 0, frames', appl_total)
    <3>1. ASSUME IsPlayback, NEW j \in 0 .. frames' - 1
          PROVE  buf'[0 + j] = appl_total + j
      <4>1. 0 + j = j
        BY <2>2
      <4> QED BY <2>3, <3>1, <4>1
    <3> QED BY <3>1 DEF Numbered
  <2>5. ToPlayDirect'
    BY <2>1, <2>4 DEF ToPlayDirect
  <2>6. AtHead' /\ ToPlay' /\ Copied' /\ Captured' /\ Progress'
    BY <2>1 DEF AtHead, ToPlay, Copied, Captured, Progress, Copying
  <2> QED BY <2>5, <2>6 DEF InCall
<1> QED BY <1>1, <1>2, SteadyStep DEF QInv

(* Frames written to the region leave those under way alone.               *)
LEMMA RegionWritten ==
  ASSUME IInv, NoLate, QInv, Copying, IsPlayback, ~broken,
         NEW n \in 0 .. frames, NEW src \in Nat,
         ring' = [s \in Slot |-> IF s \in pcm_offset .. pcm_offset + n - 1
                                 THEN buf[src + s - pcm_offset] ELSE ring[s]]
  PROVE  \A i \in 0 .. Fill - 1 : ring'[SlotOf(Oldest + i)] = Got + i
<1> TAKE i \in 0 .. Fill - 1
<1> DEFINE s == SlotOf(hw_ptr + i)
<1>1. i \in Int /\ hw_ptr + i \in Int
  BY Bounds
<1>2. s \in Slot
  BY <1>1, SlotInside
<1>3. s \notin pcm_offset .. pcm_offset + n - 1
  <2> SUFFICES ASSUME s \in pcm_offset .. pcm_offset + n - 1 PROVE FALSE
    OBVIOUS
  <2>1. s \in Int
    BY <1>2, SlotInt
  <2>2. /\ s - pcm_offset \in 0 .. frames - 1
        /\ pcm_offset + (s - pcm_offset) = s
    <3> HIDE DEF s
    <3> QED BY <2>1, Bounds
  <2> QED BY <2>2, RegionFree
<1>4. ring[s] = Got + i
  BY DEF QInv, Contents, Oldest
<1> HIDE DEF s
<1>5. ring'[s] = ring[s]
  BY <1>2, <1>3
<1> QED BY <1>4, <1>5 DEF s, Oldest

(* And the region then holds what was written.                             *)
LEMMA RegionHolds ==
  ASSUME IInv, NoLate, QInv, Copying, IsPlayback,
         NEW n \in 0 .. frames, NEW src \in Nat,
         ring' = [s \in Slot |-> IF s \in pcm_offset .. pcm_offset + n - 1
                                 THEN buf[src + s - pcm_offset] ELSE ring[s]],
         Numbered(buf, src, n, appl_total)
  PROVE  Numbered(ring', pcm_offset, n, appl_total)
<1> SUFFICES ASSUME NEW j \in 0 .. n - 1
             PROVE  ring'[pcm_offset + j] = appl_total + j
  BY DEF Numbered
<1>1. j \in 0 .. frames - 1 /\ j \in Int /\ pcm_offset \in Int
  BY Bounds
<1>2. pcm_offset + j \in Slot
  BY <1>1, RegionSlots
<1>3. /\ pcm_offset + j \in pcm_offset .. pcm_offset + n - 1
      /\ src + (pcm_offset + j) - pcm_offset = src + j
  BY <1>1
<1>4. buf[src + j] = appl_total + j
  BY DEF Numbered
<1> QED BY <1>2, <1>3, <1>4

(* Frames read from the region are the next ones.                          *)
LEMMA RegionRead ==
  ASSUME IInv, NoLate, QInv, Copying, ~IsPlayback, ~broken,
         NEW j \in 0 .. frames - 1
  PROVE  ring[pcm_offset + j] = appl_total + j
<1>1. j \in 0 .. Fill - 1
  BY Bounds DEF IInv, RegionInv
<1>2. ring[SlotOf(appl_ptr + j)] = appl_total + j
  BY <1>1 DEF QInv, Contents, Oldest, Got
<1> QED BY <1>2, RegionSlots

LEMMA CopyQueue ==
  ASSUME IInv, NoLate, QInv, UNCHANGED direction, TransferCopy
  PROVE  QInv' /\ Step
<1>1. /\ pc = "copy" /\ pc' = "commit" /\ Copying
      /\ pcm_areas_copy(pcm_offset, offset, frames)
      /\ UNCHANGED <<direction, state, hw_ptr, hw_total, broken, appl_ptr,
                     offset, size, pcm_offset, frames, appl_total, delivered>>
  BY DEF TransferCopy, kernelVars, Copying
<1>2. frames \in 0 .. frames /\ offset \in Nat
  BY Bounds
<1>3. UNCHANGED <<Put, Got, Oldest, Fill, ExactAvail>>
  BY <1>1 DEF Put, Got, Oldest, Fill, ExactAvail
<1>4. Step
  BY <1>1, <1>3 DEF Step
<1>5. frames <= size
  BY <1>1 DEF IInv, CallInv
<1>6. Unbroken' /\ AtHead' /\ ToPlayDirect' /\ Progress'
  BY <1>1 DEF QInv, InCall, Unbroken, AtHead, ToPlayDirect, Progress, Copying
<1>7. CASE IsPlayback
  <2>1. /\ ring' = [s \in Slot |->
              IF s \in pcm_offset .. pcm_offset + frames - 1
              THEN buf[offset + s - pcm_offset] ELSE ring[s]]
        /\ UNCHANGED buf
    BY <1>1, <1>7 DEF pcm_areas_copy
  <2>2. Numbered(buf, offset, size, appl_total)
    BY <1>1, <1>7 DEF QInv, InCall, ToPlay
  <2>3. Numbered(buf, offset, frames, appl_total)
    BY <1>5, <2>2, Bounds DEF Numbered
  <2>4. Numbered(ring', pcm_offset, frames, appl_total)
    BY <1>1, <1>2, <1>7, <2>1, <2>3, RegionHolds
  <2>5. ToPlay' /\ Copied' /\ Captured'
    BY <1>1, <1>7, <2>1, <2>2, <2>4 DEF ToPlay, Copied, Captured
  <2>6. ~broken' => Contents'
    <3>1. ASSUME ~broken
          PROVE  \A i \in 0 .. Fill - 1 : ring'[SlotOf(Oldest + i)] = Got + i
      BY <1>1, <1>2, <1>7, <2>1, <3>1, RegionWritten
    <3> QED BY <1>1, <1>3, <3>1 DEF Contents
  <2> QED BY <1>4, <1>6, <2>5, <2>6 DEF QInv, InCall
<1>8. CASE ~IsPlayback
  <2>1. /\ buf' = [i \in DOMAIN buf |->
              IF i \in offset .. offset + frames - 1
              THEN ring[pcm_offset + i - offset] ELSE buf[i]]
        /\ UNCHANGED ring
    BY <1>1, <1>8 DEF pcm_areas_copy
  <2>2. ~broken => Numbered(buf', offset, frames, appl_total)
    <3>1. ASSUME ~broken, NEW j \in 0 .. frames - 1
          PROVE  buf'[offset + j] = appl_total + j
      <4>1. /\ offset + j \in DOMAIN buf
            /\ offset + j \in offset .. offset + frames - 1
            /\ pcm_offset + (offset + j) - offset = pcm_offset + j
        <5>1. offset + size <= MaxRequest /\ MaxRequest \in Nat
          BY <1>1, Constants DEF IInv, CallInv, ConstantAssumptions
        <5>2. DOMAIN buf = 0 .. MaxRequest - 1
          BY DEF IInv, TypeOK
        <5>3. offset + j \in 0 .. MaxRequest - 1
          BY <1>5, <5>1, Bounds
        <5>4. j \in Int /\ 0 <= j /\ j <= frames - 1
          BY Bounds
        <5>5. offset + j \in offset .. offset + frames - 1
              /\ pcm_offset + (offset + j) - offset = pcm_offset + j
          BY <5>4, Bounds
        <5> QED BY <5>2, <5>3, <5>5
      <4>2. ring[pcm_offset + j] = appl_total + j
        BY <1>1, <1>8, <3>1, RegionRead
      <4> QED BY <2>1, <4>1, <4>2
    <3> QED BY <3>1 DEF Numbered
  <2>3. ToPlay' /\ Copied' /\ Captured'
    BY <1>1, <1>8, <2>2 DEF ToPlay, Copied, Captured
  <2>4. ~broken' => Contents'
    BY <1>1, <1>3, <2>1 DEF QInv, Contents
  <2> QED BY <1>4, <1>6, <2>3, <2>4 DEF QInv, InCall
<1> QED BY <1>7, <1>8

LEMMA PutHolds ==
  ASSUME IInv, NoLate, QInv, Copying, IsPlayback, ~broken,
         NEW n \in 0 .. frames, pcm_mmap_commit(n),
         UNCHANGED <<direction, kernelVars>>,
         \A i \in 0 .. Fill - 1 : ring'[SlotOf(Oldest + i)] = Got + i,
         Numbered(ring', pcm_offset, n, appl_total)
  PROVE  /\ Contents'
         /\ Put - Got + n <= BufferSize
         /\ Put' = Put + n /\ Got' = Got
<1>1. /\ appl_total' = appl_total + n
      /\ UNCHANGED <<direction, hw_ptr, hw_total, broken>>
  BY DEF pcm_mmap_commit, kernelVars
<1>2. n \in Nat /\ n <= frames /\ n <= BufferSize - Fill
  BY Bounds DEF IInv, RegionInv
<1>3. Put' = Put + n /\ Got' = Got /\ Oldest' = Oldest /\ Fill' = Fill + n
  BY <1>1, <1>2, Bounds DEF Put, Got, Oldest, Fill
<1>4. Fill + n <= BufferSize /\ Put - Got + n <= BufferSize
  BY <1>2, Bounds DEF Put, Got
<1>5. ASSUME NEW j \in 0 .. n - 1
      PROVE  ring'[SlotOf(Oldest + (Fill + j))] = Got + (Fill + j)
  <2>1. j \in 0 .. frames - 1 /\ j \in Int
    BY <1>2, Bounds
  <2>2. pcm_offset + j = SlotOf(appl_ptr + j)
    BY <2>1, RegionSlots
  <2>3. SlotOf(appl_ptr + j) = SlotOf(hw_ptr + (appl_total - hw_total) + j)
    BY <2>1, HeadSlot
  <2>4. hw_ptr + (appl_total - hw_total) + j = Oldest + (Fill + j)
    BY <2>1, Bounds DEF Oldest
  <2>5. appl_total + j = Got + (Fill + j)
    BY <2>1, Bounds DEF Got
  <2>6. ring'[pcm_offset + j] = appl_total + j
    BY DEF Numbered
  <2> QED BY <2>2, <2>3, <2>4, <2>5, <2>6
<1>6. Contents'
  BY <1>2, <1>3, <1>4, <1>5, Added
<1> QED BY <1>3, <1>4, <1>6

LEMMA GetHolds ==
  ASSUME IInv, NoLate, QInv, Copying, ~IsPlayback, ~broken,
         NEW n \in 0 .. frames, pcm_mmap_commit(n),
         UNCHANGED <<direction, kernelVars, ring>>
  PROVE  /\ Contents'
         /\ n <= Put - Got
         /\ Got' = Got + n /\ Put' = Put
<1>1. /\ appl_total' = appl_total + n
      /\ appl_ptr' = pcm_mmap_appl_forward(appl_ptr, n)
      /\ UNCHANGED <<direction, hw_ptr, hw_total, broken>>
  BY DEF pcm_mmap_commit, kernelVars
<1>2. n \in Nat /\ n <= Fill /\ n <= Boundary
  BY Constants, Bounds DEF IInv, RegionInv, ConstantAssumptions
<1>3. Put' = Put /\ Got' = Got + n /\ Fill' = Fill - n
  BY <1>1, <1>2, Bounds DEF Put, Got, Fill
<1>4. Oldest' = pcm_mmap_appl_forward(Oldest, n)
  BY <1>1 DEF Oldest
<1>5. Contents
  BY DEF QInv
<1>6. Contents'
  BY <1>2, <1>3, <1>4, <1>5, Taken
<1> QED BY <1>2, <1>3, <1>6, Bounds DEF Put, Got

LEMMA CommitQueue ==
  ASSUME IInv, NoLate, QInv, UNCHANGED direction, TransferCommit
  PROVE  QInv' /\ Step
<1>1. /\ pc = "commit" /\ pc' = "test" /\ Copying
      /\ pcm_mmap_commit(frames)
      /\ offset' = offset + frames /\ size' = size - frames
      /\ appl_total' = appl_total + frames
      /\ UNCHANGED <<direction, kernelVars, ring, buf>>
      /\ UNCHANGED <<state, broken>>
  BY DEF TransferCommit, kernelVars, Copying, pcm_mmap_commit
<1>2. frames \in 0 .. frames /\ frames <= size /\ frames \in 0 .. BufferSize
  BY <1>1, Bounds DEF IInv, CallInv, TypeOK
<1>3. InCall' /\ Unbroken'
  <2>1. ASSUME IsPlayback PROVE Numbered(buf, offset', size', appl_total')
    <3>1. Numbered(buf, offset, size, appl_total)
      BY <1>1, <2>1 DEF QInv, InCall, ToPlay
    <3>2. ASSUME NEW j \in 0 .. size - frames - 1
          PROVE  buf[(offset + frames) + j] = (appl_total + frames) + j
      <4>1. /\ frames + j \in 0 .. size - 1
            /\ offset + (frames + j) = (offset + frames) + j
            /\ appl_total + (frames + j) = (appl_total + frames) + j
        BY <1>2, Bounds
      <4>2. buf[offset + (frames + j)] = appl_total + (frames + j)
        BY <3>1, <4>1 DEF Numbered
      <4> QED BY <4>1, <4>2
    <3> QED BY <1>1, <3>2 DEF Numbered
  <2>2. ToPlay'
    BY <1>1, <2>1 DEF ToPlay
  <2>3. AtHead' /\ ToPlayDirect' /\ Copied' /\ Captured' /\ Progress'
    BY <1>1 DEF AtHead, ToPlayDirect, Copied, Captured, Progress, Copying
  <2> QED BY <1>1, <2>2, <2>3 DEF InCall, QInv, Unbroken
<1>4. CASE broken
  BY <1>1, <1>3, <1>4 DEF QInv, Step
<1>5. CASE ~broken /\ IsPlayback
  <2>1. Numbered(ring, pcm_offset, frames, appl_total)
    BY <1>1, <1>5 DEF QInv, InCall, Copied
  <2>2. \A i \in 0 .. Fill - 1 : ring[SlotOf(Oldest + i)] = Got + i
    BY <1>5 DEF QInv, Contents
  <2>3. /\ Contents' /\ Put - Got + frames <= BufferSize
        /\ Put' = Put + frames /\ Got' = Got
    BY <1>1, <1>2, <1>5, <2>1, <2>2, PutHolds
  <2>4. delivered' = delivered
    BY <1>5 DEF TransferCommit
  <2>5. frames \in 1 .. BufferSize
    BY <1>1, <1>2, <1>5 DEF QInv, InCall, Progress
  <2>6. Step
    BY <1>1, <1>5, <2>3, <2>4, <2>5 DEF Step
  <2> QED BY <1>3, <2>3, <2>6 DEF QInv
<1>6. CASE ~broken /\ ~IsPlayback
  <2>1. /\ Contents' /\ frames <= Put - Got
        /\ Got' = Got + frames /\ Put' = Put
    BY <1>1, <1>2, <1>6, GetHolds
  <2>2. frames \in 1 .. BufferSize
    BY <1>1, <1>2, <1>6 DEF QInv, InCall, Progress
  <2>3. delivered' = [i \in 1 .. frames |-> Got + i - 1]
    <3>1. delivered' = [i \in 1 .. frames |-> buf[offset + i - 1]]
      BY <1>6 DEF TransferCommit
    <3>2. Numbered(buf, offset, frames, appl_total)
      BY <1>1, <1>6 DEF QInv, InCall, Captured
    <3>3. ASSUME NEW i \in 1 .. frames
          PROVE  buf[offset + i - 1] = Got + i - 1
      <4>1. /\ i - 1 \in 0 .. frames - 1
            /\ offset + (i - 1) = offset + i - 1
            /\ appl_total + (i - 1) = appl_total + i - 1
        BY Bounds
      <4>2. buf[offset + (i - 1)] = appl_total + (i - 1)
        BY <3>2, <4>1 DEF Numbered
      <4> QED BY <1>6, <4>1, <4>2 DEF Got
    <3> QED BY <3>1, <3>3
  <2>4. Step
    BY <1>1, <1>6, <2>1, <2>2, <2>3 DEF Step
  <2> QED BY <1>3, <2>1, <2>4 DEF QInv
<1> QED BY <1>4, <1>5, <1>6

LEMMA DirectCommitQueue ==
  ASSUME IInv, NoLate, QInv, UNCHANGED direction,
         NEW n \in 0 .. MaxRequest, DirectCommit(n)
  PROVE  QInv' /\ Step
<1>1. /\ pc = "direct" /\ pc' = "idle" /\ Copying
      /\ n <= frames /\ pcm_areas_copy(pcm_offset, 0, n)
      /\ pcm_mmap_commit(n)
      /\ UNCHANGED <<direction, kernelVars>>
      /\ UNCHANGED <<state, broken>>
  BY DEF DirectCommit, kernelVars, Copying
<1>2. n \in 0 .. frames /\ frames \in 0 .. BufferSize /\ n \in 0 .. BufferSize
  BY <1>1, Bounds, Constants DEF IInv, TypeOK, ConstantAssumptions
<1>3. InCall' /\ Unbroken'
  BY <1>1 DEF QInv, InCall, AtHead, ToPlay, ToPlayDirect, Copied, Captured,
              Progress, Copying, Unbroken
<1>4. CASE broken
  BY <1>1, <1>3, <1>4 DEF QInv, Step
<1>5. CASE ~broken /\ IsPlayback
  <2>1. ring' = [s \in Slot |-> IF s \in pcm_offset .. pcm_offset + n - 1
                                THEN buf[0 + s - pcm_offset] ELSE ring[s]]
    BY <1>1, <1>5 DEF pcm_areas_copy
  <2>2. Numbered(buf, 0, n, appl_total)
    <3>1. Numbered(buf, 0, frames, appl_total)
      BY <1>1, <1>5 DEF QInv, InCall, ToPlayDirect
    <3>2. \A j \in 0 .. n - 1 : j \in 0 .. frames - 1
      BY <1>2, Bounds
    <3> QED BY <3>1, <3>2 DEF Numbered
  <2>3. 0 \in Nat
    OBVIOUS
  <2>4. Numbered(ring', pcm_offset, n, appl_total)
    BY <1>1, <1>2, <1>5, <2>1, <2>2, <2>3, RegionHolds
  <2>5. \A i \in 0 .. Fill - 1 : ring'[SlotOf(Oldest + i)] = Got + i
    BY <1>1, <1>2, <1>5, <2>1, <2>3, RegionWritten
  <2>6. /\ Contents' /\ Put - Got + n <= BufferSize
        /\ Put' = Put + n /\ Got' = Got
    BY <1>1, <1>2, <1>5, <2>4, <2>5, PutHolds
  <2>7. delivered' = delivered
    BY <1>5 DEF DirectCommit
  <2>8. Step
    <3>1. CASE n = 0
      <4>1. Put' = Put
        BY <2>6, <3>1, Bounds DEF Put
      <4> QED BY <1>1, <2>6, <2>7, <4>1 DEF Step
    <3>2. CASE n # 0
      <4>1. n \in 1 .. BufferSize
        BY <1>2, <3>2, Bounds
      <4> QED BY <1>1, <1>5, <2>6, <2>7, <4>1 DEF Step
    <3> QED BY <3>1, <3>2
  <2> QED BY <1>3, <2>6, <2>8 DEF QInv
<1>6. CASE ~broken /\ ~IsPlayback
  <2>1. UNCHANGED ring
    BY <1>1, <1>6 DEF pcm_areas_copy
  <2>2. /\ Contents' /\ n <= Put - Got
        /\ Got' = Got + n /\ Put' = Put
    BY <1>1, <1>2, <1>6, <2>1, GetHolds
  <2>3. Step
    <3>1. CASE n = 0
      <4>1. Got' = Got /\ delivered' = delivered
        BY <2>2, <3>1, Bounds DEF Got, DirectCommit
      <4> QED BY <1>1, <2>2, <4>1 DEF Step
    <3>2. CASE n # 0
      <4>1. n \in 1 .. BufferSize
        BY <1>2, <3>2, Bounds
      <4>2. delivered' = [i \in 1 .. n |-> ring[pcm_offset + i - 1]]
        BY <1>6, <3>2 DEF DirectCommit
      <4>3. ASSUME NEW i \in 1 .. n
            PROVE  ring[pcm_offset + i - 1] = Got + i - 1
        <5>1. /\ i - 1 \in 0 .. frames - 1
              /\ pcm_offset + (i - 1) = pcm_offset + i - 1
              /\ appl_total + (i - 1) = appl_total + i - 1
          BY <1>2, Bounds
        <5>2. ring[pcm_offset + (i - 1)] = appl_total + (i - 1)
          BY <1>1, <1>6, <5>1, RegionRead
        <5> QED BY <1>6, <5>1, <5>2 DEF Got
      <4>4. delivered' = [i \in 1 .. n |-> Got + i - 1]
        BY <4>2, <4>3
      <4> QED BY <1>1, <1>6, <2>2, <4>1, <4>4 DEF Step
    <3> QED BY <3>1, <3>2
  <2> QED BY <1>3, <2>2, <2>3 DEF QInv
<1> QED BY <1>4, <1>5, <1>6

LEMMA PrepareQueue ==
  ASSUME IInv, NoLate, QInv, UNCHANGED direction, Prepare
  PROVE  QInv' /\ Step
<1>1. /\ pc = "idle" /\ pc' = "idle" /\ ~broken'
      /\ hw_total' = (IF IsPlayback THEN appl_total ELSE hw_total)
      /\ appl_total' = (IF IsPlayback THEN appl_total ELSE hw_total)
      /\ UNCHANGED <<direction, delivered>>
  BY DEF Prepare, callVars
<1>2. Fill' = 0 /\ Put' = Put /\ Got' = Put'
  BY <1>1, Bounds DEF Fill, Put, Got
<1>3. Contents'
  BY <1>2 DEF Contents
<1>4. InCall' /\ Unbroken'
  BY <1>1 DEF InCall, AtHead, ToPlay, ToPlayDirect, Copied, Captured,
              Progress, Copying, Unbroken
<1>5. Put' >= Put
  BY <1>2, Bounds DEF Put
<1>6. Step
  <2>1. CASE broken
    BY <1>1, <1>2, <2>1 DEF Step
  <2>2. CASE ~broken
    <3>1. broken' = broken
      BY <2>2 DEF Prepare, IInv, TypeOK
    <3> QED BY <1>1, <1>2, <1>5, <2>2, <3>1 DEF Step
  <2> QED BY <2>1, <2>2
<1> QED BY <1>3, <1>4, <1>6 DEF QInv

(* A stream that starts or stops moves nothing.                            *)
LEMMA StartStopQueue ==
  ASSUME IInv, NoLate, QInv, UNCHANGED direction, Start \/ Stop
  PROVE  QInv' /\ Step
<1>1. /\ state' = "SETUP" \/ (state' = "RUNNING" /\ state = "PREPARED")
      /\ UNCHANGED <<direction, hw_ptr, hw_total, broken, appl_ptr, ring, pc,
                     buf, offset, size, pcm_offset, frames, appl_total,
                     delivered>>
  BY DEF Start, Stop, callVars
<1>2. UNCHANGED <<Fill, ExactAvail, Oldest, Put, Got>>
  BY <1>1 DEF ExactAvail, Fill, Oldest, Put, Got
<1>3. (~broken => Contents)'
  BY <1>1, <1>2 DEF QInv, Contents
<1>4. InCall'
  BY <1>1, <1>2 DEF QInv, InCall, AtHead, ToPlay, ToPlayDirect, Copied,
                    Captured, Progress, Copying
<1>5. Unbroken'
  BY <1>1 DEF QInv, Unbroken
<1> QED BY <1>1, <1>2, <1>3, <1>4, <1>5 DEF QInv, Step

(* The hardware takes the next n frames of playback.                       *)
LEMMA PlayedQueue ==
  ASSUME IInv, NoLate, QInv, UNCHANGED direction, IsPlayback, ~broken,
         NEW n \in 1 .. MaxAdvance, Advance(n), n <= Fill
  PROVE  /\ Contents'
         /\ Got' = Got + n /\ Put' = Put
         /\ delivered' = [i \in 1 .. n |-> Got + i - 1]
<1>1. /\ hw_ptr' = HwForward(hw_ptr, n) /\ hw_total' = hw_total + n
      /\ delivered' = [i \in 1 .. n |-> ring[SlotOf(hw_ptr + i - 1)]]
      /\ UNCHANGED <<direction, ring, appl_ptr, appl_total>>
  BY DEF Advance, SlotOf
<1>2. n \in Nat /\ n <= Boundary
  BY Constants DEF ConstantAssumptions
<1>3. Contents
  BY DEF QInv
<1>4. /\ Put' = Put /\ Got' = Got + n /\ Fill' = Fill - n
      /\ Oldest' = HwForward(Oldest, n)
  BY <1>1, <1>2, Bounds DEF Put, Got, Fill, Oldest
<1>5. Contents'
  BY <1>1, <1>2, <1>3, <1>4, Taken
<1>6. ASSUME NEW i \in 1 .. n
      PROVE  ring[SlotOf(hw_ptr + i - 1)] = Got + i - 1
  <2>1. /\ i - 1 \in 0 .. Fill - 1
        /\ hw_ptr + (i - 1) = hw_ptr + i - 1
        /\ Got + (i - 1) = Got + i - 1
    BY <1>2, Bounds DEF Got
  <2>2. ring[SlotOf(Oldest + (i - 1))] = Got + (i - 1)
    BY <1>3, <2>1 DEF Contents
  <2> QED BY <2>1, <2>2 DEF Oldest
<1> QED BY <1>1, <1>4, <1>5, <1>6

(* The hardware puts n frames after those that wait to be read.            *)
LEMMA RecordedQueue ==
  ASSUME IInv, NoLate, QInv, UNCHANGED direction, ~IsPlayback, ~broken,
         NEW n \in 1 .. MaxAdvance, Advance(n), Fill + n <= BufferSize
  PROVE  /\ Contents'
         /\ Put - Got + n <= BufferSize
         /\ Put' = Put + n /\ Got' = Got
         /\ delivered' = delivered
<1>1. /\ hw_total' = hw_total + n /\ delivered' = delivered
      /\ ring' = [s \in Slot |->
            IF SlotOf(s - hw_ptr) < n THEN hw_total + SlotOf(s - hw_ptr)
                                      ELSE ring[s]]
      /\ UNCHANGED <<direction, appl_ptr, appl_total>>
  BY DEF Advance, SlotOf
<1>2. n \in Nat /\ n >= 1
  BY Constants DEF ConstantAssumptions
<1>3. /\ Put' = Put + n /\ Got' = Got /\ Oldest' = Oldest
      /\ Fill' = Fill + n /\ Put - Got + n <= BufferSize
  BY <1>1, <1>2, Bounds DEF Put, Got, Oldest, Fill
(* Slot k after the application's pointer, seen from the hardware's.       *)
<1>4. ASSUME NEW k \in 0 .. Fill + n - 1
      PROVE  /\ SlotOf(appl_ptr + k) \in Slot
             /\ k < Fill =>
                  SlotOf(SlotOf(appl_ptr + k) - hw_ptr) = BufferSize - Fill + k
             /\ k >= Fill =>
                  SlotOf(SlotOf(appl_ptr + k) - hw_ptr) = k - Fill
  <2>1. k \in Int /\ 0 <= k /\ k < BufferSize /\ hw_ptr \in Int
        /\ appl_ptr + k \in Int
    BY <1>2, Bounds
  <2>2. SlotOf(appl_ptr + k) = SlotOf(hw_ptr + (k - Fill))
    <3>1. hw_ptr + (appl_total - hw_total) + k = hw_ptr + (k - Fill)
      BY <2>1, Bounds
    <3> QED BY <2>1, <3>1, HeadSlot
  <2>3. CASE k < Fill
    <3>1. BufferSize - Fill + k \in Slot
      BY <2>1, <2>3, Bounds DEF Slot
    <3>2. /\ hw_ptr + (BufferSize - Fill + k) \in Int
          /\ hw_ptr + (k - Fill) \in Int
          /\ (hw_ptr + (BufferSize - Fill + k)) - (hw_ptr + (k - Fill))
               = BufferSize
      BY <2>1, Bounds
    <3>3. SlotOf(hw_ptr + (BufferSize - Fill + k)) = SlotOf(hw_ptr + (k - Fill))
      BY <3>2, SameSlot
    <3>4. SlotOf(SlotOf(hw_ptr + (BufferSize - Fill + k)) - hw_ptr)
            = BufferSize - Fill + k
      BY <2>1, <3>1, WayTo
    <3> QED BY <2>1, <2>2, <2>3, <3>3, <3>4, SlotInside, Bounds
  <2>4. CASE k >= Fill
    <3>1. k - Fill \in Slot
      BY <2>1, <2>4, Bounds DEF Slot
    <3>2. SlotOf(SlotOf(hw_ptr + (k - Fill)) - hw_ptr) = k - Fill
      BY <2>1, <3>1, WayTo
    <3> QED BY <2>1, <2>2, <2>4, <3>2, SlotInside, Bounds
  <2> QED BY <2>1, <2>3, <2>4, Bounds
<1>5. ASSUME NEW i \in 0 .. Fill - 1
      PROVE  ring'[SlotOf(Oldest + i)] = Got + i
  <2>1. i \in 0 .. Fill + n - 1 /\ i < Fill
        /\ ~(BufferSize - Fill + i < n)
    BY <1>2, Bounds
  <2>2. ring'[SlotOf(appl_ptr + i)] = ring[SlotOf(appl_ptr + i)]
    BY <1>1, <1>4, <2>1
  <2>3. ring[SlotOf(appl_ptr + i)] = Got + i
    BY DEF QInv, Contents, Oldest
  <2> QED BY <2>2, <2>3 DEF Oldest
<1>6. ASSUME NEW j \in 0 .. n - 1
      PROVE  ring'[SlotOf(Oldest + (Fill + j))] = Got + (Fill + j)
  <2>1. /\ Fill + j \in 0 .. Fill + n - 1 /\ Fill + j >= Fill
        /\ (Fill + j) - Fill = j /\ j < n
    BY <1>2, Bounds
  <2>2. ring'[SlotOf(appl_ptr + (Fill + j))] = hw_total + j
    BY <1>1, <1>4, <2>1
  <2>3. hw_total + j = Got + (Fill + j)
    BY <2>1, Bounds DEF Got
  <2> QED BY <2>2, <2>3 DEF Oldest
<1>7. Contents'
  BY <1>2, <1>3, <1>5, <1>6, Added
<1> QED BY <1>1, <1>3, <1>7

LEMMA AdvanceQueue ==
  ASSUME IInv, NoLate, QInv, UNCHANGED direction,
         NEW n \in 1 .. MaxAdvance, Advance(n)
  PROVE  QInv' /\ Step
<1>1. /\ state = "RUNNING" /\ state' \in {"RUNNING", "XRUN"}
      /\ broken' = (state' = "XRUN")
      /\ hw_total' = hw_total + n
      /\ UNCHANGED <<direction, appl_ptr, pc, buf, offset, size, pcm_offset,
                     frames, appl_total>>
  BY DEF Advance, callVars
<1>2. ~broken
  BY <1>1 DEF QInv, Unbroken
<1>3. n \in Nat /\ n >= 1 /\ n <= BufferSize
  BY Constants DEF ConstantAssumptions
<1>4. ExactAvail' = ExactAvail + n /\ ExactAvail \in Int
  BY <1>1, <1>3, Bounds DEF ExactAvail, Fill
<1>5. InCall'
  <2>1. AtHead' /\ ToPlay' /\ ToPlayDirect' /\ Captured'
    BY <1>1, <1>2 DEF QInv, InCall, AtHead, ToPlay, ToPlayDirect, Captured,
                      Copying
  <2>2. Copied'
    BY <1>1 DEF QInv, InCall, Copied, Advance
  <2>3. Progress'
    BY <1>1, <1>2, <1>3, <1>4 DEF QInv, InCall, Progress
  <2> QED BY <2>1, <2>2, <2>3 DEF InCall
<1>6. Unbroken'
  BY <1>1 DEF Unbroken
<1>7. CASE broken'
  BY <1>5, <1>6, <1>7 DEF QInv, Step
<1>8. CASE ~broken'
  <2>1. IInv'
    BY AdvanceStep
  <2>2. ExactAvail + n <= BufferSize
    BY <1>4, <1>8, <2>1 DEF IInv, AvailBounds, NoLate
  <2>3. n \in 1 .. BufferSize /\ broken' = broken
    BY <1>2, <1>3, <1>8, <2>1, Bounds DEF IInv, TypeOK
  <2>4. CASE IsPlayback
    <3>1. n <= Fill
      BY <1>3, <2>2, <2>4, Bounds
    <3>2. /\ Contents' /\ Got' = Got + n /\ Put' = Put
          /\ delivered' = [i \in 1 .. n |-> Got + i - 1]
      BY <1>2, <2>4, <3>1, PlayedQueue
    <3>3. n <= Put - Got
      BY <2>4, <3>1, Bounds DEF Put, Got
    <3>4. Step
      BY <1>2, <1>8, <2>3, <3>2, <3>3 DEF Step
    <3> QED BY <1>5, <1>6, <3>2, <3>4 DEF QInv
  <2>5. CASE ~IsPlayback
    <3>1. Fill + n <= BufferSize
      BY <1>3, <2>2, <2>5, Bounds
    <3>2. /\ Contents' /\ Put - Got + n <= BufferSize
          /\ Put' = Put + n /\ Got' = Got /\ delivered' = delivered
      BY <1>2, <2>5, <3>1, RecordedQueue
    <3>3. Step
      BY <1>2, <1>8, <2>3, <3>2 DEF Step
    <3> QED BY <1>5, <1>6, <3>2, <3>3 DEF QInv
  <2> QED BY <2>4, <2>5
<1> QED BY <1>7, <1>8

------------------------------------------------------------------------------
LEMMA InitQueue == Init => QInv
<1> SUFFICES ASSUME Init PROVE QInv
  OBVIOUS
<1>1. Fill = 0 /\ pc = "idle" /\ broken = FALSE
  BY DEF Init, Fill
<1>2. Contents
  BY <1>1 DEF Contents
<1> QED BY <1>1, <1>2 DEF QInv, InCall, AtHead, ToPlay, ToPlayDirect, Copied,
                          Captured, Progress, Copying, Unbroken

LEMMA NextQueue ==
  ASSUME IInv, NoLate, QInv, [Next]_vars
  PROVE  QInv' /\ Step
<1>0. CASE UNCHANGED vars
  <2>1. Steady
    BY <1>0 DEF vars, Steady, kernelVars
  <2>2. InCall'
    <3>1. ExactAvail' = ExactAvail
      BY <2>1, SteadyStep
    <3> QED BY <1>0, <3>1 DEF vars, QInv, InCall, AtHead, ToPlay, ToPlayDirect,
                              Copied, Captured, Progress, Copying
  <2> QED BY <2>1, <2>2, SteadyStep DEF QInv
<1>1. CASE Next
  <2>0. UNCHANGED direction
    BY <1>1 DEF Next, Transfer, Other
  <2>1. CASE \E n \in 1 .. MaxRequest : Call(n) \/ DirectBegin(n)
    BY <2>0, <2>1, CallQueue, DirectBeginQueue
  <2>2. CASE TransferTest
    BY <2>0, <2>2, TestQueue
  <2>3. CASE TransferBegin
    BY <2>0, <2>3, BeginQueue
  <2>4. CASE TransferCopy
    BY <2>0, <2>4, CopyQueue
  <2>5. CASE TransferCommit
    BY <2>0, <2>5, CommitQueue
  <2>6. CASE \E n \in 0 .. MaxRequest : DirectCommit(n)
    BY <2>0, <2>6, DirectCommitQueue
  <2>7. CASE Prepare
    BY <2>0, <2>7, PrepareQueue
  <2>8. CASE Start \/ Stop
    BY <2>0, <2>8, StartStopQueue
  <2>9. CASE \E n \in 1 .. MaxAdvance : Advance(n)
    BY <2>0, <2>9, AdvanceQueue
  <2> QED BY <1>1, <2>1, <2>2, <2>3, <2>4, <2>5, <2>6, <2>7, <2>8, <2>9
          DEF Next, Transfer, Other
<1> QED BY <1>0, <1>1

LEMMA QueueInvariance == ASSUME NoLate PROVE Spec => [](IInv /\ QInv)
<1>1. Init => IInv /\ QInv
  BY InitInv, InitQueue
<1>2. IInv /\ QInv /\ [Next]_vars => (IInv /\ QInv)'
  BY NextInv, NextQueue
<1> QED BY <1>1, <1>2, PTL DEF Spec

(* When the stream stops before more than a ring of frames is available,   *)
(* the ring with its wrapping pointers, its split regions and its          *)
(* copy-then-commit is a queue: every frame that goes in comes out once    *)
(* and in order, whichever way the audio flows.                            *)
THEOREM QueueCorrect == ASSUME NoLate PROVE Spec => QueueSpec
<1>1. Init => Queue!Init
  BY DEF Init, Queue!Init
<1>2. Step => [Queue!Next]_(Queue!vars)
  <2> SUFFICES ASSUME Step PROVE [Queue!Next]_(Queue!vars)
    OBVIOUS
  <2> USE DEF Queue!Next, Queue!vars, Put, Got
  <2>1. CASE UNCHANGED <<Put, Got, delivered, broken>>
    BY <2>1
  <2>2. CASE broken'
    BY <2>2 DEF Queue!Break
  <2>3. CASE broken /\ ~broken' /\ Got' = Put'
    BY <2>3 DEF Queue!Restart
  <2>4. CASE ~broken /\ Got' = Put' /\ Put' >= Put
             /\ UNCHANGED <<delivered, broken>>
    BY <2>4 DEF Queue!Drop
  <2>5. CASE ~broken /\ \E n \in 1 .. BufferSize :
               \/ /\ Put - Got + n <= BufferSize
                  /\ Put' = Put + n
                  /\ UNCHANGED <<Got, delivered, broken>>
               \/ /\ n <= Put - Got
                  /\ Got' = Got + n
                  /\ delivered' = [i \in 1 .. n |-> Got + i - 1]
                  /\ UNCHANGED <<Put, broken>>
    BY <2>5 DEF Queue!Put, Queue!Get
  <2> QED BY <2>1, <2>2, <2>3, <2>4, <2>5 DEF Step
<1>3. IInv /\ QInv /\ [Next]_vars => [Queue!Next]_(Queue!vars)
  BY <1>2, NextQueue
<1> QED BY <1>1, <1>3, QueueInvariance, PTL DEF Spec, QueueSpec, Queue!Spec

(* However the hardware moves between pcm_mmap_begin and pcm_mmap_commit,  *)
(* the slots handed out are the application's alone.                       *)
THEOREM RegionUntornCorrect == ASSUME NoLate PROVE Spec => []RegionUntorn
<1>1. IInv /\ QInv => RegionUntorn
  <2> SUFFICES ASSUME IInv, QInv, Copying, ~broken
               PROVE  LET region == pcm_offset .. pcm_offset + frames - 1
                      IN  IF IsPlayback
                          THEN region \cap SlotsFrom(hw_ptr, Fill) = {}
                          ELSE /\ region = SlotsFrom(appl_ptr, frames)
                               /\ \A s \in region :
                                    ring[s] = appl_total + s - pcm_offset
    BY DEF RegionUntorn
  <2> DEFINE region == pcm_offset .. pcm_offset + frames - 1
  <2>1. ASSUME NEW s \in region
        PROVE  /\ s - pcm_offset \in 0 .. frames - 1
               /\ pcm_offset + (s - pcm_offset) = s
               /\ appl_total + (s - pcm_offset) = appl_total + s - pcm_offset
    BY Bounds
  <2>2. CASE IsPlayback
    <3> SUFFICES ASSUME NEW i \in 0 .. Fill - 1, SlotOf(hw_ptr + i) \in region
                 PROVE  FALSE
      BY <2>2 DEF SlotsFrom, SlotOf
    <3> QED BY <2>1, <2>2, RegionFree
  <2>3. CASE ~IsPlayback
    <3>1. region \subseteq SlotsFrom(appl_ptr, frames)
      <4> SUFFICES ASSUME NEW s \in region
                   PROVE  \E j \in 0 .. frames - 1 : s = SlotOf(appl_ptr + j)
        BY DEF SlotsFrom, SlotOf
      <4> QED BY <2>1, RegionSlots
    <3>2. SlotsFrom(appl_ptr, frames) \subseteq region
      <4> SUFFICES ASSUME NEW j \in 0 .. frames - 1
                   PROVE  SlotOf(appl_ptr + j) \in region
        BY DEF SlotsFrom, SlotOf
      <4>1. SlotOf(appl_ptr + j) = pcm_offset + j
        BY RegionSlots
      <4> QED BY <4>1, Bounds
    <3>3. ASSUME NEW s \in region
          PROVE  ring[s] = appl_total + s - pcm_offset
      <4>1. ring[pcm_offset + (s - pcm_offset)]
              = appl_total + (s - pcm_offset)
        BY <2>1, <2>3, RegionRead
      <4> QED BY <2>1, <4>1
    <3> QED BY <2>3, <3>1, <3>2, <3>3
  <2> QED BY <2>2, <2>3
<1> QED BY <1>1, QueueInvariance, PTL
==============================================================================
