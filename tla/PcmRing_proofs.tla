--------------------------- MODULE PcmRing_proofs ---------------------------
(***************************************************************************)
(* Proofs that the pointer arithmetic of the mmapped ring is exact and     *)
(* that pcm_mmap_begin hands out nothing it should not, for every buffer   *)
(* size, boundary, threshold and direction.                                *)
(***************************************************************************)
EXTENDS PcmRingProperties, TLAPS

USE DEF NoFrame, IsPlayback

(* What avail ought to be, from the totals.                                *)
ExactAvail == IF IsPlayback THEN BufferSize - Fill ELSE Fill

(* The pointers are apart by what the totals are apart, up to one turn     *)
(* around the boundary in either direction.                                *)
PointersMatch ==
  LET d == appl_total - hw_total
  IN  \/ appl_ptr - hw_ptr = d
      \/ appl_ptr - hw_ptr = d + Boundary
      \/ appl_ptr - hw_ptr = d - Boundary

(* How much can be available in each state of the stream: in RUNNING there *)
(* is room for one more update of the hardware before the boundary.        *)
AvailBounds ==
  /\ ExactAvail >= 0
  /\ ExactAvail < Boundary
  /\ state = "PREPARED" =>
       IF IsPlayback THEN ExactAvail <= BufferSize ELSE ExactAvail < BufferSize
  /\ state = "RUNNING" =>
       ExactAvail < BufferSize \/ ExactAvail < StopThreshold
  /\ ~broken /\ StopThreshold <= BufferSize => ExactAvail <= BufferSize

RegionInv ==
  Copying => /\ pcm_offset + frames <= BufferSize
             /\ frames <= ExactAvail

CallInv ==
  /\ pc \in {"test", "begin", "copy", "commit"} => offset + size <= MaxRequest
  /\ pc \in {"copy", "commit"} => frames <= size
  /\ pc = "direct" => frames <= MaxRequest

IInv ==
  /\ TypeOK
  /\ PointersMatch
  /\ AvailBounds
  /\ RegionInv
  /\ CallInv

ConstantAssumptions ==
  /\ BufferSize \in Nat \ {0}
  /\ Boundary \in Nat
  /\ Boundary >= 2 * BufferSize
  /\ StopThreshold \in Nat \ {0}
  /\ MaxAdvance \in 0 .. BufferSize
  /\ StopThreshold + MaxAdvance <= Boundary
  /\ MaxRequest \in Nat
  /\ MaxFrames \in Nat

LEMMA Constants == ConstantAssumptions
  BY BufferSizeAssumption, BoundaryAssumption,
     StopAssumption, AdvanceAssumption, BoundAssumption
     DEF ConstantAssumptions

------------------------------------------------------------------------------
(* The operators                                                           *)

LEMMA MinOfTwo ==
  ASSUME NEW a \in Int, NEW b \in Int
  PROVE  /\ Min({a, b}) \in {a, b}
         /\ Min({a, b}) <= a
         /\ Min({a, b}) <= b
<1>1. \E m \in {a, b} : \A y \in {a, b} : m <= y
  OBVIOUS
<1> QED BY <1>1 DEF Min

LEMMA MinOfThree ==
  \A a, b, c \in Int :
    /\ Min({a, b, c}) \in {a, b, c}
    /\ Min({a, b, c}) <= a
    /\ Min({a, b, c}) <= b
    /\ Min({a, b, c}) <= c
<1> TAKE a, b, c \in Int
<1>1. \E m \in {a, b, c} : \A y \in {a, b, c} : m <= y
  OBVIOUS
<1> QED BY <1>1 DEF Min

(* A slot is inside the ring.                                              *)
LEMMA OffsetInside ==
  ASSUME NEW x \in Int
  PROVE  x % BufferSize \in Slot
  BY Constants DEF ConstantAssumptions, Slot

(* Wrapping a pointer keeps it a pointer, and moves it by what was asked   *)
(* up to one turn.                                                         *)
LEMMA ForwardWraps ==
  ASSUME NEW p \in Pointer, NEW n \in Nat, n <= Boundary
  PROVE  /\ pcm_mmap_appl_forward(p, n) \in Pointer
         /\ pcm_mmap_appl_forward(p, n) \in {p + n, p + n - Boundary}
         /\ HwForward(p, n) = pcm_mmap_appl_forward(p, n)
  BY Constants DEF ConstantAssumptions, Pointer, pcm_mmap_appl_forward, HwForward

(* avail from the wrapped pointers is what the totals say.                 *)
LEMMA AvailFromPointers ==
  ASSUME NEW h \in Pointer, NEW a \in Pointer, NEW d \in Int,
         a - h \in {d, d + Boundary, d - Boundary},
         IF IsPlayback THEN BufferSize - d \in 0 .. Boundary - 1
                       ELSE -d \in 0 .. Boundary - 1
  PROVE  pcm_mmap_avail(direction, h, a) =
           IF IsPlayback THEN BufferSize - d ELSE -d
  BY Constants
     DEF ConstantAssumptions, Pointer, pcm_mmap_avail,
         pcm_mmap_playback_avail, pcm_mmap_capture_avail

(* What pcm_mmap_begin hands out.                                          *)
LEMMA BeginBounds ==
  ASSUME NEW h \in Pointer, NEW a \in Pointer, NEW n \in Nat,
         pcm_mmap_avail(direction, h, a) \in Nat
  PROVE  /\ BeginOffset(a) \in Slot
         /\ BeginFrames(direction, h, a, n) \in 0 .. BufferSize
         /\ BeginFrames(direction, h, a, n) <= n
         /\ BeginFrames(direction, h, a, n) <= pcm_mmap_avail(direction, h, a)
         /\ BeginOffset(a) + BeginFrames(direction, h, a, n) <= BufferSize
<1> DEFINE av == pcm_mmap_avail(direction, h, a)
           m == Min({av, BufferSize})
           off == BeginOffset(a)
<1>1. BufferSize \in Nat \ {0}
  BY Constants DEF ConstantAssumptions
<1>2. off \in Slot
  BY OffsetInside DEF Pointer, BeginOffset
<1>3. m \in Nat /\ m <= av /\ m <= BufferSize
  <2> HIDE DEF av
  <2>1. av \in Nat
    BY DEF av
  <2>2. Min({av, BufferSize}) \in {av, BufferSize}
        /\ Min({av, BufferSize}) <= av /\ Min({av, BufferSize}) <= BufferSize
    <3>1. av \in Int /\ BufferSize \in Int
      BY <1>1, <2>1
    <3> QED BY <3>1, MinOfTwo, Zenon
  <2> QED BY <1>1, <2>1, <2>2
<1> DEFINE cont == BufferSize - off
<1>4. cont \in Nat
  BY <1>1, <1>2 DEF Slot
<1>5. BeginFrames(direction, h, a, n) = Min({n, m, cont})
  BY DEF BeginFrames
<1>6. off + cont = BufferSize
  BY <1>1, <1>2 DEF Slot
<1> HIDE DEF m, off, cont
<1>7. n \in Int /\ m \in Int /\ cont \in Int
  BY <1>3, <1>4
<1>8. /\ Min({n, m, cont}) \in {n, m, cont}
      /\ Min({n, m, cont}) <= n
      /\ Min({n, m, cont}) <= m
      /\ Min({n, m, cont}) <= cont
  BY <1>7, MinOfThree, Zenon
<1> DEFINE f == Min({n, m, cont})
<1> HIDE DEF f
<1>9. f \in Nat /\ f <= n /\ f <= m /\ f <= cont
  BY <1>3, <1>4, <1>8 DEF f
<1>10. BeginOffset(a) = off /\ BeginFrames(direction, h, a, n) = f
  BY <1>5 DEF off, f
<1>11. f <= pcm_mmap_avail(direction, h, a) /\ f <= BufferSize
  BY <1>1, <1>3, <1>9 DEF av
<1>12. off + f <= BufferSize
  BY <1>1, <1>2, <1>4, <1>6, <1>9 DEF Slot
<1> QED BY <1>1, <1>2, <1>9, <1>10, <1>11, <1>12

------------------------------------------------------------------------------
(* The inductive invariant                                                 *)

LEMMA AvailIsExact ==
  ASSUME TypeOK, PointersMatch, AvailBounds
  PROVE  avail = ExactAvail /\ avail \in Nat
<1> DEFINE d == appl_total - hw_total
<1>1. d \in Int /\ appl_ptr - hw_ptr \in {d, d + Boundary, d - Boundary}
  BY DEF TypeOK, PointersMatch
<1>2. IF IsPlayback THEN BufferSize - d \in 0 .. Boundary - 1
                    ELSE -d \in 0 .. Boundary - 1
  BY Constants DEF ConstantAssumptions, TypeOK, AvailBounds, ExactAvail, Fill
<1>3. ExactAvail = IF IsPlayback THEN BufferSize - d ELSE -d
  BY Constants DEF ConstantAssumptions, TypeOK, ExactAvail, Fill
<1>4. hw_ptr \in Pointer /\ appl_ptr \in Pointer
  BY DEF TypeOK
<1> HIDE DEF d
<1>5. pcm_mmap_avail(direction, hw_ptr, appl_ptr) = IF IsPlayback THEN BufferSize - d ELSE -d
  BY <1>1, <1>2, <1>4, AvailFromPointers
<1> QED BY <1>2, <1>3, <1>5, Constants DEF avail, ConstantAssumptions

LEMMA InitInv == Init => IInv
<1> SUFFICES ASSUME Init PROVE IInv
  OBVIOUS
<1> USE Constants DEF ConstantAssumptions, Init
<1>1. TypeOK
  <2>1. NoFrame \in Frame
    BY DEF Frame
  <2>2. ring \in [Slot -> Frame] /\ buf \in [0 .. MaxRequest - 1 -> Frame]
    BY <2>1
  <2>3. delivered \in Seq(Frame)
    BY DEF Frame
  <2>4. hw_ptr \in Pointer /\ appl_ptr \in Pointer /\ pcm_offset \in Slot
    BY DEF Pointer, Slot
  <2>5. direction \in Direction
    OBVIOUS
  <2>6. /\ state \in State /\ broken \in BOOLEAN
        /\ pc \in {"idle", "test", "begin", "copy", "commit", "direct"}
    BY DEF State
  <2>7. /\ offset \in 0 .. MaxRequest /\ size \in 0 .. MaxRequest
        /\ frames \in 0 .. BufferSize
        /\ hw_total \in Nat /\ appl_total \in Nat
    OBVIOUS
  <2> QED BY <2>2, <2>3, <2>4, <2>5, <2>6, <2>7, Zenon DEF TypeOK
<1>2. PointersMatch
  BY DEF PointersMatch
<1>3. AvailBounds
  BY DEF AvailBounds, ExactAvail, Fill
<1> QED BY <1>1, <1>2, <1>3 DEF IInv, RegionInv, CallInv, Copying

(* The steps that move neither a pointer nor the stream's state keep the   *)
(* pointers' relation.                                                     *)
LEMMA QuietStep ==
  ASSUME IInv,
         UNCHANGED <<direction, state, hw_ptr, appl_ptr, hw_total, appl_total,
                     broken>>
  PROVE  PointersMatch' /\ AvailBounds' /\ ExactAvail' = ExactAvail
  BY DEF IInv, PointersMatch, AvailBounds, ExactAvail, Fill

LEMMA CallStep ==
  ASSUME IInv, UNCHANGED direction, NEW n \in 1 .. MaxRequest, Call(n)
  PROVE  IInv'
<1> USE Constants DEF ConstantAssumptions
<1>1. PointersMatch' /\ AvailBounds'
  BY QuietStep DEF Call, kernelVars
<1>2. buf' \in [0 .. MaxRequest - 1 -> Frame]
  BY DEF Call, CallerBuffer, Frame, IInv, TypeOK
<1>3. TypeOK'
  BY <1>2 DEF Call, kernelVars, IInv, TypeOK
<1> QED BY <1>1, <1>3 DEF Call, IInv, RegionInv, CallInv, Copying

LEMMA TestStep ==
  ASSUME IInv, UNCHANGED direction, TransferTest
  PROVE  IInv'
<1>1. PointersMatch' /\ AvailBounds'
  BY QuietStep DEF TransferTest, kernelVars
<1>2. TypeOK'
  BY DEF TransferTest, kernelVars, IInv, TypeOK
<1> QED BY <1>1, <1>2 DEF TransferTest, IInv, RegionInv, CallInv, Copying

(* pcm_mmap_begin hands out a part of the ring the caller may touch.       *)
LEMMA BeginStep ==
  ASSUME IInv, NEW n \in Nat, pcm_mmap_begin(n),
         UNCHANGED <<direction, state, hw_ptr, appl_ptr, hw_total, appl_total,
                     broken>>
  PROVE  /\ pcm_offset' \in Slot /\ frames' \in 0 .. BufferSize
         /\ frames' <= n
         /\ RegionInv'
<1>1. avail = ExactAvail /\ avail \in Nat
  BY AvailIsExact DEF IInv
<1>2. hw_ptr \in Pointer /\ appl_ptr \in Pointer
  BY DEF IInv, TypeOK
<1>3. pcm_mmap_avail(direction, hw_ptr, appl_ptr) \in Nat
  BY <1>1 DEF avail
<1>4. /\ pcm_offset' \in Slot /\ frames' \in 0 .. BufferSize
      /\ frames' <= n /\ frames' <= avail
      /\ pcm_offset' + frames' <= BufferSize
  BY <1>2, <1>3, BeginBounds DEF pcm_mmap_begin, avail
<1>5. ExactAvail' = ExactAvail
  BY QuietStep
<1> QED BY <1>1, <1>4, <1>5 DEF RegionInv

LEMMA TransferBeginStep ==
  ASSUME IInv, UNCHANGED direction, TransferBegin
  PROVE  IInv'
<1>1. PointersMatch' /\ AvailBounds'
  BY QuietStep DEF TransferBegin, kernelVars
<1>2. size \in Nat
  BY Constants DEF IInv, TypeOK, ConstantAssumptions
<1>3. /\ pcm_offset' \in Slot /\ frames' \in 0 .. BufferSize
      /\ frames' <= size
      /\ RegionInv'
  BY <1>2, BeginStep DEF TransferBegin, kernelVars
<1>4. TypeOK'
  BY <1>3 DEF TransferBegin, kernelVars, IInv, TypeOK
<1>5. CallInv'
  BY <1>3 DEF TransferBegin, IInv, CallInv
<1> QED BY <1>1, <1>3, <1>4, <1>5 DEF IInv

LEMMA DirectBeginStep ==
  ASSUME IInv, UNCHANGED direction, NEW n \in 1 .. MaxRequest, DirectBegin(n)
  PROVE  IInv'
<1> USE Constants DEF ConstantAssumptions
<1>1. PointersMatch' /\ AvailBounds'
  BY QuietStep DEF DirectBegin, kernelVars
<1>2. n \in Nat
  OBVIOUS
<1>3. /\ pcm_offset' \in Slot /\ frames' \in 0 .. BufferSize
      /\ frames' <= n
      /\ RegionInv'
  BY <1>2, BeginStep DEF DirectBegin, kernelVars
<1>4. buf' \in [0 .. MaxRequest - 1 -> Frame]
  BY DEF DirectBegin, CallerBuffer, Frame, IInv, TypeOK
<1>5. TypeOK'
  BY <1>3, <1>4 DEF DirectBegin, kernelVars, IInv, TypeOK
<1>6. CallInv'
  BY <1>3, <1>5 DEF DirectBegin, CallInv, TypeOK
<1> QED BY <1>1, <1>3, <1>5, <1>6 DEF IInv

(* Copying within the region stays inside the ring and the caller's buffer.*)
LEMMA CopyStep ==
  ASSUME TypeOK, NEW src \in Nat, NEW n \in Nat,
         pcm_offset + n <= BufferSize, src + n <= MaxRequest,
         pcm_areas_copy(pcm_offset, src, n)
  PROVE  /\ ring' \in [Slot -> Frame]
         /\ buf' \in [0 .. MaxRequest - 1 -> Frame]
<1> USE Constants DEF ConstantAssumptions
<1> DEFINE B == 0 .. MaxRequest - 1
<1>1. CASE IsPlayback
  <2>1. /\ ring' = [s \in Slot |-> IF s \in pcm_offset .. pcm_offset + n - 1
                                   THEN buf[src + s - pcm_offset] ELSE ring[s]]
        /\ buf' = buf
    BY <1>1 DEF pcm_areas_copy
  <2>2. ASSUME NEW s \in Slot, s \in pcm_offset .. pcm_offset + n - 1
        PROVE  src + s - pcm_offset \in B
    BY <2>2 DEF TypeOK, Slot
  <2> QED BY <2>1, <2>2 DEF TypeOK
<1>2. CASE ~IsPlayback
  <2>1. /\ buf' = [i \in DOMAIN buf |-> IF i \in src .. src + n - 1
                                        THEN ring[pcm_offset + i - src]
                                        ELSE buf[i]]
        /\ ring' = ring
    BY <1>2 DEF pcm_areas_copy
  <2>2. ASSUME NEW i \in B, i \in src .. src + n - 1
        PROVE  pcm_offset + i - src \in Slot
    BY <2>2 DEF TypeOK, Slot
  <2>3. DOMAIN buf = B
    BY DEF TypeOK
  <2> QED BY <2>1, <2>2, <2>3 DEF TypeOK
<1> QED BY <1>1, <1>2

LEMMA TransferCopyStep ==
  ASSUME IInv, UNCHANGED direction, TransferCopy
  PROVE  IInv'
<1>1. PointersMatch' /\ AvailBounds' /\ ExactAvail' = ExactAvail
  BY QuietStep DEF TransferCopy, kernelVars
<1>2. /\ offset \in Nat /\ frames \in Nat
      /\ pcm_offset + frames <= BufferSize /\ offset + frames <= MaxRequest
  BY Constants
     DEF ConstantAssumptions, TransferCopy, IInv, TypeOK, RegionInv, CallInv,
         Copying, Slot
<1>3. ring' \in [Slot -> Frame] /\ buf' \in [0 .. MaxRequest - 1 -> Frame]
  BY <1>2, CopyStep DEF TransferCopy, IInv
<1>4. TypeOK'
  BY <1>3 DEF TransferCopy, kernelVars, IInv, TypeOK
<1>5. RegionInv' /\ CallInv'
  BY <1>1 DEF TransferCopy, IInv, RegionInv, CallInv, Copying
<1> QED BY <1>1, <1>4, <1>5 DEF IInv

(* Committing frames that were available keeps the pointers' relation.     *)
LEMMA CommitStep ==
  ASSUME IInv, UNCHANGED direction, NEW n \in Nat, n <= ExactAvail, n <= BufferSize,
         pcm_mmap_commit(n), UNCHANGED kernelVars
  PROVE  /\ appl_ptr' \in Pointer /\ appl_total' \in Nat
         /\ PointersMatch' /\ AvailBounds'
<1> USE Constants DEF ConstantAssumptions
<1>1. /\ appl_ptr' \in Pointer
      /\ appl_ptr' \in {appl_ptr + n, appl_ptr + n - Boundary}
  BY ForwardWraps DEF pcm_mmap_commit, IInv, TypeOK
<1>2. appl_total' = appl_total + n /\ appl_total' \in Nat
  BY DEF pcm_mmap_commit, IInv, TypeOK
<1>3. ExactAvail' = ExactAvail - n
  BY <1>2 DEF ExactAvail, Fill, kernelVars, IInv, TypeOK
<1>4. ExactAvail \in Int
  BY DEF ExactAvail, Fill, IInv, TypeOK
<1>5. AvailBounds'
  BY <1>3, <1>4 DEF IInv, AvailBounds, kernelVars
<1>6. PointersMatch'
  <2> DEFINE d == appl_total - hw_total
  <2>1. /\ appl_ptr - hw_ptr \in {d, d + Boundary, d - Boundary}
        /\ appl_total' - hw_total' = d + n
        /\ d \in Int
    BY <1>2 DEF IInv, PointersMatch, kernelVars, TypeOK
  <2>2. /\ appl_ptr \in 0 .. Boundary - 1 /\ hw_ptr \in 0 .. Boundary - 1
        /\ appl_ptr' \in 0 .. Boundary - 1 /\ hw_ptr' = hw_ptr
    BY <1>1 DEF IInv, TypeOK, Pointer, kernelVars
  <2>3. d + n <= BufferSize /\ d > -Boundary - BufferSize
    BY DEF IInv, AvailBounds, ExactAvail, Fill, TypeOK
  <2> HIDE DEF d
  <2> QED BY <1>1, <2>1, <2>2, <2>3 DEF PointersMatch
<1> QED BY <1>1, <1>2, <1>5, <1>6

LEMMA TransferCommitStep ==
  ASSUME IInv, UNCHANGED direction, TransferCommit
  PROVE  IInv'
<1> USE Constants DEF ConstantAssumptions
<1>1. /\ frames \in Nat /\ frames <= ExactAvail /\ frames <= BufferSize
      /\ frames <= size /\ offset + size <= MaxRequest
      /\ offset \in Nat /\ size \in Nat
  BY DEF TransferCommit, IInv, TypeOK, RegionInv, CallInv, Copying
<1>2. /\ appl_ptr' \in Pointer /\ appl_total' \in Nat
      /\ PointersMatch' /\ AvailBounds'
  BY <1>1, CommitStep DEF TransferCommit
<1>3. delivered' \in Seq(Frame)
  <2>1. CASE IsPlayback
    BY <2>1 DEF TransferCommit, IInv, TypeOK
  <2>2. CASE ~IsPlayback
    <3>1. delivered' = [i \in 1 .. frames |-> buf[offset + i - 1]]
      BY <2>2 DEF TransferCommit
    <3>2. \A i \in 1 .. frames : buf[offset + i - 1] \in Frame
      BY <1>1 DEF IInv, TypeOK
    <3> QED BY <1>1, <3>1, <3>2
  <2> QED BY <2>1, <2>2
<1>4. TypeOK'
  BY <1>1, <1>2, <1>3 DEF TransferCommit, kernelVars, IInv, TypeOK
<1>5. RegionInv' /\ CallInv'
  BY <1>1 DEF TransferCommit, RegionInv, CallInv, Copying
<1> QED BY <1>2, <1>4, <1>5 DEF IInv

LEMMA DirectCommitStep ==
  ASSUME IInv, UNCHANGED direction, NEW n \in 0 .. MaxRequest, DirectCommit(n)
  PROVE  IInv'
<1> USE Constants DEF ConstantAssumptions
<1>1. /\ n \in Nat /\ n <= ExactAvail /\ n <= BufferSize
      /\ pcm_offset + n <= BufferSize /\ 0 + n <= MaxRequest
      /\ pcm_offset \in Slot
  BY DEF DirectCommit, IInv, TypeOK, RegionInv, CallInv, Copying, ExactAvail,
         Fill, Slot
<1>2. /\ appl_ptr' \in Pointer /\ appl_total' \in Nat
      /\ PointersMatch' /\ AvailBounds'
  BY <1>1, CommitStep DEF DirectCommit
<1>3. ring' \in [Slot -> Frame] /\ buf' \in [0 .. MaxRequest - 1 -> Frame]
  BY <1>1, CopyStep DEF DirectCommit, IInv
<1>4. delivered' \in Seq(Frame)
  <2>1. CASE IsPlayback \/ n = 0
    BY <2>1 DEF DirectCommit, IInv, TypeOK
  <2>2. CASE ~(IsPlayback \/ n = 0)
    <3>1. delivered' = [i \in 1 .. n |-> ring[pcm_offset + i - 1]]
      BY <2>2 DEF DirectCommit
    <3>2. \A i \in 1 .. n : pcm_offset + i - 1 \in Slot
      BY <1>1 DEF Slot
    <3>3. \A i \in 1 .. n : ring[pcm_offset + i - 1] \in Frame
      BY <3>2 DEF IInv, TypeOK
    <3> QED BY <1>1, <3>1, <3>3
  <2> QED BY <2>1, <2>2
<1>5. TypeOK'
  BY <1>2, <1>3, <1>4 DEF DirectCommit, kernelVars, IInv, TypeOK
<1>6. RegionInv' /\ CallInv'
  BY DEF DirectCommit, RegionInv, CallInv, Copying
<1> QED BY <1>2, <1>5, <1>6 DEF IInv

LEMMA PrepareStep ==
  ASSUME IInv, UNCHANGED direction, Prepare
  PROVE  IInv'
<1> USE Constants DEF ConstantAssumptions
<1>1. hw_total \in Nat /\ appl_total \in Nat
  BY DEF IInv, TypeOK
<1>2. hw_ptr' = 0 /\ appl_ptr' = 0 /\ state' = "PREPARED" /\ broken' = FALSE
  BY DEF Prepare
<1>3. /\ appl_total' = hw_total'
      /\ hw_total' \in Nat /\ appl_total' \in Nat
  <2>1. CASE IsPlayback
    BY <1>1, <2>1 DEF Prepare
  <2>2. CASE ~IsPlayback
    BY <1>1, <2>2 DEF Prepare
  <2> QED BY <2>1, <2>2
<1>4. appl_total' - hw_total' = 0 /\ hw_total' - appl_total' = 0
  <2>1. \A x, y \in Nat : x = y => x - y = 0
    OBVIOUS
  <2> QED BY <1>3, <2>1, Zenon
<1>5. PointersMatch'
  BY <1>2, <1>4 DEF PointersMatch
<1>6. ExactAvail' = IF IsPlayback THEN BufferSize ELSE 0
  BY <1>4 DEF ExactAvail, Fill
<1>7. AvailBounds'
  BY <1>2, <1>6 DEF AvailBounds
<1>8. TypeOK'
  <2>1. hw_ptr' \in Pointer /\ appl_ptr' \in Pointer
    BY <1>2 DEF Pointer
  <2>2. state' \in State /\ broken' \in BOOLEAN
    BY <1>2 DEF State
  <2> QED BY <1>3, <2>1, <2>2 DEF Prepare, callVars, IInv, TypeOK
<1> QED BY <1>5, <1>7, <1>8 DEF Prepare, callVars, IInv, RegionInv, CallInv, Copying

LEMMA StopStep ==
  ASSUME IInv, UNCHANGED direction, Stop
  PROVE  IInv'
<1>1. ExactAvail' = ExactAvail /\ PointersMatch'
  BY DEF Stop, callVars, IInv, PointersMatch, ExactAvail, Fill
<1>2. AvailBounds'
  BY <1>1 DEF Stop, callVars, IInv, AvailBounds
<1>3. TypeOK'
  BY DEF Stop, IInv, TypeOK, State, callVars
<1> QED BY <1>1, <1>2, <1>3 DEF Stop, callVars, IInv, RegionInv, CallInv, Copying

LEMMA StartStep ==
  ASSUME IInv, UNCHANGED direction, Start
  PROVE  IInv'
<1> USE Constants DEF ConstantAssumptions
<1>1. ExactAvail' = ExactAvail /\ PointersMatch'
  BY DEF Start, callVars, IInv, PointersMatch, ExactAvail, Fill
<1>2. AvailBounds'
  <2>1. ExactAvail < BufferSize
    BY DEF Start, IInv, AvailBounds, ExactAvail, Fill, TypeOK
  <2> QED BY <1>1, <2>1 DEF Start, callVars, IInv, AvailBounds
<1>3. TypeOK'
  BY DEF Start, IInv, TypeOK, State, callVars
<1> QED BY <1>1, <1>2, <1>3 DEF Start, callVars, IInv, RegionInv, CallInv, Copying

(* The hardware's update: what it makes available never reaches around the *)
(* boundary, because it stops at the threshold.                            *)
LEMMA AdvanceStep ==
  ASSUME IInv, UNCHANGED direction, NEW n \in 1 .. MaxAdvance, Advance(n)
  PROVE  IInv'
<1> USE Constants DEF ConstantAssumptions
<1>1. n \in Nat /\ n <= BufferSize /\ n <= Boundary /\ n <= MaxAdvance
  OBVIOUS
<1>2. hw_ptr' \in Pointer /\ hw_ptr' \in {hw_ptr + n, hw_ptr + n - Boundary}
  BY <1>1, ForwardWraps DEF Advance, IInv, TypeOK
<1>3. /\ hw_total' = hw_total + n /\ hw_total' \in Nat
      /\ appl_total' = appl_total /\ appl_ptr' = appl_ptr
  BY DEF Advance, IInv, TypeOK
<1>4. ExactAvail' = ExactAvail + n /\ ExactAvail \in Int
  BY <1>3 DEF ExactAvail, Fill, IInv, TypeOK
<1>5. ExactAvail' >= 0 /\ ExactAvail' < Boundary
  BY <1>1, <1>4 DEF Advance, IInv, AvailBounds
<1>6. PointersMatch'
  <2> DEFINE d == appl_total - hw_total
  <2>1. /\ appl_ptr - hw_ptr \in {d, d + Boundary, d - Boundary}
        /\ appl_total' - hw_total' = d - n
        /\ d \in Int
    BY <1>3 DEF IInv, PointersMatch, TypeOK
  <2>2. /\ appl_ptr \in 0 .. Boundary - 1 /\ hw_ptr \in 0 .. Boundary - 1
        /\ hw_ptr' \in 0 .. Boundary - 1
    BY <1>2 DEF IInv, TypeOK, Pointer
  <2>3. IF IsPlayback THEN BufferSize - (d - n) \in 0 .. Boundary - 1
                      ELSE -(d - n) \in 0 .. Boundary - 1
    BY <1>4, <1>5 DEF ExactAvail, Fill, IInv, TypeOK
  <2> HIDE DEF d
  <2> QED BY <1>1, <1>2, <1>3, <2>1, <2>2, <2>3 DEF PointersMatch
<1>7. pcm_mmap_avail(direction, hw_ptr', appl_ptr) = ExactAvail'
  <2> DEFINE d == appl_total' - hw_total'
  <2>1. d \in Int /\ appl_ptr' - hw_ptr' \in {d, d + Boundary, d - Boundary}
    BY <1>3, <1>6 DEF PointersMatch, IInv, TypeOK
  <2>2. ExactAvail' = IF IsPlayback THEN BufferSize - d ELSE -d
    BY <1>3 DEF ExactAvail, Fill, IInv, TypeOK
  <2>3. hw_ptr' \in Pointer /\ appl_ptr' \in Pointer
    BY <1>2, <1>3 DEF IInv, TypeOK
  <2>4. IF IsPlayback THEN BufferSize - d \in 0 .. Boundary - 1
                      ELSE -d \in 0 .. Boundary - 1
    BY <1>5, <2>1, <2>2
  <2> HIDE DEF d
  <2>5. pcm_mmap_avail(direction, hw_ptr', appl_ptr') = IF IsPlayback THEN BufferSize - d ELSE -d
    BY <2>1, <2>3, <2>4, AvailFromPointers
  <2> QED BY <1>3, <2>2, <2>5
<1>8. AvailBounds'
  <2>1. /\ state' = IF ExactAvail' >= StopThreshold THEN "XRUN" ELSE "RUNNING"
        /\ broken' = (state' = "XRUN")
    BY <1>7 DEF Advance
  <2>2. ExactAvail' \in Int
    BY <1>1, <1>4
  <2>3. CASE ExactAvail' >= StopThreshold
    <3>1. state' = "XRUN" /\ broken'
      BY <2>1, <2>3
    <3> QED BY <1>5, <3>1 DEF AvailBounds
  <2>4. CASE ~(ExactAvail' >= StopThreshold)
    <3>1. state' = "RUNNING" /\ ExactAvail' < StopThreshold
      BY <2>1, <2>2, <2>4
    <3> QED BY <1>5, <2>2, <3>1 DEF AvailBounds
  <2> QED BY <2>3, <2>4
<1>9. ring' \in [Slot -> Frame] /\ delivered' \in Seq(Frame)
  <2>1. CASE IsPlayback
    <3>1. ring' = ring /\ delivered' = [i \in 1 .. n |-> ring[(hw_ptr + i - 1) % BufferSize]]
      BY <2>1 DEF Advance
    <3>2. ASSUME NEW i \in 1 .. n
          PROVE  ring[(hw_ptr + i - 1) % BufferSize] \in Frame
      <4>1. hw_ptr + i - 1 \in Int
        BY DEF IInv, TypeOK, Pointer
      <4>2. (hw_ptr + i - 1) % BufferSize \in Slot
        BY <4>1, OffsetInside
      <4> QED BY <4>2 DEF IInv, TypeOK
    <3> QED BY <1>1, <3>1, <3>2 DEF IInv, TypeOK
  <2>2. CASE ~IsPlayback
    <3> DEFINE back(s) == (s - hw_ptr) % BufferSize
    <3>1. /\ delivered' = delivered
          /\ ring' = [s \in Slot |-> IF back(s) < n THEN hw_total + back(s) ELSE ring[s]]
      BY <2>2 DEF Advance
    <3>2. ASSUME NEW s \in Slot
          PROVE  back(s) \in Slot
      <4>1. s - hw_ptr \in Int
        BY DEF IInv, TypeOK, Pointer, Slot
      <4> QED BY <4>1, OffsetInside
    <3>3. hw_total + n <= MaxFrames + MaxAdvance /\ hw_total \in Nat
      BY DEF Advance, IInv, TypeOK
    <3> HIDE DEF back
    <3>4. \A s \in Slot : back(s) < n => hw_total + back(s) \in Frame
      BY <1>1, <3>2, <3>3 DEF Frame, Slot
    <3> QED BY <3>1, <3>4 DEF IInv, TypeOK
  <2> QED BY <2>1, <2>2
<1>10. TypeOK'
  <2>1. state' \in State /\ broken' \in BOOLEAN
    BY DEF Advance, State
  <2> QED BY <1>2, <1>3, <1>9, <2>1 DEF Advance, callVars, IInv, TypeOK
<1>11. RegionInv' /\ CallInv'
  BY <1>1, <1>4 DEF Advance, callVars, IInv, TypeOK, RegionInv, CallInv, Copying
<1> QED BY <1>5, <1>6, <1>8, <1>10, <1>11 DEF IInv

LEMMA NextInv == IInv /\ [Next]_vars => IInv'
<1> SUFFICES ASSUME IInv, [Next]_vars PROVE IInv'
  OBVIOUS
<1>0. CASE UNCHANGED vars
  <2>1. PointersMatch' /\ AvailBounds'
    BY <1>0, QuietStep DEF vars
  <2>2. TypeOK'
    BY <1>0 DEF vars, IInv, TypeOK
  <2>3. ExactAvail' = ExactAvail
    BY <1>0, QuietStep DEF vars
  <2> QED BY <1>0, <2>1, <2>2, <2>3 DEF vars, IInv, RegionInv, CallInv, Copying
<1>1. CASE Next
  <2>0. UNCHANGED direction
    BY <1>1 DEF Next, Transfer, Other
  <2>1. CASE \E n \in 1 .. MaxRequest : Call(n) \/ DirectBegin(n)
    BY <2>0, <2>1, CallStep, DirectBeginStep
  <2>2. CASE TransferTest
    BY <2>0, <2>2, TestStep
  <2>3. CASE TransferBegin
    BY <2>0, <2>3, TransferBeginStep
  <2>4. CASE TransferCopy
    BY <2>0, <2>4, TransferCopyStep
  <2>5. CASE TransferCommit
    BY <2>0, <2>5, TransferCommitStep
  <2>6. CASE \E n \in 0 .. MaxRequest : DirectCommit(n)
    BY <2>0, <2>6, DirectCommitStep
  <2>7. CASE Prepare
    BY <2>0, <2>7, PrepareStep
  <2>8. CASE Stop
    BY <2>0, <2>8, StopStep
  <2>9. CASE Start
    BY <2>0, <2>9, StartStep
  <2>10. CASE \E n \in 1 .. MaxAdvance : Advance(n)
    BY <2>0, <2>10, AdvanceStep
  <2> QED BY <1>1, <2>1, <2>2, <2>3, <2>4, <2>5, <2>6, <2>7, <2>8, <2>9, <2>10
          DEF Next, Transfer, Other
<1> QED BY <1>0, <1>1

LEMMA Invariance == Spec => []IInv
  BY InitInv, NextInv, PTL DEF Spec

------------------------------------------------------------------------------
(* Every variable of the ring keeps its type: in particular the pointers   *)
(* stay below the boundary and pcm_mmap_begin's offset inside the ring.    *)
THEOREM TypeCorrect == Spec => []TypeOK
<1>1. IInv => TypeOK
  BY DEF IInv
<1> QED BY <1>1, Invariance, PTL

(* pcm_mmap_avail is exact for every buffer size, boundary and threshold,  *)
(* in every state of the stream, an xrun included.                         *)
THEOREM AvailCorrect == Spec => []AvailExact
<1>1. IInv => AvailExact
  BY AvailIsExact DEF IInv, AvailExact, ExactAvail
<1> QED BY <1>1, Invariance, PTL

(* If the stream stops at a full ring (stop_threshold at most the buffer   *)
(* size), it is never overfull and never runs past the application.        *)
THEOREM NeverOverfullCorrect ==
  StopThreshold <= BufferSize => (Spec => []NeverOverfull)
<1> SUFFICES ASSUME StopThreshold <= BufferSize PROVE Spec => []NeverOverfull
  OBVIOUS
<1>1. IInv => NeverOverfull
  BY Constants
     DEF ConstantAssumptions, IInv, TypeOK, AvailBounds, ExactAvail, Fill,
         NeverOverfull
<1> QED BY <1>1, Invariance, PTL

(* What pcm_mmap_begin hands out ends inside the mapping, also when an     *)
(* xrun or a stop comes between it and the copy.                           *)
THEOREM RegionInsideCorrect == Spec => []RegionInside
<1>1. IInv => RegionInside
  BY DEF IInv, RegionInv, RegionInside
<1> QED BY <1>1, Invariance, PTL

(* And it stays the application's to touch until the commit, whatever the  *)
(* hardware does meanwhile.                                                *)
THEOREM RegionAvailableCorrect == Spec => []RegionAvailable
<1>1. IInv => RegionAvailable
  BY AvailIsExact DEF IInv, RegionInv, RegionAvailable
<1> QED BY <1>1, Invariance, PTL
==============================================================================
