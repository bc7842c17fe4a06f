-------------------------- MODULE GrblStepperProofs --------------------------
(***************************************************************************)
(* Proofs about GrblStepper, for every size of the two rings and every     *)
(* bound on the blocks:                                                    *)
(*   - IInv is inductive, so the types, SlotIntact and NoEmptySegment hold;*)
(*   - StopInv is inductive, so StoppedWhenReported holds;                 *)
(*   - under IInv every step implements a step of StepStream.              *)
(***************************************************************************)
EXTENDS GrblStepper, TLAPS

-------------------------------------------------------------------------------
(* Walking a ring: the helpers stay inside it, and a walk is empty only      *)
(* from an entry to itself.                                                  *)
LEMMA RingTypes ==
  ASSUME NEW size \in Nat, size >= 1, NEW i \in 0..size-1, NEW j \in 0..size-1
  PROVE  /\ RingNext(i, size) \in 0..size-1
         /\ RingDist(i, j, size) \in 0..size-1
         /\ RingDist(i, j, size) = 0 <=> i = j
BY DEF RingNext, RingDist

(* Moving the far end of a walk one entry on lengthens it by one, unless     *)
(* the walk then closes.                                                     *)
LEMMA RingFar ==
  ASSUME NEW size \in Nat, size >= 1, NEW i \in 0..size-1, NEW j \in 0..size-1,
         RingNext(j, size) # i
  PROVE  RingDist(i, RingNext(j, size), size) = RingDist(i, j, size) + 1
BY DEF RingNext, RingDist

(* The entries from t up to but not including h: the queue of a ring.        *)
Span(t, h) ==
  {i \in Segments : RingDist(t, i, SegmentBufferSize) < RingDist(t, h, SegmentBufferSize)}

(* The head is not queued, the tail is when the ring is not empty, and the   *)
(* entry after a queued one is queued or is the head.                        *)
LEMMA SpanEnds ==
  ASSUME NEW t \in Segments, NEW h \in Segments
  PROVE  /\ h \notin Span(t, h)
         /\ t # h => t \in Span(t, h)
         /\ t = h => Span(t, h) = {}
         /\ \A i \in Span(t, h) : /\ i # h
                                  /\ RingNext(i, SegmentBufferSize) \in Span(t, h) \cup {h}
BY SizeAssumption DEF Span, Segments, RingNext, RingDist

(* Advancing the head of a ring that is not full queues the old head.        *)
LEMMA SpanPush ==
  ASSUME NEW t \in Segments, NEW h \in Segments, RingNext(h, SegmentBufferSize) # t
  PROVE  Span(t, RingNext(h, SegmentBufferSize)) = Span(t, h) \cup {h}
BY SizeAssumption DEF Span, Segments, RingNext, RingDist

(* Advancing the tail of a ring that is not empty takes out the old tail.    *)
LEMMA SpanPop ==
  ASSUME NEW t \in Segments, NEW h \in Segments, t # h
  PROVE  Span(RingNext(t, SegmentBufferSize), h) = Span(t, h) \ {t}
BY SizeAssumption DEF Span, Segments, RingNext, RingDist

(* A queued entry of a ring that is not full is at most size - 2 entries     *)
(* behind the head, and at least one.                                        *)
LEMMA SpanDist ==
  ASSUME NEW t \in Segments, NEW h \in Segments,
         RingNext(h, SegmentBufferSize) # t, NEW i \in Span(t, h)
  PROVE  RingDist(i, h, SegmentBufferSize) \in 1..SegmentBufferSize-2
BY SizeAssumption DEF Span, Segments, RingNext, RingDist

(* The slots and the ring sizes as the proofs below use them.                *)
LEMMA Sizes ==
  /\ SegmentBufferSize - 1 \in Nat
  /\ SegmentBufferSize - 1 >= 2
  /\ Slots = 0 .. (SegmentBufferSize - 1) - 1
  /\ \A s \in Slots : /\ RingNext(s, SegmentBufferSize - 1) \in Slots
                      /\ RingNext(s, SegmentBufferSize - 1) # s
  /\ \A i \in Segments : RingNext(i, SegmentBufferSize) \in Segments
BY SizeAssumption DEF Slots, Segments, RingNext
-------------------------------------------------------------------------------
(* What rounding up makes of a distance: nothing is left of nothing only,    *)
(* and whole blocks stay whole.                                              *)
LEMMA CeilBounds ==
  ASSUME NEW mm \in Nat, NEW s \in Ceil(mm)
  PROVE  /\ s \in 0..MaxSteps
         /\ mm = 0 <=> s = 0
         /\ 8 * (s - 1) <= mm /\ mm <= 8 * s
BY SizeAssumption DEF Ceil

LEMMA CeilWhole ==
  ASSUME NEW s \in 1..MaxSteps
  PROVE  8 * s \in 1 .. 8 * MaxSteps /\ s \in Ceil(8 * s)
BY SizeAssumption DEF Ceil

(* Between two roundings req_mm_increment is enough for a step, and so is    *)
(* the end of the block.                                                     *)
LEMMA AtLeastOneStep ==
  ASSUME NEW mm \in Nat, NEW s \in Ceil(mm), NEW rest \in Nat, NEW t \in Ceil(rest),
         mm > 0, rest = 0 \/ rest <= mm - req_mm_increment
  PROVE  t < s
<1>1. s \in Nat /\ t \in Nat /\ s > 0 /\ mm <= 8 * s /\ 8 * (t - 1) <= rest /\ (rest = 0 => t = 0)
  BY CeilBounds, SizeAssumption
<1> QED
  BY <1>1 DEF req_mm_increment

-------------------------------------------------------------------------------
(* Init: both rings are empty and nothing is loaded.                        *)
LEMMA InitIInv == Init => IInv
<1> SUFFICES ASSUME Init PROVE IInv
  OBVIOUS
<1>1. Queued = {}
  BY SizeAssumption DEF Init, Queued, Segments, RingDist
<1>2. TypeOK
  <2>1. /\ planned \in Seq(1..MaxSteps)
        /\ planTail \in 1 .. Len(planned) + 1
    BY DEF Init
  <2>2. /\ [id |-> 0, steps |-> 0] \in [id : Nat, steps : 0..MaxSteps]
        /\ 0 \in Slots /\ 0 \in Segments /\ 1 \in Segments
    BY SizeAssumption DEF Segments, Slots
  <2>3. [slot |-> 0, n |-> 0] \in [slot : Slots, n : 0..MaxSteps]
    BY <2>2, SizeAssumption
  <2> QED
    BY <2>1, <2>2, <2>3, SizeAssumption
    DEF Init, TypeOK, PlanTypeOK, PrepTypeOK, RingTypeOK, IsrTypeOK, SysTypeOK
<1> QED
  BY <1>1, <1>2, SizeAssumption
  DEF Init, IInv, HoldInv, PrepInv, Loaded, SlotsBehind, WithinBlock, Chained, ReachesSlot,
      SlotIntact, NoEmptySegment, HasBlock, RingNext

(* A step that touches neither the rings nor what is being cut, but may      *)
(* queue a block or turn a loaded block into one to recalculate.             *)
LEMMA Quiet ==
  ASSUME IInv, TypeOK',
         UNCHANGED <<ringVars, isrVars, planTail, distVars, slot>>,
         pc' = "publish" => FALSE,
         HoldInv', plBlock' => plBlock /\ (mm_complete > 0 => holding'),
         Loaded' <=> Loaded, ~(plBlock' /\ recalc'),
         Len(planned') >= Len(planned),
         \A b \in 1..Len(planned) : planned'[b] = planned[b]
  PROVE  IInv'
<1> USE DEF ringVars, isrVars, distVars
<1>1. Queued' = Queued
  BY DEF Queued
<1>2. TypeOK /\ PrepInv /\ WithinBlock
  BY DEF IInv
<1>a. Len(planned) \in Nat /\ Len(planned') \in Nat
  <2>1. planned \in Seq(1..MaxSteps) /\ planned' \in Seq(1..MaxSteps)
    BY <1>2 DEF TypeOK, PlanTypeOK
  <2> QED
    BY <2>1
<1>b. Loaded => HasBlock' /\ planned'[planTail] = planned[planTail]
  BY <1>2, <1>a DEF TypeOK, PlanTypeOK, PrepInv, HasBlock
<1>3. PrepInv'
  <2>1. (nextHead = RingNext(head, SegmentBufferSize))'
    BY <1>2 DEF PrepInv
  <2>2. (Loaded => /\ stBlock[slot].id = planTail /\ left \in 1..planned[planTail] /\ HasBlock
                    /\ left \in Ceil(millimeters))'
    BY <1>2, <1>b DEF PrepInv, Ceil
  <2>3. (plBlock => mm_complete <= millimeters /\ (mm_complete > 0 => holding))'
    BY <1>2 DEF PrepInv
  <2> QED
    BY <2>1, <2>2, <2>3 DEF PrepInv
<1>4. SlotsBehind'
  BY <1>1 DEF IInv, SlotsBehind
<1>5. WithinBlock'
  <2>1. \A b \in 1..Len(planned) : b \in 1..Len(planned')
    BY <1>a
  <2>2. outBlock \in 0..Len(planned')
    BY <1>2, <1>a DEF WithinBlock
  <2> QED
    BY <1>1, <1>2, <2>1, <2>2 DEF WithinBlock
<1>6. Chained'
  <2>1. ASSUME NEW b \in 0..Len(planned), NEW s, NEW e
        PROVE  /\ ReachesSlot(s, b, e) => ReachesSlot(s, b, e)'
               /\ \A j \in Segments : ReachesSegment(s, b, e, j) => ReachesSegment(s, b, e, j)'
    <3>1. b > 0 => planned'[b] = planned[b]
      BY <1>a
    <3> QED
      BY <3>1, <1>b DEF ReachesSlot, ReachesSegment, Follows
  <2>2. \A i \in Queued : i \in Segments /\ segBlock[i] \in 0..Len(planned)
    BY <1>2, <1>a DEF Queued, WithinBlock
  <2>3. outBlock \in 0..Len(planned) /\ tail \in Segments
    BY <1>2 DEF WithinBlock, TypeOK, IsrTypeOK
  <2>4. Chained
    BY DEF IInv
  <2>5. ASSUME NEW i \in Queued
        PROVE  LET j == RingNext(i, SegmentBufferSize)
               IN IF j = head THEN ReachesSlot(segment[i].slot, segBlock[i], segEnd[i])'
                              ELSE ReachesSegment(segment[i].slot, segBlock[i], segEnd[i], j)'
    BY <2>1, <2>2, <2>4, Sizes DEF Chained
  <2> QED
    BY <1>1, <2>1, <2>3, <2>4, <2>5 DEF Chained
<1>7. SlotIntact'
  BY <1>1 DEF IInv, SlotIntact
<1>8. NoEmptySegment'
  BY <1>1 DEF IInv, NoEmptySegment
<1> QED
  BY <1>3, <1>4, <1>5, <1>6, <1>7, <1>8 DEF IInv

-------------------------------------------------------------------------------
(* Every queued block has at least one step event.                           *)
LEMMA BlockSteps ==
  ASSUME NEW p \in Seq(1..MaxSteps), NEW b \in 1..Len(p)
  PROVE  p[b] \in 1..MaxSteps
BY SizeAssumption

(* A planner block the preparation can take has at least one step event.     *)
LEMMA CurrentBlock ==
  ASSUME TypeOK, HasBlock
  PROVE  /\ planned[planTail] \in 1..MaxSteps
         /\ planTail + 1 \in 1 .. Len(planned) + 1
<1>1. planned \in Seq(1..MaxSteps) /\ planTail \in 1 .. Len(planned) + 1 /\ planTail <= Len(planned)
  BY DEF TypeOK, PlanTypeOK, HasBlock
<1> QED
  BY <1>1, SizeAssumption

(* Every action keeps the types; the lengths of the rings come from Sizes.  *)
LEMMA NextTypeOK == IInv /\ [Next]_vars => TypeOK'
<1> SUFFICES ASSUME IInv, [Next]_vars PROVE TypeOK'
  OBVIOUS
<1> USE DEF vars, planVars, distVars, prepVars, ringVars, isrVars, sysVars, TypeOK
<1>1. TypeOK /\ PrepInv
  BY DEF IInv
<1>2. /\ UNCHANGED planVars => PlanTypeOK'
      /\ UNCHANGED prepVars => PrepTypeOK'
      /\ UNCHANGED ringVars => RingTypeOK'
      /\ UNCHANGED isrVars => IsrTypeOK'
      /\ UNCHANGED <<sysVars, on, cycleStop>> => SysTypeOK'
  <2>1. UNCHANGED planVars => PlanTypeOK'
    BY <1>1 DEF PlanTypeOK
  <2>2. UNCHANGED prepVars => PrepTypeOK'
    BY <1>1 DEF PrepTypeOK
  <2>3. UNCHANGED ringVars => RingTypeOK'
    BY <1>1 DEF RingTypeOK
  <2>4. UNCHANGED isrVars => IsrTypeOK'
    BY <1>1 DEF IsrTypeOK
  <2>5. UNCHANGED <<sysVars, on, cycleStop>> => SysTypeOK'
    BY <1>1 DEF SysTypeOK
  <2> QED
    BY <2>1, <2>2, <2>3, <2>4, <2>5
<1>3. ASSUME NEW n \in 1..MaxSteps, QueueBlock(n) PROVE TypeOK'
  <2>1. PlanTypeOK'
    BY <1>1, <1>3 DEF PlanTypeOK, QueueBlock
  <2>2. PrepTypeOK'
    BY <1>1, <1>3 DEF PrepTypeOK, QueueBlock, UpdatePlanBlock
  <2> QED
    BY <1>2, <1>3, <2>1, <2>2 DEF QueueBlock
<1>4. CASE FeedHold
  BY <1>1, <1>2, <1>4 DEF FeedHold, UpdatePlanBlock, PrepTypeOK, SysTypeOK
<1>5. CASE CycleStart
  BY <1>1, <1>2, <1>5 DEF CycleStart, PrepTypeOK, SysTypeOK
<1>6. CASE CycleStop
  <2>1. PrepTypeOK'
    BY <1>1, <1>6 DEF CycleStop, UpdatePlanBlock, PrepTypeOK
  <2>2. SysTypeOK'
    BY <1>1, <1>6 DEF CycleStop, SysTypeOK
  <2> QED
    BY <1>2, <1>6, <2>1, <2>2 DEF CycleStop
<1>7. CASE Override
  BY <1>1, <1>2, <1>7 DEF Override, UpdatePlanBlock, PrepTypeOK
<1>8. CASE CallPrep
  BY <1>1, <1>2, <1>8 DEF CallPrep, PrepTypeOK
<1>9. CASE PrepReturn
  BY <1>1, <1>2, <1>9 DEF PrepReturn, Return, PrepTypeOK
<1>10. CASE PrepLoad
  <2>1. planned[planTail] \in 1..MaxSteps
    BY <1>1, <1>10, CurrentBlock DEF PrepLoad
  <2>2. planTail \in Nat /\ RingNext(slot, SegmentBufferSize - 1) \in Slots
    BY <1>1, Sizes DEF PlanTypeOK, PrepTypeOK
  <2>3. PrepTypeOK'
    <3>1. planned[planTail] \in 0..MaxSteps /\ 8 * planned[planTail] \in 0 .. 8 * MaxSteps
      BY <2>1, SizeAssumption
    <3>2. /\ pc' = pc /\ wake' = wake /\ plBlock' = TRUE /\ recalc' = FALSE /\ mm_remaining' = mm_remaining
          /\ left' = left \/ left' = planned[planTail]
          /\ millimeters' = millimeters \/ millimeters' = 8 * planned[planTail]
          /\ slot' = slot \/ slot' = RingNext(slot, SegmentBufferSize - 1)
      BY <1>10 DEF PrepLoad
    <3>3. millimeters' \in 0 .. 8 * MaxSteps
      BY <1>1, <3>1, <3>2 DEF PrepTypeOK
    <3>4. mm_complete' \in 0 .. 8 * MaxSteps
      <4>1. mm_complete' \in 0..millimeters' \/ mm_complete' = 0
        BY <1>10 DEF PrepLoad
      <4> QED
        BY <3>3, <4>1, SizeAssumption
    <3> QED
      BY <1>1, <3>1, <3>2, <3>3, <3>4, <2>2 DEF PrepTypeOK
  <2>4. RingTypeOK'
    <3>1. [id |-> planTail, steps |-> planned[planTail]] \in [id : Nat, steps : 0..MaxSteps]
      BY <2>1, <2>2, SizeAssumption
    <3> QED
      BY <1>1, <1>10, <3>1 DEF RingTypeOK, PrepLoad
  <2> QED
    BY <1>2, <1>10, <2>3, <2>4 DEF PrepLoad
<1>11. CASE PrepSegment
  <2>a. left \in 0..MaxSteps /\ millimeters \in 0 .. 8 * MaxSteps /\ mm_complete \in 0 .. 8 * MaxSteps
    BY <1>1 DEF PrepTypeOK
  <2> PICK mm \in {mm_complete} \cup (mm_complete .. millimeters - req_mm_increment) :
        \E steps \in Ceil(mm) :
          /\ steps <= left
          /\ segment' = [segment EXCEPT ![head] = [slot |-> slot, n |-> left - steps]]
          /\ segEnd' = [segEnd EXCEPT ![head] = planned[planTail] - steps]
          /\ mm_remaining' = mm_remaining \/ mm_remaining' = mm
          /\ endMotion' \in BOOLEAN
          /\ pc' \in {"out", "publish", "wake"}
    BY <1>1, <1>11 DEF SysTypeOK, PrepSegment, Return
  <2> PICK steps \in Ceil(mm) :
        /\ steps <= left
        /\ segment' = [segment EXCEPT ![head] = [slot |-> slot, n |-> left - steps]]
        /\ segEnd' = [segEnd EXCEPT ![head] = planned[planTail] - steps]
        /\ mm_remaining' = mm_remaining \/ mm_remaining' = mm
        /\ endMotion' \in BOOLEAN
        /\ pc' \in {"out", "publish", "wake"}
    OBVIOUS
  <2>b. mm \in 0 .. 8 * MaxSteps
    BY <2>a, SizeAssumption DEF req_mm_increment
  <2>c. steps \in 0..MaxSteps /\ left - steps \in 0..MaxSteps
    BY <2>a, <2>b, CeilBounds, SizeAssumption
  <2>1. planned[planTail] \in 1..MaxSteps /\ planTail \in Nat
    <3>1. HasBlock
      BY <1>1, <1>11 DEF PrepInv, PrepSegment, Loaded
    <3> QED
      BY <1>1, <3>1, CurrentBlock DEF PlanTypeOK
  <2>2. slot \in Slots
    BY <1>1 DEF PrepTypeOK
  <2>3. [slot |-> slot, n |-> left - steps] \in [slot : Slots, n : 0..MaxSteps]
    BY <2>2, <2>c
  <2>4. planned[planTail] - steps \in Int
    BY <2>1, <2>c, SizeAssumption
  <2>5. RingTypeOK'
    BY <1>1, <1>11, <2>1, <2>3, <2>4 DEF RingTypeOK, PrepSegment
  <2>6. PrepTypeOK' /\ SysTypeOK'
    BY <1>1, <1>11, <2>b DEF PrepTypeOK, SysTypeOK, PrepSegment
  <2> QED
    BY <1>2, <1>11, <2>5, <2>6 DEF PrepSegment
<1>12. CASE PrepPublish
  <2>1. HasBlock /\ segment[head].n \in 1..left
    BY <1>1, <1>12 DEF PrepInv, PrepPublish, Loaded
  <2>2. left \in 0..MaxSteps
    BY <1>1 DEF PrepTypeOK
  <2>3. left' \in 0..MaxSteps
    BY <1>12, <2>1, <2>2, SizeAssumption DEF PrepPublish
  <2>4. planTail + 1 \in 1 .. Len(planned) + 1
    BY <1>1, <2>1, CurrentBlock
  <2>5. PlanTypeOK'
    BY <1>1, <1>12, <2>4 DEF PlanTypeOK, PrepPublish
  <2>6. RingNext(nextHead, SegmentBufferSize) \in Segments
    BY <1>1, Sizes DEF RingTypeOK
  <2>7. RingTypeOK'
    BY <1>1, <1>12, <2>6 DEF RingTypeOK, PrepPublish
  <2>8. PrepTypeOK' /\ SysTypeOK'
    <3>1. 0 \in 0 .. 8 * MaxSteps
      BY SizeAssumption
    <3>2. /\ millimeters' \in 0 .. 8 * MaxSteps /\ mm_complete' \in 0 .. 8 * MaxSteps
          /\ mm_remaining' \in 0 .. 8 * MaxSteps
      BY <1>1, <1>12, <3>1 DEF PrepTypeOK, PrepPublish
    <3>3. pc' \in {"out", "prep", "publish", "wake"} /\ plBlock' \in BOOLEAN /\ endMotion' \in BOOLEAN
      BY <1>1, <1>12 DEF PrepTypeOK, SysTypeOK, PrepPublish, Return
    <3> QED
      BY <1>1, <1>12, <2>3, <3>2, <3>3 DEF PrepTypeOK, SysTypeOK, PrepPublish
  <2> QED
    BY <1>2, <1>12, <2>5, <2>7, <2>8 DEF PrepPublish
<1>13. CASE WakeUp
  BY <1>1, <1>2, <1>13 DEF WakeUp, PrepTypeOK, SysTypeOK
<1>14. CASE IsrStep
  <2>1. /\ tail \in Segments /\ segment[tail].slot \in Slots /\ segment[tail].n \in 0..MaxSteps
        /\ stBlock[segment[tail].slot].id \in Nat
        /\ RingNext(tail, SegmentBufferSize) \in Segments
    BY <1>1, Sizes DEF RingTypeOK, IsrTypeOK
  <2>2. count' \in 0..MaxSteps
    <3>1. exec => count \in 1..MaxSteps
      BY <1>1 DEF IInv, NoEmptySegment, IsrTypeOK
    <3>2. ~exec => segment[tail].n \in 1..MaxSteps
      <4>1. head \in Segments
        BY <1>1 DEF RingTypeOK
      <4>2. ~exec => tail \in Queued
        BY <1>14, <2>1, <4>1, SpanEnds DEF IsrStep, Queued, Span
      <4> QED
        BY <2>1, <4>2 DEF IInv, NoEmptySegment
    <3> QED
      BY <1>14, <3>1, <3>2, SizeAssumption DEF IsrStep
  <2>3. IsrTypeOK'
    <3>1. tail' \in Segments /\ execSlot' \in Slots
      BY <1>1, <1>14, <2>1 DEF IsrTypeOK, IsrStep
    <3>2. exec' \in BOOLEAN
      BY <1>14 DEF IsrStep
    <3>3. outBlock' \in Nat
      BY <1>1, <1>14, <2>1 DEF IsrTypeOK, IsrStep
    <3>4. outDone' \in Nat
      BY <1>1, <1>14 DEF IsrTypeOK, IsrStep
    <3> QED
      BY <2>2, <3>1, <3>2, <3>3, <3>4 DEF IsrTypeOK
  <2> QED
    BY <1>2, <1>14, <2>3 DEF IsrStep
<1>15. CASE IsrEmpty
  BY <1>1, <1>2, <1>15 DEF IsrEmpty, SysTypeOK
<1>16. CASE UNCHANGED vars
  BY <1>2, <1>16
<1> QED
  BY <1>3, <1>4, <1>5, <1>6, <1>7, <1>8, <1>9, <1>10, <1>11, <1>12, <1>13, <1>14, <1>15, <1>16
  DEF Next, Main, Isr
-------------------------------------------------------------------------------
(* st_update_plan_block_parameters turns a loaded block into one to          *)
(* recalculate, so that the same block is taken up again.                    *)
LEMMA UpdateKeepsLoaded ==
  ASSUME PrepTypeOK, ~(plBlock /\ recalc), UpdatePlanBlock \/ UNCHANGED <<plBlock, recalc>>
  PROVE  (Loaded' <=> Loaded) /\ ~(plBlock' /\ recalc')
<1>1. plBlock \in BOOLEAN /\ recalc \in BOOLEAN
  BY DEF PrepTypeOK
<1>2. CASE UpdatePlanBlock
  <2>1. plBlock' = FALSE /\ recalc' = (recalc \/ plBlock)
    BY <1>2 DEF UpdatePlanBlock
  <2>2. recalc' <=> recalc \/ plBlock
    BY <1>1, <2>1
  <2> QED
    BY <2>1, <2>2 DEF Loaded
<1>3. CASE UNCHANGED <<plBlock, recalc>>
  BY <1>3 DEF Loaded
<1> QED
  BY <1>2, <1>3

(* IInv is inductive: one step per action.  The handlers of the main thread  *)
(* and the steps of st_prep_buffer that write no ring are Quiet.             *)
LEMMA MainIInv ==
  IInv /\ (\/ \E n \in 1..MaxSteps : QueueBlock(n)
           \/ FeedHold \/ CycleStart \/ CycleStop \/ Override \/ CallPrep \/ PrepReturn
           \/ WakeUp \/ IsrEmpty \/ UNCHANGED vars) => IInv'
<1> SUFFICES ASSUME IInv,
                    \/ \E n \in 1..MaxSteps : QueueBlock(n)
                    \/ FeedHold \/ CycleStart \/ CycleStop \/ Override \/ CallPrep \/ PrepReturn
                    \/ WakeUp \/ IsrEmpty \/ UNCHANGED vars
             PROVE  IInv'
  OBVIOUS
<1> USE DEF vars, planVars, distVars, prepVars, ringVars, isrVars, sysVars
<1>1. TypeOK' /\ TypeOK /\ ~(plBlock /\ recalc)
  BY NextTypeOK DEF IInv, PrepInv, Next, Main, Isr
<1>a. HoldInv /\ (plBlock => (mm_complete > 0 => holding))
  BY DEF IInv, PrepInv
<1>2. planned \in Seq(1..MaxSteps) /\ Len(planned) \in Nat
  <2>1. planned \in Seq(1..MaxSteps)
    BY <1>1 DEF TypeOK, PlanTypeOK
  <2> QED
    BY <2>1
<1>3. CASE \E n \in 1..MaxSteps : QueueBlock(n)
  <2>1. PICK n \in 1..MaxSteps : QueueBlock(n)
    BY <1>3
  <2>2. Len(planned') >= Len(planned) /\ \A b \in 1..Len(planned) : planned'[b] = planned[b]
    BY <1>2, <2>1 DEF QueueBlock
  <2>3. (Loaded' <=> Loaded) /\ ~(plBlock' /\ recalc') /\ pc' # "publish"
    <3>1. UpdatePlanBlock \/ UNCHANGED <<plBlock, recalc>>
      BY <2>1 DEF QueueBlock
    <3>2. (Loaded' <=> Loaded) /\ ~(plBlock' /\ recalc')
      BY <1>1, <3>1, UpdateKeepsLoaded DEF TypeOK
    <3>3. pc' # "publish"
      BY <2>1 DEF QueueBlock
    <3> QED
      BY <3>2, <3>3
  <2>4. HoldInv' /\ (plBlock' => plBlock /\ (mm_complete > 0 => holding'))
    BY <1>a, <2>1 DEF QueueBlock, HoldInv, UpdatePlanBlock
  <2> QED
    BY <1>1, <2>1, <2>2, <2>3, <2>4, Quiet DEF QueueBlock
<1>4. CASE FeedHold \/ CycleStop \/ Override
  <2>1. (Loaded' <=> Loaded) /\ ~(plBlock' /\ recalc') /\ pc' # "publish"
    <3>1. UpdatePlanBlock \/ UNCHANGED <<plBlock, recalc>>
      BY <1>4 DEF FeedHold, CycleStop, Override
    <3>2. (Loaded' <=> Loaded) /\ ~(plBlock' /\ recalc')
      BY <1>1, <3>1, UpdateKeepsLoaded DEF TypeOK
    <3>3. pc' # "publish"
      BY <1>4 DEF FeedHold, CycleStop, Override
    <3> QED
      BY <3>2, <3>3
  <2>2. UNCHANGED <<planned, planTail, ringVars, isrVars, distVars, slot>>
    BY <1>4 DEF FeedHold, CycleStop, Override
  <2>3. Len(planned') >= Len(planned) /\ \A b \in 1..Len(planned) : planned'[b] = planned[b]
    BY <1>2, <2>2
  <2>4. HoldInv' /\ (plBlock' => plBlock /\ (mm_complete > 0 => holding'))
    <3>1. CASE FeedHold
      BY <1>a, <3>1 DEF FeedHold, HoldInv, UpdatePlanBlock
    <3>2. CASE CycleStop
      BY <1>a, <3>2 DEF CycleStop, HoldInv, UpdatePlanBlock
    <3>3. CASE Override
      BY <1>a, <3>3 DEF Override, HoldInv, UpdatePlanBlock
    <3> QED
      BY <1>4, <3>1, <3>2, <3>3
  <2> QED
    BY <1>1, <2>1, <2>2, <2>3, <2>4, Quiet
<1>5. CASE CycleStart \/ CallPrep \/ PrepReturn \/ WakeUp
  <2>1. (Loaded' <=> Loaded) /\ ~(plBlock' /\ recalc') /\ pc' # "publish"
    <3>1. UNCHANGED <<plBlock, recalc>>
      BY <1>5 DEF CycleStart, CallPrep, PrepReturn, WakeUp
    <3>2. pc' # "publish"
      BY <1>5 DEF CycleStart, CallPrep, PrepReturn, WakeUp, Return
    <3> QED
      BY <1>1, <3>1, <3>2 DEF Loaded
  <2>2. UNCHANGED <<planned, planTail, ringVars, isrVars, distVars, slot>>
    BY <1>5 DEF CycleStart, CallPrep, PrepReturn, WakeUp
  <2>3. Len(planned') >= Len(planned) /\ \A b \in 1..Len(planned) : planned'[b] = planned[b]
    BY <1>2, <2>2
  <2>4. HoldInv' /\ (plBlock' => plBlock /\ (mm_complete > 0 => holding'))
    BY <1>a, <1>5 DEF CycleStart, CallPrep, PrepReturn, WakeUp, HoldInv
  <2> QED
    BY <1>1, <2>1, <2>2, <2>3, <2>4, Quiet
<1>6. CASE IsrEmpty \/ UNCHANGED vars
  <2>1. UNCHANGED <<planned, planTail, prepVars, ringVars, isrVars, sysVars>>
    BY <1>6 DEF IsrEmpty
  <2> USE DEF IInv, HoldInv, PrepInv, Ceil, SlotsBehind, WithinBlock, Chained, ReachesSlot, ReachesSegment, Follows,
              SlotIntact, NoEmptySegment, Queued, Loaded, HasBlock
  <2> QED
    BY <1>1, <2>1
<1> QED
  BY <1>3, <1>4, <1>5, <1>6

(* The facts about types the next lemmas share.                              *)
LEMMA TypeFacts ==
  ASSUME IInv
  PROVE  /\ planned \in Seq(1..MaxSteps) /\ Len(planned) \in Nat /\ planTail \in Nat
         /\ left \in Nat /\ slot \in Slots
         /\ millimeters \in Nat /\ mm_complete \in Nat /\ mm_remaining \in Nat
         /\ head \in Segments /\ nextHead \in Segments /\ tail \in Segments
         /\ execSlot \in Slots /\ outBlock \in Nat /\ outDone \in Nat /\ count \in Nat
         /\ \A i \in Segments : /\ segment[i].slot \in Slots /\ segment[i].n \in Nat
                                /\ segBlock[i] \in Nat /\ segEnd[i] \in Int
         /\ Queued = Span(tail, head)
         /\ Queued \subseteq Segments
         /\ plBlock \in BOOLEAN /\ recalc \in BOOLEAN /\ exec \in BOOLEAN
<1>1. PlanTypeOK /\ PrepTypeOK /\ RingTypeOK /\ IsrTypeOK
  BY DEF IInv, TypeOK
<1>2. planned \in Seq(1..MaxSteps) /\ planTail \in Nat
  BY <1>1 DEF PlanTypeOK
<1>3. Len(planned) \in Nat
  BY <1>2
<1>4. Queued = Span(tail, head) /\ Queued \subseteq Segments
  BY DEF Queued, Span
<1>5. /\ left \in Nat /\ slot \in Slots /\ plBlock \in BOOLEAN /\ recalc \in BOOLEAN
      /\ millimeters \in Nat /\ mm_complete \in Nat /\ mm_remaining \in Nat
  BY <1>1 DEF PrepTypeOK
<1>6. /\ head \in Segments /\ nextHead \in Segments
      /\ \A i \in Segments : /\ segment[i].slot \in Slots /\ segment[i].n \in Nat
                             /\ segBlock[i] \in Nat /\ segEnd[i] \in Int
  BY <1>1 DEF RingTypeOK
<1>7. /\ tail \in Segments /\ execSlot \in Slots /\ outBlock \in Nat /\ outDone \in Nat
      /\ count \in Nat /\ exec \in BOOLEAN
  BY <1>1 DEF IsrTypeOK
<1> QED
  BY <1>2, <1>3, <1>4, <1>5, <1>6, <1>7

(* Loading a block overwrites the slot after the one in use.  The ring is    *)
(* not full, so a queued segment is less than that far behind the head, and  *)
(* SlotsBehind keeps its slot clear of the one overwritten.                  *)
LEMMA LoadIInv == IInv /\ PrepLoad => IInv'
<1> SUFFICES ASSUME IInv, PrepLoad PROVE IInv'
  OBVIOUS
<1> USE DEF vars, planVars, distVars, prepVars, ringVars, isrVars, sysVars
<1> DEFINE M == SegmentBufferSize - 1
<1>1. TypeOK'
  BY NextTypeOK DEF Next, Main
<1>2. /\ Queued' = Queued
      /\ nextHead # tail /\ nextHead = RingNext(head, SegmentBufferSize)
      /\ plBlock = FALSE /\ HasBlock /\ Loaded'
      /\ UNCHANGED <<planned, planTail, segment, head, nextHead, segBlock, segEnd, isrVars>>
  BY TypeFacts DEF IInv, PrepInv, PrepLoad, Queued, Loaded
<1>a. HoldInv'
  BY DEF IInv, HoldInv, PrepLoad
<1>b. mm_complete' <= millimeters' /\ (mm_complete' > 0 => holding')
  <2>1. millimeters' \in Nat
    BY <1>1 DEF TypeOK, PrepTypeOK
  <2>2. mm_complete' \in (IF holding THEN 0..millimeters' ELSE {0}) /\ holding' = holding
    BY DEF PrepLoad
  <2> QED
    BY <2>1, <2>2
<1>3. CASE recalc
  <2>1. UNCHANGED <<slot, stBlock, left, millimeters, pc>> /\ Loaded /\ recalc' = FALSE /\ plBlock' = TRUE /\ pc # "publish"
    BY <1>3 DEF PrepLoad, Loaded
  <2>2. PrepInv'
    BY <1>2, <1>b, <2>1 DEF IInv, PrepInv, HasBlock, Ceil
  <2>3. SlotsBehind' /\ WithinBlock' /\ SlotIntact' /\ NoEmptySegment' /\ (exec => head # tail)'
    BY <1>2, <2>1 DEF IInv, SlotsBehind, WithinBlock, SlotIntact, NoEmptySegment
  <2>4. Chained'
    BY <1>2, <2>1 DEF IInv, Chained, ReachesSlot, ReachesSegment, Follows
  <2> QED
    BY <1>1, <1>a, <2>2, <2>3, <2>4 DEF IInv
<1>4. CASE ~recalc
  <2>1. /\ ~Loaded
        /\ slot' = RingNext(slot, M) /\ left' = planned[planTail] /\ pc' = pc /\ pc # "publish"
        /\ stBlock' = [stBlock EXCEPT ![slot'] = [id |-> planTail, steps |-> planned[planTail]]]
        /\ ~recalc' /\ plBlock' /\ millimeters' = 8 * planned[planTail]
    BY <1>2, <1>4 DEF PrepLoad, Loaded
  <2>2. planned[planTail] \in 1..MaxSteps /\ slot' \in Slots /\ planned[planTail] \in Int
    <3>1. TypeOK
      BY DEF IInv
    <3> QED
      BY <1>2, <2>1, <3>1, CurrentBlock, Sizes, TypeFacts
  <2>3. stBlock'[slot'].id = planTail /\ \A s \in Slots : s # slot' => stBlock'[s] = stBlock[s]
    <3>1. stBlock \in [Slots -> [id : Nat, steps : 0..MaxSteps]]
      BY DEF IInv, TypeOK, RingTypeOK
    <3> QED
      BY <2>1, <2>2, <3>1
  <2>4. ASSUME NEW i \in Queued
        PROVE  /\ segment[i].slot # slot'
               /\ RingDist(segment[i].slot, slot', M) <= RingDist(i, head, SegmentBufferSize)
               /\ RingDist(i, head, SegmentBufferSize) \in Int
    <3>1. segment[i].slot \in Slots /\ i \in Segments /\ slot \in Slots
      BY TypeFacts
    <3>2. RingDist(i, head, SegmentBufferSize) \in 1..SegmentBufferSize-2
      BY <1>2, SpanDist, TypeFacts
    <3>3. RingDist(segment[i].slot, slot, M) <= RingDist(i, head, SegmentBufferSize) - 1
      BY <2>1 DEF IInv, SlotsBehind
    <3>a. RingDist(segment[i].slot, slot, M) \in Nat
      BY <3>1, SizeAssumption DEF RingDist, Slots
    <3>4. RingDist(segment[i].slot, slot, M) <= M - 2
      BY <3>2, <3>3, <3>a, SizeAssumption
    <3>5. segment[i].slot # RingNext(slot, M)
      BY <3>1, <3>4, SizeAssumption DEF RingNext, RingDist, Slots
    <3>6. RingDist(segment[i].slot, RingNext(slot, M), M) = RingDist(segment[i].slot, slot, M) + 1
      BY <3>1, <3>5, SizeAssumption DEF RingNext, RingDist, Slots
    <3> QED
      BY <2>1, <3>2, <3>3, <3>a, <3>5, <3>6, SizeAssumption
  <2>5. PrepInv'
    <3>1. planned[planTail] \in Ceil(8 * planned[planTail])
      BY <2>2, CeilWhole
    <3>2. left' \in Ceil(millimeters)'
      BY <2>1, <3>1 DEF Ceil
    <3> QED
      BY <1>2, <1>b, <2>1, <2>2, <2>3, <3>2 DEF PrepInv, HasBlock
  <2>6. SlotsBehind'
    BY <1>2, <2>4 DEF SlotsBehind
  <2>7. SlotIntact'
    BY <1>2, <2>3, <2>4, TypeFacts DEF IInv, SlotIntact
  <2>8. WithinBlock' /\ NoEmptySegment' /\ (exec => head # tail)'
    BY <1>2 DEF IInv, WithinBlock, NoEmptySegment
  <2>9. Chained'
    <3>1. ASSUME NEW s, NEW b \in Nat, NEW e, ReachesSlot(s, b, e)
          PROVE  ReachesSlot(s, b, e)'
      BY <1>2, <2>1, <2>2, <3>1, TypeFacts DEF ReachesSlot, Follows
    <3>2. ASSUME NEW s, NEW b, NEW e, NEW j, ReachesSegment(s, b, e, j)
          PROVE  ReachesSegment(s, b, e, j)'
      BY <1>2, <3>2 DEF ReachesSegment, Follows
    <3>3. Chained
      BY DEF IInv
    <3>4. ASSUME NEW i \in Queued
          PROVE  LET j == RingNext(i, SegmentBufferSize)
                 IN IF j = head THEN ReachesSlot(segment[i].slot, segBlock[i], segEnd[i])'
                                ELSE ReachesSegment(segment[i].slot, segBlock[i], segEnd[i], j)'
      <4>1. segBlock[i] \in Nat
        BY TypeFacts
      <4> QED
        BY <1>2, <3>1, <3>2, <3>3, <4>1 DEF Chained
    <3> QED
      BY <1>2, <3>1, <3>2, <3>3, <3>4, TypeFacts DEF Chained
  <2> QED
    BY <1>1, <1>a, <2>5, <2>6, <2>7, <2>8, <2>9 DEF IInv
<1> QED
  BY <1>3, <1>4

(* Cutting a segment writes only the entry at the head, which is not queued. *)
LEMMA SegmentIInv == IInv /\ PrepSegment => IInv'
<1> SUFFICES ASSUME IInv, PrepSegment PROVE IInv'
  OBVIOUS
<1> USE DEF vars, planVars, distVars, prepVars, ringVars, isrVars, sysVars
<1>1. TypeOK'
  BY NextTypeOK DEF Next, Main
<1>m. PICK mm \in {mm_complete} \cup (mm_complete .. millimeters - req_mm_increment) :
        \E steps \in Ceil(mm) :
          /\ steps <= left
          /\ segment' = [segment EXCEPT ![head] = [slot |-> slot, n |-> left - steps]]
          /\ segEnd' = [segEnd EXCEPT ![head] = planned[planTail] - steps]
          /\ pc' = "publish" => ~(steps = left /\ holding) /\ mm_remaining' = mm
  BY DEF PrepSegment, Return
<1>a. PICK steps \in Ceil(mm) :
        /\ steps <= left
        /\ segment' = [segment EXCEPT ![head] = [slot |-> slot, n |-> left - steps]]
        /\ segEnd' = [segEnd EXCEPT ![head] = planned[planTail] - steps]
        /\ pc' = "publish" => ~(steps = left /\ holding) /\ mm_remaining' = mm
  BY <1>m
<1>3. /\ segBlock' = [segBlock EXCEPT ![head] = planTail]
      /\ plBlock /\ nextHead # tail
      /\ UNCHANGED <<planned, planTail, plBlock, recalc, left, millimeters, mm_complete, slot, stBlock,
                     head, nextHead, isrVars, state, holding, holdComplete>>
  BY DEF PrepSegment
<1>b. /\ Loaded /\ left \in 1..planned[planTail] /\ left \in Ceil(millimeters)
      /\ mm_complete <= millimeters /\ (mm_complete > 0 => holding)
  BY <1>3 DEF IInv, PrepInv, Loaded
<1>c. mm \in Nat /\ mm_complete <= mm /\ millimeters \in Nat /\ millimeters > 0
      /\ left \in Nat /\ planned[planTail] \in Nat
  <2>1. millimeters \in Nat /\ mm_complete \in Nat /\ left \in Nat
    BY TypeFacts
  <2>2. HasBlock
    BY <1>3 DEF IInv, PrepInv, Loaded
  <2>3. planned[planTail] \in 1..MaxSteps
    BY <2>2, CurrentBlock DEF IInv
  <2>4. mm \in Nat /\ mm_complete <= mm
    BY <2>1 DEF req_mm_increment
  <2>5. millimeters > 0
    BY <1>b, <2>1, CeilBounds
  <2> QED
    BY <2>1, <2>3, <2>4, <2>5, SizeAssumption
<1>d. steps \in Nat
  BY <1>c, CeilBounds, SizeAssumption
(* Outside a hold the deceleration ends at the end of the block.             *)
<1>e. ~holding => steps < left
  <2>1. SUFFICES ASSUME ~holding PROVE steps < left
    OBVIOUS
  <2>2. mm = 0 \/ mm <= millimeters - req_mm_increment
    BY <1>b, <1>c, <2>1, TypeFacts DEF req_mm_increment
  <2> QED
    BY <1>b, <1>c, <2>2, AtLeastOneStep
<1> PICK n : n = left - steps
  OBVIOUS
<1>2. /\ pc' = "publish" => n \in 1..left /\ left - n \in Ceil(mm) /\ mm_remaining' = mm
      /\ segment' = [segment EXCEPT ![head] = [slot |-> slot, n |-> n]]
      /\ segEnd' = [segEnd EXCEPT ![head] = planned[planTail] - left + n]
  <2>1. planned[planTail] - left + n = planned[planTail] - steps /\ left - n = steps
    BY <1>c, <1>d
  <2>2. pc' = "publish" => n \in 1..left
    BY <1>a, <1>c, <1>d, <1>e
  <2> QED
    BY <1>a, <2>1, <2>2
<1>f. HoldInv'
  BY <1>3 DEF IInv, HoldInv
<1>4. /\ head \in Segments /\ head \notin Queued /\ Queued' = Queued
      /\ \A i \in Segments : i # head => /\ segment'[i] = segment[i]
                                         /\ segEnd'[i] = segEnd[i]
                                         /\ segBlock'[i] = segBlock[i]
      /\ segment'[head] = [slot |-> slot, n |-> n]
      /\ segEnd'[head] = planned[planTail] - left + n
      /\ segBlock'[head] = planTail
  <2>1. head \in Segments /\ head \notin Queued /\ Queued' = Queued
    BY <1>3, SpanEnds, TypeFacts DEF Queued
  <2>2. /\ segment \in [Segments -> [slot : Slots, n : 0..MaxSteps]]
        /\ segBlock \in [Segments -> Nat] /\ segEnd \in [Segments -> Int]
    BY DEF IInv, TypeOK, RingTypeOK
  <2> QED
    BY <1>2, <1>3, <2>1, <2>2
<1>5. \A i \in Queued : /\ segment'[i] = segment[i] /\ segEnd'[i] = segEnd[i]
                        /\ segBlock'[i] = segBlock[i] /\ i \in Segments
  BY <1>4, TypeFacts
<1>6. exec \/ head # tail => tail \in Queued
  BY SpanEnds, TypeFacts DEF IInv
<1>7. PrepInv'
  <2>1. (Loaded => /\ stBlock[slot].id = planTail /\ left \in 1..planned[planTail] /\ HasBlock
                    /\ left \in Ceil(millimeters))'
    BY <1>3 DEF IInv, PrepInv, Loaded, HasBlock, Ceil
  <2>2. (pc = "publish" => left - segment[head].n \in Ceil(mm_remaining) /\ mm_complete <= mm_remaining)'
    BY <1>2, <1>3, <1>4, <1>c DEF Ceil
  <2>4. (plBlock => mm_complete <= millimeters /\ (mm_complete > 0 => holding))'
    BY <1>3 DEF IInv, PrepInv
  <2>3. (nextHead = RingNext(head, SegmentBufferSize) /\ ~(plBlock /\ recalc))'
    BY <1>3 DEF IInv, PrepInv
  <2> QED
    BY <1>2, <1>3, <1>4, <2>1, <2>2, <2>3, <2>4 DEF PrepInv
<1>8. SlotsBehind'
  BY <1>3, <1>4, <1>5 DEF IInv, SlotsBehind, Loaded
<1>9. WithinBlock' /\ NoEmptySegment' /\ (exec => head # tail)'
  BY <1>3, <1>4, <1>5 DEF IInv, WithinBlock, NoEmptySegment
<1>10. SlotIntact'
  BY <1>3, <1>4, <1>5, <1>6 DEF IInv, SlotIntact
<1>11. Chained'
  <2>1. ASSUME NEW s, NEW b, NEW e, ReachesSlot(s, b, e)
        PROVE  ReachesSlot(s, b, e)'
    BY <1>3, <2>1 DEF ReachesSlot, Follows, Loaded
  <2>2. ASSUME NEW s, NEW b, NEW e, NEW j \in Queued, ReachesSegment(s, b, e, j)
        PROVE  ReachesSegment(s, b, e, j)'
    BY <1>3, <1>5, <2>2 DEF ReachesSegment, Follows
  <2>3. Chained
    BY DEF IInv
  <2>4. ASSUME NEW i \in Queued
        PROVE  LET j == RingNext(i, SegmentBufferSize)
               IN IF j = head THEN ReachesSlot(segment[i].slot, segBlock[i], segEnd[i])'
                              ELSE ReachesSegment(segment[i].slot, segBlock[i], segEnd[i], j)'
    <3>1. RingNext(i, SegmentBufferSize) \in Queued \cup {head}
      BY SpanEnds, TypeFacts
    <3> QED
      BY <1>5, <2>1, <2>2, <2>3, <3>1 DEF Chained
  <2> QED
    BY <1>3, <1>4, <1>5, <1>6, <2>1, <2>2, <2>3, <2>4 DEF Chained
<1> QED
  BY <1>1, <1>7, <1>8, <1>9, <1>10, <1>11, <1>f DEF IInv

(* Publishing queues the entry at the head; what is left of the block, or    *)
(* the block after it, is what the next segment goes on from.                *)
LEMMA PublishIInv == IInv /\ PrepPublish => IInv'
<1> SUFFICES ASSUME IInv, PrepPublish PROVE IInv'
  OBVIOUS
<1> USE DEF vars, planVars, distVars, prepVars, ringVars, isrVars, sysVars
<1> DEFINE M == SegmentBufferSize - 1
<1>1. TypeOK'
  BY NextTypeOK DEF Next, Main
<1>2. /\ nextHead = RingNext(head, SegmentBufferSize) /\ nextHead # tail
      /\ plBlock /\ ~recalc /\ Loaded /\ HasBlock
      /\ stBlock[slot].id = planTail /\ left \in 1..planned[planTail]
      /\ segment[head].slot = slot /\ segBlock[head] = planTail
      /\ segment[head].n \in 1..left
      /\ segEnd[head] = planned[planTail] - left + segment[head].n
      /\ left - segment[head].n \in Ceil(mm_remaining) /\ mm_complete <= mm_remaining
      /\ mm_complete > 0 => holding
  BY DEF IInv, PrepInv, PrepPublish, Loaded
<1>a. /\ planned[planTail] \in Nat /\ left \in Nat /\ planTail \in Nat /\ slot \in Slots
      /\ segment[head].n \in Nat
  <2>1. TypeOK
    BY DEF IInv
  <2> QED
    BY <1>2, <2>1, CurrentBlock, TypeFacts, SizeAssumption
<1>3. /\ head' = nextHead /\ nextHead' = RingNext(nextHead, SegmentBufferSize)
      /\ left' = left - segment[head].n
      /\ UNCHANGED <<planned, slot, stBlock, segment, segBlock, segEnd, isrVars>>
      /\ pc' # "publish" /\ recalc' = recalc
      /\ millimeters' = mm_remaining /\ mm_complete' = mm_complete
      /\ UNCHANGED <<state, holding, holdComplete>>
  BY DEF PrepPublish, Return
<1>b. HoldInv'
  BY <1>3 DEF IInv, HoldInv
<1>4. \/ left' > 0 /\ Loaded' /\ planTail' = planTail /\ plBlock'
      \/ left' = 0 /\ ~Loaded' /\ planTail' = planTail + 1 /\ ~plBlock'
  <2>1. left' \in Nat /\ (left' = 0 <=> mm_remaining = 0)
    <3>1. left' \in Ceil(mm_remaining) /\ mm_remaining \in Nat
      BY <1>2, <1>3, TypeFacts
    <3>2. left' \in Nat
      BY <1>2, <1>3, <1>a
    <3> QED
      BY <3>1, <3>2, CeilBounds
  <2>3. mm_complete \in Nat /\ mm_remaining \in Nat
    BY TypeFacts
  <2>2. \/ left' > 0 /\ planTail' = planTail /\ plBlock'
        \/ left' = 0 /\ planTail' = planTail + 1 /\ ~plBlock'
    <3>1. CASE mm_remaining = mm_complete /\ mm_complete > 0
      <4>1. left' > 0
        BY <2>1, <2>3, <3>1
      <4> QED
        BY <1>2, <3>1, <4>1 DEF PrepPublish
    <3>2. CASE mm_remaining = mm_complete /\ mm_complete = 0
      BY <2>1, <2>3, <3>2 DEF PrepPublish
    <3>3. CASE mm_remaining # mm_complete
      <4>1. left' > 0
        BY <1>2, <2>1, <2>3, <3>3
      <4> QED
        BY <1>2, <3>3, <4>1 DEF PrepPublish
    <3>4. mm_complete > 0 \/ mm_complete = 0
      BY <2>3
    <3> QED
      BY <3>1, <3>2, <3>3, <3>4
  <2> QED
    BY <1>2, <1>3, <2>2 DEF Loaded
<1>5. /\ head # head' /\ head \in Segments /\ head' \in Segments /\ head' # tail
      /\ Queued' = Queued \cup {head}
      /\ head \notin Queued
      /\ tail \in Segments /\ (head # tail => tail \in Queued)
  <2>1. head' \in Segments /\ head \in Segments /\ tail \in Segments /\ head' # tail
    BY <1>2, <1>3, TypeFacts
  <2>2. head # head'
    BY <1>2, <1>3, <2>1, SizeAssumption DEF RingNext, Segments
  <2>3. Span(tail, RingNext(head, SegmentBufferSize)) = Span(tail, head) \cup {head}
    BY <1>2, <2>1, SpanPush
  <2>4. Queued' = Span(tail, RingNext(head, SegmentBufferSize)) /\ Queued = Span(tail, head)
    BY <1>2, <1>3 DEF Queued, Span
  <2> QED
    BY <2>1, <2>2, <2>3, <2>4, SpanEnds
<1>6. PrepInv'
  <2>1. left' \in Nat
    BY <1>2, <1>3, TypeFacts
  <2>2. Loaded' => left' \in 1..planned[planTail]
    BY <1>2, <1>a, <1>3, <1>4, <2>1
  <2>3. left' \in Ceil(millimeters)'
    BY <1>2, <1>3 DEF Ceil
  <2> QED
    BY <1>2, <1>3, <1>4, <2>2, <2>3 DEF PrepInv, HasBlock
<1>7. SlotsBehind'
  <2>1. ASSUME NEW i \in Queued
        PROVE  /\ RingDist(segment[i].slot, slot, M) \in Int
               /\ RingDist(i, head, SegmentBufferSize) \in Int
               /\ RingDist(i, head', SegmentBufferSize) = RingDist(i, head, SegmentBufferSize) + 1
    <3>1. i \in Segments /\ segment[i].slot \in Slots /\ slot \in Slots
      BY TypeFacts
    <3>2. i # head'
      BY <1>2, <1>3, <1>5, <3>1, SizeAssumption, TypeFacts DEF Queued, RingNext, RingDist, Segments
    <3>3. RingDist(i, RingNext(head, SegmentBufferSize), SegmentBufferSize)
            = RingDist(i, head, SegmentBufferSize) + 1
      BY <1>2, <1>3, <1>5, <3>1, <3>2, RingFar, SizeAssumption DEF Segments
    <3>4. /\ RingDist(segment[i].slot, slot, M) \in Int
          /\ RingDist(i, head, SegmentBufferSize) \in Int
      BY <1>5, <3>1, SizeAssumption DEF RingDist, Slots, Segments
    <3> QED
      BY <1>2, <1>3, <3>3, <3>4
  <2>2. RingDist(segment[head].slot, slot, M) = 0
    BY <1>2, SizeAssumption, TypeFacts DEF RingDist, Slots
  <2>3. RingDist(head, head', SegmentBufferSize) = 1
    BY <1>2, <1>3, <1>5, SizeAssumption DEF RingDist, RingNext, Segments
  <2>4. ASSUME NEW i \in Queued
        PROVE  RingDist(segment[i].slot, slot, M)
                 <= RingDist(i, head', SegmentBufferSize) - (IF Loaded' THEN 0 ELSE 1)
    <3>1. RingDist(segment[i].slot, slot, M) <= RingDist(i, head, SegmentBufferSize)
      BY <1>2, <2>1 DEF IInv, SlotsBehind
    <3> QED
      BY <2>1, <3>1
  <2>5. RingDist(segment[head].slot, slot, M)
          <= RingDist(head, head', SegmentBufferSize) - (IF Loaded' THEN 0 ELSE 1)
    BY <2>2, <2>3
  <2> QED
    BY <1>3, <1>5, <2>4, <2>5 DEF SlotsBehind
<1>8. WithinBlock'
  <2>1. segBlock[head] \in 1..Len(planned)
    <3>1. planTail \in 1..Len(planned) + 1
      BY DEF IInv, TypeOK, PlanTypeOK
    <3> QED
      BY <1>2, <3>1, TypeFacts DEF HasBlock
  <2>2. segEnd[head] \in segment[head].n .. planned[segBlock[head]]
    BY <1>2, <1>a
  <2> QED
    BY <1>3, <1>5, <2>1, <2>2 DEF IInv, WithinBlock
<1>9. SlotIntact' /\ NoEmptySegment' /\ (exec => head # tail)'
  BY <1>2, <1>3, <1>5 DEF IInv, SlotIntact, NoEmptySegment
<1>10. Chained'
  <2> PICK h : h = head
    OBVIOUS
  <2>1. ASSUME NEW s, NEW b, NEW e, ReachesSlot(s, b, e)
        PROVE  ReachesSegment(s, b, e, h)'
    <3>1. segEnd[head] - segment[head].n = planned[planTail] - left
      BY <1>2, <1>a
    <3> QED
      BY <1>2, <1>3, <2>1, <3>1 DEF ReachesSlot, ReachesSegment, Follows
  <2>2. ASSUME NEW s, NEW b, NEW e, NEW j, ReachesSegment(s, b, e, j)
        PROVE  ReachesSegment(s, b, e, j)'
    BY <1>3, <2>2 DEF ReachesSegment, Follows
  <2>3. ReachesSlot(segment[h].slot, segBlock[h], segEnd[h])'
    <3>1. CASE Loaded'
      <4>1. planned[planTail] - left + segment[head].n = planned[planTail] - (left - segment[head].n)
        BY <1>a
      <4> QED
        BY <1>2, <1>3, <1>4, <3>1, <4>1 DEF ReachesSlot, Follows
    <3>2. CASE ~Loaded'
      <4>2. left - segment[head].n = 0 /\ planTail' = planTail + 1
        BY <1>3, <1>4, <3>2
      <4>1. segEnd[head] = planned[planTail] /\ planTail' - 1 = planTail
        BY <1>2, <1>a, <4>2
      <4> QED
        BY <1>2, <1>3, <3>2, <4>1 DEF ReachesSlot
    <3> QED
      BY <3>1, <3>2
  <2>4. Chained
    BY DEF IInv
  <2>5. ASSUME NEW i \in Queued
        PROVE  LET j == RingNext(i, SegmentBufferSize)
               IN /\ j # head'
                  /\ ReachesSegment(segment[i].slot, segBlock[i], segEnd[i], j)'
    <3>1. RingNext(i, SegmentBufferSize) # head'
      BY SMTT(30), <1>2, <1>3, <1>5, SizeAssumption, TypeFacts DEF Queued, RingNext, RingDist, Segments
    <3> QED
      BY <1>3, <2>1, <2>2, <2>4, <3>1 DEF Chained
  <2>6. ~exec => ReachesSegment(execSlot, outBlock, outDone, tail)'
    BY <1>3, <2>1, <2>2, <2>4 DEF Chained
  <2>7. (exec => outDone = segEnd[tail] - count)'
    BY <1>3, <2>4 DEF Chained
  <2> QED
    BY <1>2, <1>3, <1>5, <2>3, <2>5, <2>6, <2>7 DEF Chained
<1> QED
  BY <1>1, <1>6, <1>7, <1>8, <1>9, <1>10, <1>b DEF IInv

(* A step event: the interrupt is inside the segment at the tail or goes on  *)
(* to it, and Chained says that a change of slot is a change of block.       *)
LEMMA IsrIInv == IInv /\ IsrStep => IInv'
<1> SUFFICES ASSUME IInv, IsrStep PROVE IInv'
  OBVIOUS
<1> USE DEF vars, planVars, distVars, prepVars, ringVars, isrVars, sysVars
<1>1. TypeOK'
  BY NextTypeOK DEF Next, Isr
<1>2. /\ head # tail /\ tail \in Queued /\ head \in Segments /\ tail \in Segments
      /\ UNCHANGED <<planVars, prepVars, ringVars>>
  BY SpanEnds, TypeFacts DEF IInv, IsrStep
<1>3. /\ segment[tail].n \in Nat /\ segment[tail].n > 0
      /\ segBlock[tail] \in 1..Len(planned) /\ segEnd[tail] \in Int
      /\ stBlock[segment[tail].slot].id = segBlock[tail]
      /\ segment[tail].slot \in Slots
      /\ exec => count \in Nat /\ count > 0 /\ outDone = segEnd[tail] - count
      /\ outDone \in Nat /\ outBlock \in Nat
  BY <1>2, TypeFacts DEF IInv, NoEmptySegment, SlotIntact, WithinBlock, Chained
(* What the step leaves: it is in the block of the segment at the tail, at    *)
(* the step event the segment ends with less the ones still to do.           *)
<1>4. /\ execSlot' = segment[tail].slot /\ outBlock' = segBlock[tail]
      /\ outDone' = segEnd[tail] - count'
      /\ count' \in Nat /\ (exec' <=> count' > 0)
      /\ tail' = IF exec' THEN tail ELSE RingNext(tail, SegmentBufferSize)
  <2>1. CASE exec
    <3>1. execSlot = segment[tail].slot /\ outBlock = segBlock[tail]
      BY <2>1 DEF IInv, SlotIntact
    <3>2. /\ execSlot' = execSlot /\ outBlock' = outBlock /\ outDone' = outDone + 1
          /\ count' = count - 1 /\ (exec' <=> count # 1)
          /\ tail' = IF count = 1 THEN RingNext(tail, SegmentBufferSize) ELSE tail
      BY <2>1 DEF IsrStep
    <3> QED
      BY <1>3, <2>1, <3>1, <3>2
  <2>2. CASE ~exec
    <3>1. /\ execSlot' = segment[tail].slot
          /\ count' = segment[tail].n - 1 /\ (exec' <=> segment[tail].n # 1)
          /\ tail' = IF segment[tail].n = 1 THEN RingNext(tail, SegmentBufferSize) ELSE tail
      BY <2>2 DEF IsrStep
    <3>2. ReachesSegment(execSlot, outBlock, outDone, tail)
      BY <1>2, <2>2 DEF IInv, Chained
    <3>3. CASE segment[tail].slot = execSlot
      <4>1. outBlock' = outBlock /\ outDone' = outDone + 1
        BY <2>2, <3>3 DEF IsrStep
      <4>2. RingNext(execSlot, SegmentBufferSize - 1) # execSlot
        BY Sizes, TypeFacts
      <4>3. outBlock = segBlock[tail] /\ outDone = segEnd[tail] - segment[tail].n
        BY <3>2, <3>3, <4>2 DEF ReachesSegment, Follows
      <4>4. outDone' = segEnd[tail] - count'
        BY <1>3, <3>1, <4>1, <4>3
      <4>5. count' \in Nat /\ (exec' <=> count' > 0)
        BY <1>3, <3>1
      <4> QED
        BY <3>1, <4>1, <4>3, <4>4, <4>5
    <3>4. CASE segment[tail].slot # execSlot
      <4>2. segEnd[tail] - segment[tail].n = 0 /\ segBlock[tail] = outBlock + 1
        BY <3>2, <3>4 DEF ReachesSegment, Follows
      <4>1. outBlock' = segBlock[tail] /\ outDone' = 1
        BY <1>3, <2>2, <3>4, <4>2 DEF IsrStep
      <4> QED
        BY <1>3, <3>1, <4>1, <4>2
    <3> QED
      BY <3>3, <3>4
  <2> QED
    BY <2>1, <2>2
<1>a. HoldInv'
  BY <1>2 DEF IInv, HoldInv, IsrStep
<1>5. CASE exec'
  <2>1. tail' = tail /\ Queued' = Queued /\ UNCHANGED <<planVars, prepVars, ringVars>>
    BY <1>2, <1>4, <1>5 DEF Queued
  <2>2. PrepInv' /\ SlotsBehind'
    BY <2>1 DEF IInv, PrepInv, SlotsBehind, HasBlock, Loaded, Ceil, IsrStep
  <2>3. WithinBlock'
    BY <1>3, <1>4, <2>1 DEF IInv, WithinBlock
  <2>4. SlotIntact' /\ NoEmptySegment' /\ (exec => head # tail)'
    BY <1>2, <1>4, <1>5, <2>1 DEF IInv, SlotIntact, NoEmptySegment
  <2>5. Chained'
    BY <1>2, <1>4, <1>5, <2>1
    DEF IInv, Chained, ReachesSlot, ReachesSegment, Follows, Loaded
  <2> QED
    BY <1>1, <1>a, <2>2, <2>3, <2>4, <2>5 DEF IInv
<1>6. CASE ~exec'
  <2>1. /\ tail' = RingNext(tail, SegmentBufferSize) /\ count' = 0 /\ outDone' = segEnd[tail]
        /\ UNCHANGED <<planVars, prepVars, ringVars>>
    BY <1>2, <1>3, <1>4, <1>6
  <2>2. Queued' = Queued \ {tail}
    <3>1. Span(RingNext(tail, SegmentBufferSize), head) = Span(tail, head) \ {tail}
      BY <1>2, SpanPop
    <3> QED
      BY <2>1, <3>1 DEF Queued, Span
  <2>3. PrepInv'
    <3>1. nextHead # tail'
      BY <1>2, <2>1, SizeAssumption DEF IInv, PrepInv, RingNext, Segments
    <3> QED
      BY <2>1, <3>1 DEF IInv, PrepInv, HasBlock, Loaded, Ceil, IsrStep
  <2>4. SlotsBehind'
    BY <2>1, <2>2 DEF IInv, SlotsBehind, Loaded
  <2>5. WithinBlock'
    BY <1>3, <1>4, <2>1, <2>2 DEF IInv, WithinBlock
  <2>6. SlotIntact' /\ NoEmptySegment' /\ (exec => head # tail)'
    BY <1>6, <2>1, <2>2 DEF IInv, SlotIntact, NoEmptySegment
  <2>7. Chained'
    <3>1. ASSUME NEW s, NEW b, NEW e
          PROVE  /\ ReachesSlot(s, b, e) => ReachesSlot(s, b, e)'
                 /\ \A j : ReachesSegment(s, b, e, j) => ReachesSegment(s, b, e, j)'
      BY <2>1 DEF ReachesSlot, ReachesSegment, Follows, Loaded
    <3>2. Chained
      BY DEF IInv
    <3>3. ASSUME NEW i \in Queued
          PROVE  LET j == RingNext(i, SegmentBufferSize)
                 IN IF j = head THEN ReachesSlot(segment[i].slot, segBlock[i], segEnd[i])'
                                ELSE ReachesSegment(segment[i].slot, segBlock[i], segEnd[i], j)'
      BY <2>1, <3>1, <3>2 DEF Chained
    <3>4. PICK t : t = tail
      OBVIOUS
    <3>5. /\ RingNext(t, SegmentBufferSize) = head => ReachesSlot(execSlot, outBlock, outDone)'
          /\ RingNext(t, SegmentBufferSize) # head => ReachesSegment(execSlot, outBlock, outDone, tail)'
      <4>1. UNCHANGED <<segment, segBlock, segEnd>> /\ tail' = RingNext(t, SegmentBufferSize)
        BY <2>1, <3>4
      <4>2. execSlot' = segment[t].slot /\ outBlock' = segBlock[t] /\ outDone' = segEnd[t]
        BY <1>4, <2>1, <3>4
      <4> QED
        BY <1>2, <3>3, <3>4, <4>1, <4>2
    <3> QED
      BY <1>6, <2>1, <2>2, <3>3, <3>4, <3>5 DEF Chained
  <2> QED
    BY <1>1, <1>a, <2>3, <2>4, <2>5, <2>6, <2>7 DEF IInv
<1> QED
  BY <1>5, <1>6

(* IInv is inductive: the actions of the lemmas above are all there are.   *)
LEMMA NextIInv == IInv /\ [Next]_vars => IInv'
BY MainIInv, LoadIInv, SegmentIInv, PublishIInv, IsrIInv DEF Next, Main, Isr

(* IInv holds in every reachable state.                                      *)
THEOREM Invariance == Spec => []IInv
BY InitIInv, NextIInv, PTL DEF Spec

(* Type correctness.                                                         *)
THEOREM TypeCorrect == Spec => []TypeOK
<1>1. IInv => TypeOK
  BY DEF IInv
<1> QED
  BY <1>1, Invariance, PTL

(* The slots of st_block_buffer are never reused too early, however the two  *)
(* threads interleave and whatever SEGMENT_BUFFER_SIZE is.                   *)
THEOREM SlotsStayIntact == Spec => []SlotIntact
<1>1. IInv => SlotIntact
  BY DEF IInv
<1> QED
  BY <1>1, Invariance, PTL

(* The interrupt never starts a segment without steps, although the steps    *)
(* are the difference of two roundings: every segment covers                 *)
(* req_mm_increment or ends its block, but at the end of a hold              *)
(* (st_prep_buffer, ecmc_grbl_main_rt_thread).                               *)
THEOREM SegmentsHaveSteps == Spec => []NoEmptySegment
<1>1. IInv => NoEmptySegment
  BY DEF IInv
<1> QED
  BY <1>1, Invariance, PTL

-------------------------------------------------------------------------------
(* Init: the interrupt is off and no wake-up is under way.                 *)
LEMMA InitStopInv == Init => StopInv
BY DEF Init, StopInv

(* StopInv is inductive, one step per action; only the types are needed.   *)
LEMMA NextStopInv == TypeOK /\ StopInv /\ [Next]_vars => StopInv'
<1> SUFFICES ASSUME TypeOK, StopInv, [Next]_vars PROVE StopInv'
  OBVIOUS
<1> USE DEF vars, planVars, distVars, prepVars, ringVars, isrVars, sysVars, StopInv
<1>1. SysTypeOK /\ PrepTypeOK
  BY DEF TypeOK
<1>2. CASE \E n \in 1..MaxSteps : QueueBlock(n)
  BY <1>2 DEF QueueBlock
<1>3. CASE FeedHold
  BY <1>1, <1>3 DEF FeedHold, SysTypeOK
<1>4. CASE CycleStart
  BY <1>1, <1>4 DEF CycleStart, SysTypeOK
<1>5. CASE CycleStop
  BY <1>1, <1>5 DEF CycleStop, SysTypeOK
<1>6. CASE Override
  BY <1>6 DEF Override
<1>7. CASE CallPrep \/ WakeUp
  BY <1>1, <1>7 DEF CallPrep, WakeUp, SysTypeOK
<1>8. CASE PrepReturn \/ PrepLoad \/ PrepSegment \/ PrepPublish
  <2>1. /\ UNCHANGED <<wake, state, on, cycleStop, holdComplete>>
        /\ pc' = "out" => ~wake
        /\ pc' = "wake" => wake
    BY <1>1, <1>8 DEF PrepReturn, PrepLoad, PrepSegment, PrepPublish, Return, PrepTypeOK
  <2> QED
    BY <2>1
<1>9. CASE IsrStep
  BY <1>9 DEF IsrStep
<1>10. CASE IsrEmpty
  BY <1>10 DEF IsrEmpty
<1>11. CASE UNCHANGED vars
  BY <1>11
<1> QED
  BY <1>2, <1>3, <1>4, <1>5, <1>6, <1>7, <1>8, <1>9, <1>10, <1>11 DEF Next, Main, Isr

(* A hold that is reported complete is one in which nothing moves.           *)
THEOREM HoldMeansStopped == Spec => []StoppedWhenReported
<1>1. TypeOK /\ StopInv => StoppedWhenReported
  BY DEF StopInv, StoppedWhenReported
<1> QED
  BY <1>1, InitStopInv, NextStopInv, TypeCorrect, PTL DEF Spec

-------------------------------------------------------------------------------
(* Every step of the stepper is a step of StepStream or leaves its           *)
(* variables alone: QueueBlock is Queue, and IsrStep is StepSame or StepNext.*)
LEMMA StepImplements == IInv /\ [Next]_vars => [Stream!Next]_(Stream!vars)
<1> SUFFICES ASSUME IInv, [Next]_vars PROVE [Stream!Next]_(Stream!vars)
  OBVIOUS
<1> USE DEF vars, planVars, distVars, prepVars, ringVars, isrVars, sysVars, Stream!vars
<1>1. CASE \E n \in 1..MaxSteps : QueueBlock(n)
  <2>1. Stream!Queue
    BY <1>1 DEF QueueBlock, Stream!Queue
  <2> QED
    BY <2>1 DEF Stream!Next
<1>2. CASE IsrStep
  <2>1. /\ head # tail /\ tail \in Queued /\ UNCHANGED planned
    BY <1>2, SpanEnds, TypeFacts DEF IInv, IsrStep
  <2>2. /\ segment[tail].n \in Nat /\ segment[tail].n > 0
        /\ segBlock[tail] \in 1..Len(planned) /\ Len(planned) \in Nat
        /\ segEnd[tail] \in Int /\ segEnd[tail] <= planned[segBlock[tail]]
        /\ planned[segBlock[tail]] \in Int
        /\ stBlock[segment[tail].slot].id = segBlock[tail]
        /\ outDone \in Nat /\ outBlock \in 0..Len(planned)
    <3>1. segBlock[tail] \in 1..Len(planned) /\ segEnd[tail] \in segment[tail].n .. planned[segBlock[tail]]
      BY <2>1 DEF IInv, WithinBlock
    <3>2. planned[segBlock[tail]] \in Int
      <4>1. planned \in Seq(1..MaxSteps)
        BY TypeFacts
      <4>2. planned[segBlock[tail]] \in 1..MaxSteps
        BY <3>1, <4>1, BlockSteps
      <4> QED
        BY <4>2, SizeAssumption
    <3>3. /\ segment[tail].n > 0 /\ stBlock[segment[tail].slot].id = segBlock[tail]
          /\ outBlock \in 0..Len(planned)
      BY <2>1 DEF IInv, NoEmptySegment, SlotIntact, WithinBlock
    <3>4. segment[tail].n \in Nat /\ segEnd[tail] \in Int /\ outDone \in Nat /\ Len(planned) \in Nat
      BY TypeFacts
    <3> QED
      BY <3>1, <3>2, <3>3, <3>4
  <2>3. CASE exec
    <3>1. outBlock = segBlock[tail] /\ outDone < planned[outBlock]
      <4>1. outDone = segEnd[tail] - count /\ count > 0 /\ outBlock = segBlock[tail]
        BY <2>3 DEF IInv, Chained, NoEmptySegment, SlotIntact
      <4> QED
        BY <2>2, <4>1, TypeFacts
    <3>2. outBlock' = outBlock /\ outDone' = outDone + 1
      BY <1>2, <2>3 DEF IsrStep
    <3>3. Stream!StepSame
      BY <2>1, <2>2, <3>1, <3>2 DEF Stream!StepSame
    <3> QED
      BY <3>3 DEF Stream!Next
  <2>4. CASE ~exec
    <3>1. ReachesSegment(execSlot, outBlock, outDone, tail)
      BY <2>1, <2>4 DEF IInv, Chained
    <3>2. CASE segment[tail].slot = execSlot
      <4>1. outBlock' = outBlock /\ outDone' = outDone + 1
        BY <1>2, <2>4, <3>2 DEF IsrStep
      <4>2. RingNext(execSlot, SegmentBufferSize - 1) # execSlot
        BY Sizes, TypeFacts
      <4>3. outBlock = segBlock[tail] /\ outDone = segEnd[tail] - segment[tail].n
        BY <3>1, <3>2, <4>2 DEF ReachesSegment, Follows
      <4>4. outDone < planned[outBlock] /\ outBlock > 0
        BY <2>2, <4>3
      <4>5. Stream!StepSame
        BY <2>1, <4>1, <4>4 DEF Stream!StepSame
      <4> QED
        BY <4>5 DEF Stream!Next
    <3>3. CASE segment[tail].slot # execSlot
      <4>2. segBlock[tail] = outBlock + 1 /\ (outBlock > 0 => outDone = planned[outBlock])
        BY <3>1, <3>3 DEF ReachesSegment, Follows
      <4>1. outBlock' = segBlock[tail] /\ outDone' = 1
        BY <1>2, <2>2, <2>4, <3>3, <4>2 DEF IsrStep
      <4>3. Stream!StepNext
        BY <2>1, <2>2, <4>1, <4>2 DEF Stream!StepNext
      <4> QED
        BY <4>3 DEF Stream!Next
    <3> QED
      BY <3>2, <3>3
  <2> QED
    BY <2>3, <2>4
<1>3. CASE \/ FeedHold \/ CycleStart \/ CycleStop \/ Override \/ CallPrep
           \/ PrepReturn \/ PrepLoad \/ PrepSegment \/ PrepPublish \/ WakeUp
           \/ IsrEmpty \/ UNCHANGED vars
  <2>1. UNCHANGED <<planned, outBlock, outDone>>
    BY <1>3 DEF FeedHold, CycleStart, CycleStop, Override, CallPrep, PrepReturn, PrepLoad,
                PrepSegment, PrepPublish, WakeUp, IsrEmpty
  <2> QED
    BY <2>1
<1> QED
  BY <1>1, <1>2, <1>3 DEF Next, Main, Isr

(* The stepper subsystem implements StepStream: every block is stepped out   *)
(* completely, once and in order, across holds, resumes, re-plans and the    *)
(* wrap-around of both rings.                                                *)
THEOREM ImplementsStepStream == Spec => StepsInOrder
<1>1. Init => Stream!Init
  BY DEF Init, Stream!Init
<1> QED
  BY <1>1, StepImplements, Invariance, PTL DEF Spec, StepsInOrder, Stream!Spec
===============================================================================
