------------------------------ MODULE GrblStepper ------------------------------
(***************************************************************************)
(* The stepper subsystem (grbl/grbl_stepper.c) and the protocol handlers   *)
(* that start, hold and stop it.                                           *)
(*                                                                         *)
(* Two threads share it.  The main thread ("ecmc.grbl.main") queues blocks *)
(* in the planner and cuts them into segments in st_prep_buffer; the ecmc  *)
(* realtime thread calls the step "interrupt" ecmc_grbl_main_rt_thread,    *)
(* which executes the segments.  They meet in two rings:                   *)
(*   - segment_buffer, SegmentBufferSize entries, main thread to realtime; *)
(*   - st_block_buffer, SegmentBufferSize - 1 entries, the Bresenham data  *)
(*     of the blocks the segments belong to, with no indices of its own:   *)
(*     a slot is reused when the main thread comes round to it.            *)
(*                                                                         *)
(* A block is abstracted to its number of step events, and distances are    *)
(* counted in eighths of a step; positions, speeds and AMASS levels are     *)
(* left out.                                                               *)
(***************************************************************************)
EXTENDS Integers, Sequences

CONSTANTS
  SegmentBufferSize, (* SEGMENT_BUFFER_SIZE                                *)
  BlockBufferSize,   (* BLOCK_BUFFER_SIZE                                  *)
  MaxBlocks,         (* bound: blocks queued in a behaviour                *)
  MaxSteps           (* bound: step events of a block                      *)

(* With two segments the block ring would have one slot and the interrupt   *)
(* could not tell two blocks apart by their slot.                           *)
ASSUME SizeAssumption ==
  /\ SegmentBufferSize \in Nat /\ SegmentBufferSize >= 3
  /\ BlockBufferSize \in Nat   /\ BlockBufferSize >= 2
  /\ MaxBlocks \in Nat
  /\ MaxSteps \in Nat /\ MaxSteps >= 1

VARIABLES
  (* planner queue *)
  planned,    (* step events of each block queued so far; block i is planned[i] *)
  planTail,   (* block_buffer_tail: the oldest block not yet discarded     *)
  (* segment preparation, main thread *)
  pc,         (* where the main thread is in st_prep_buffer                *)
  wake,       (* st_wake_up follows this call of st_prep_buffer            *)
  plBlock,    (* pl_block # NULL                                           *)
  recalc,     (* prep.recalculate_flag & PREP_FLAG_RECALCULATE             *)
  left,       (* prep.steps_remaining                                      *)
  slot,       (* prep.st_block_index                                       *)
  millimeters,  (* pl_block->millimeters: what is left of the block        *)
  mm_complete,  (* prep.mm_complete: where a forced deceleration ends      *)
  mm_remaining, (* what the segment being cut leaves of the block          *)
  (* the two rings *)
  stBlock,    (* st_block_buffer                                           *)
  segment,    (* segment_buffer                                            *)
  head, nextHead, tail,
  (* the interrupt, realtime thread *)
  on,         (* stepperInterruptEnable                                    *)
  exec,       (* st.exec_segment # NULL                                    *)
  count,      (* st.step_count                                             *)
  execSlot,   (* st.exec_block_index                                       *)
  cycleStop,  (* EXEC_CYCLE_STOP                                           *)
  (* system state *)
  state, holding, endMotion, holdComplete,
  (* history *)
  segBlock,   (* block each segment was cut from                           *)
  segEnd,     (* step events of that block up to the end of the segment    *)
  outBlock,   (* block whose steps the interrupt is sending out            *)
  outDone     (* step events of that block sent                            *)

planVars == <<planned, planTail>>
distVars == <<left, millimeters, mm_complete, mm_remaining>>
prepVars == <<pc, wake, plBlock, recalc, distVars, slot>>
ringVars == <<stBlock, segment, head, nextHead, segBlock, segEnd>>
isrVars  == <<tail, exec, count, execSlot, outBlock, outDone>>
sysVars  == <<state, holding, endMotion, holdComplete>>
vars == <<planVars, prepVars, ringVars, isrVars, sysVars, on, cycleStop>>

Segments == 0 .. SegmentBufferSize - 1
Slots    == 0 .. SegmentBufferSize - 2

(* Mutant: the index wraps one entry too late.                              *)
RingNextLate(i, size) == IF i = size THEN 0 ELSE i + 1

RingNext(i, size) == IF i + 1 = size THEN 0 ELSE i + 1

(* REQ_MM_INCREMENT_SCALAR is 1.25 steps.  Mutant: just one step.            *)
ExactlyOneStep == 8
req_mm_increment == 10

(* ceil(step_per_mm * mm) for a distance: the product is off by less than   *)
(* an eighth of a step, which counts at a whole number of steps only.       *)
Ceil(mm) == IF mm = 0 THEN {0} ELSE {s \in 1..MaxSteps : 8 * (s - 1) <= mm /\ mm <= 8 * s}

(* Entries from i up to but not including j, walking a ring of that size.  *)
RingDist(i, j, size) == IF i <= j THEN j - i ELSE j - i + size

HasBlock  == planTail <= Len(planned)          \* plan_get_current_block() # NULL
PlannerFull == Len(planned) - planTail + 1 = BlockBufferSize - 1

Init ==
  /\ planned = <<>> /\ planTail = 1
  /\ pc = "out" /\ wake = FALSE
  /\ plBlock = FALSE /\ recalc = FALSE /\ slot = 0
  /\ left = 0 /\ millimeters = 0 /\ mm_complete = 0 /\ mm_remaining = 0
  /\ stBlock = [i \in Slots |-> [id |-> 0, steps |-> 0]]
  /\ segment = [i \in Segments |-> [slot |-> 0, n |-> 0]]
  /\ head = 0 /\ nextHead = 1 /\ tail = 0
  /\ on = FALSE /\ exec = FALSE /\ count = 0 /\ execSlot = 0 /\ cycleStop = FALSE
  /\ state = "IDLE" /\ holding = FALSE /\ endMotion = FALSE /\ holdComplete = FALSE
  /\ segBlock = [i \in Segments |-> 0] /\ segEnd = [i \in Segments |-> 0]
  /\ outBlock = 0 /\ outDone = 0

-------------------------------------------------------------------------------
(* Main thread: handlers that run between two calls of st_prep_buffer.     *)

(* Mutants: the block is loaded again from its start; the flag is set even  *)
(* when no block is loaded.                                                 *)
UpdateForgets == plBlock' = FALSE /\ UNCHANGED recalc
UpdateAlways == plBlock' = FALSE /\ recalc' = TRUE

(* st_update_plan_block_parameters: make st_prep_buffer look at the block  *)
(* again, without loading it again.                                        *)
UpdatePlanBlock ==
  /\ recalc' = (recalc \/ plBlock)
  /\ plBlock' = FALSE

(* plan_buffer_line for a block with motion.  planner_recalculate notifies *)
(* the stepper when the new plan reaches back to the executing block.      *)
QueueBlock(n) ==
  /\ pc = "out"
  /\ ~holdComplete                  \* protocol_exec_rt_suspend holds the thread
  /\ ~PlannerFull
  /\ Len(planned) < MaxBlocks
  /\ planned' = Append(planned, n)
  /\ \/ UNCHANGED <<plBlock, recalc>>
     \/ HasBlock /\ UpdatePlanBlock
  /\ UNCHANGED <<planTail, pc, wake, distVars, slot, ringVars, isrVars, sysVars, on, cycleStop>>

(* EXEC_FEED_HOLD in protocol_exec_rt_system.                              *)
FeedHold ==
  /\ pc = "out"
  /\ state \in {"IDLE", "CYCLE"}
  /\ IF state = "CYCLE"
       THEN /\ UpdatePlanBlock
            /\ holding' = TRUE /\ endMotion' = FALSE /\ UNCHANGED holdComplete
       ELSE /\ holdComplete' = TRUE
            /\ UNCHANGED <<plBlock, recalc, holding, endMotion>>
  /\ state' = "HOLD"
  /\ UNCHANGED <<planVars, pc, wake, distVars, slot, ringVars, isrVars, on, cycleStop>>

(* EXEC_CYCLE_START in protocol_exec_rt_system.                            *)
CycleStart ==
  /\ pc = "out"
  /\ state = "IDLE" \/ (state = "HOLD" /\ holdComplete)
  /\ holding' = FALSE /\ endMotion' = FALSE /\ holdComplete' = FALSE
  /\ IF HasBlock
       THEN state' = "CYCLE" /\ pc' = "prep" /\ wake' = TRUE
       ELSE state' = "IDLE" /\ UNCHANGED <<pc, wake>>
  /\ UNCHANGED <<planVars, plBlock, recalc, distVars, slot, ringVars, isrVars, on, cycleStop>>

(* EXEC_CYCLE_STOP in protocol_exec_rt_system.                             *)
CycleStop ==
  /\ pc = "out"
  /\ cycleStop
  /\ cycleStop' = FALSE
  /\ IF state = "HOLD"
       THEN /\ UpdatePlanBlock      \* plan_cycle_reinitialize
            /\ holdComplete' = (holdComplete \/ holding)
            /\ holding' = FALSE
            /\ UNCHANGED state
       ELSE /\ state' = "IDLE" /\ holdComplete' = FALSE
            /\ UNCHANGED <<plBlock, recalc, holding>>
  /\ UNCHANGED <<planVars, pc, wake, distVars, slot, ringVars, isrVars, endMotion, on>>

(* A feed or rapid override re-plans from the executing block onwards      *)
(* (plan_update_velocity_profile_parameters, plan_cycle_reinitialize).     *)
Override ==
  /\ pc = "out"
  /\ UpdatePlanBlock
  /\ UNCHANGED <<planVars, pc, wake, distVars, slot, ringVars, isrVars, sysVars, on, cycleStop>>

(* The tail of protocol_exec_rt_system calls st_prep_buffer.               *)
CallPrep ==
  /\ pc = "out"
  /\ state \in {"CYCLE", "HOLD"}
  /\ pc' = "prep"
  /\ UNCHANGED <<planVars, wake, plBlock, recalc, distVars, slot, ringVars, isrVars, sysVars, on, cycleStop>>

-------------------------------------------------------------------------------
(* Main thread: st_prep_buffer.                                            *)

Return == pc' = IF wake THEN "wake" ELSE "out"

(* END_MOTION, the ring full, or no block left: nothing to prepare.        *)
PrepReturn ==
  /\ pc = "prep"
  /\ endMotion \/ nextHead = tail \/ (~plBlock /\ ~HasBlock)
  /\ Return
  /\ UNCHANGED <<planVars, wake, plBlock, recalc, distVars, slot, ringVars, isrVars, sysVars, on, cycleStop>>

(* Mutant: the ring of block data is one entry shorter still.               *)
PrepLoadShort ==
  /\ pc = "prep" /\ ~endMotion
  /\ nextHead # tail
  /\ ~plBlock /\ HasBlock
  /\ plBlock' = TRUE
  /\ recalc' = FALSE
  /\ IF recalc
       THEN UNCHANGED <<slot, stBlock, left, millimeters>>
       ELSE /\ slot' = RingNext(slot, SegmentBufferSize - 2)
            /\ stBlock' = [stBlock EXCEPT ![slot'] = [id |-> planTail, steps |-> planned[planTail]]]
            /\ left' = planned[planTail]
            /\ millimeters' = 8 * planned[planTail]
  /\ mm_complete' \in (IF holding THEN 0..millimeters' ELSE {0})
  /\ UNCHANGED <<planVars, pc, wake, mm_remaining, segment, head, nextHead, segBlock, segEnd,
                 isrVars, sysVars, on, cycleStop>>

(* Take the planner's current block: a new one goes to the next slot of    *)
(* st_block_buffer, one to recalculate keeps its slot and what is left of   *)
(* it.  In a hold the deceleration may end within the block.                *)
PrepLoad ==
  /\ pc = "prep" /\ ~endMotion
  /\ nextHead # tail
  /\ ~plBlock /\ HasBlock
  /\ plBlock' = TRUE
  /\ recalc' = FALSE
  /\ IF recalc
       THEN UNCHANGED <<slot, stBlock, left, millimeters>>
       ELSE /\ slot' = RingNext(slot, SegmentBufferSize - 1)
            /\ stBlock' = [stBlock EXCEPT ![slot'] = [id |-> planTail, steps |-> planned[planTail]]]
            /\ left' = planned[planTail]
            /\ millimeters' = 8 * planned[planTail]
  /\ mm_complete' \in (IF holding THEN 0..millimeters' ELSE {0})
  /\ UNCHANGED <<planVars, pc, wake, mm_remaining, segment, head, nextHead, segBlock, segEnd,
                 isrVars, sysVars, on, cycleStop>>

(* Cut the next segment into segment_buffer[segment_buffer_head].  It goes  *)
(* on until it has covered req_mm_increment, or to the end of the profile;  *)
(* its steps are what rounding up leaves of the difference.  A segment      *)
(* without steps is not published in a hold: it sets END_MOTION.            *)
PrepSegment ==
  /\ pc = "prep" /\ ~endMotion
  /\ nextHead # tail
  /\ plBlock
  /\ \E mm \in {mm_complete} \cup (mm_complete .. millimeters - req_mm_increment) :
     \E steps \in Ceil(mm) :
       /\ steps <= left
       /\ segment' = [segment EXCEPT ![head] = [slot |-> slot, n |-> left - steps]]
       /\ segEnd' = [segEnd EXCEPT ![head] = planned[planTail] - steps]
       /\ IF steps = left /\ holding
            THEN endMotion' = TRUE /\ Return /\ UNCHANGED mm_remaining
            ELSE UNCHANGED endMotion /\ pc' = "publish" /\ mm_remaining' = mm
  /\ segBlock' = [segBlock EXCEPT ![head] = planTail]
  /\ UNCHANGED <<planVars, wake, plBlock, recalc, left, millimeters, mm_complete, slot, stBlock,
                 head, nextHead, isrVars, state, holding, holdComplete, on, cycleStop>>

(* Advance the head so that the interrupt sees the segment, then decide    *)
(* whether the hold or the block ends with it.                             *)
PrepPublish ==
  /\ pc = "publish"
  /\ head' = nextHead
  /\ nextHead' = RingNext(nextHead, SegmentBufferSize)
  /\ left' = left - segment[head].n
  /\ millimeters' = mm_remaining /\ mm_remaining' = 0
  /\ IF mm_remaining = mm_complete /\ mm_complete > 0
       THEN endMotion' = TRUE /\ Return /\ UNCHANGED <<plBlock, planTail>>
       ELSE /\ pc' = "prep" /\ UNCHANGED endMotion
            /\ IF mm_remaining = mm_complete
                 THEN plBlock' = FALSE /\ planTail' = planTail + 1  \* plan_discard_current_block
                 ELSE UNCHANGED <<plBlock, planTail>>
  /\ UNCHANGED <<planned, wake, recalc, slot, mm_complete, stBlock, segment, segBlock, segEnd, isrVars,
                 state, holding, holdComplete, on, cycleStop>>

(* st_wake_up *)
WakeUp ==
  /\ pc = "wake"
  /\ on' = TRUE
  /\ wake' = FALSE
  /\ pc' = "out"
  /\ UNCHANGED <<planVars, plBlock, recalc, distVars, slot, ringVars, isrVars, sysVars, cycleStop>>

-------------------------------------------------------------------------------
(* Realtime thread: one call of ecmc_grbl_main_rt_thread.                  *)

(* Load a segment if none is being executed, and do one step event of it.  *)
(* A change of slot is how the interrupt notices a new block.              *)
IsrStep ==
  /\ on
  /\ exec \/ head # tail
  /\ LET seg   == segment[tail]
         fresh == ~exec /\ seg.slot # execSlot
         steps == IF exec THEN count ELSE seg.n
     IN /\ execSlot' = IF exec THEN execSlot ELSE seg.slot
        /\ outBlock' = IF fresh THEN stBlock[seg.slot].id ELSE outBlock
        /\ outDone'  = IF outBlock' # outBlock THEN 1 ELSE outDone + 1
        /\ count' = steps - 1
        /\ exec' = (steps # 1)
        /\ tail' = IF steps = 1 THEN RingNext(tail, SegmentBufferSize) ELSE tail
  /\ UNCHANGED <<planVars, prepVars, ringVars, sysVars, on, cycleStop>>

(* Mutants: the interrupt is left on; the cycle stop is not flagged.        *)
IsrEmptyStaysOn ==
  /\ on
  /\ ~exec /\ head = tail
  /\ cycleStop' = TRUE
  /\ UNCHANGED <<planVars, prepVars, ringVars, isrVars, sysVars, on>>

IsrEmptySilent ==
  /\ on
  /\ ~exec /\ head = tail
  /\ on' = FALSE
  /\ UNCHANGED <<planVars, prepVars, ringVars, isrVars, sysVars, cycleStop>>

(* Nothing to execute: st_go_idle and EXEC_CYCLE_STOP.                     *)
IsrEmpty ==
  /\ on
  /\ ~exec /\ head = tail
  /\ on' = FALSE
  /\ cycleStop' = TRUE
  /\ UNCHANGED <<planVars, prepVars, ringVars, isrVars, sysVars>>

-------------------------------------------------------------------------------
Main ==
  \/ \E n \in 1..MaxSteps : QueueBlock(n)
  \/ FeedHold \/ CycleStart \/ CycleStop \/ Override \/ CallPrep
  \/ PrepReturn \/ PrepLoad \/ PrepSegment \/ PrepPublish \/ WakeUp

Isr == IsrStep \/ IsrEmpty

Next == Main \/ Isr

Spec == Init /\ [][Next]_vars

-------------------------------------------------------------------------------
(* The main thread polls protocol_execute_realtime for ever, so cycle      *)
(* stops and the preparation of segments are weakly fair; the auto-start   *)
(* of protocol_main_loop makes CycleStart fair from IDLE only (a hold is   *)
(* left only if the user resumes).  The realtime thread is periodic.       *)
AutoStart == state = "IDLE" /\ HasBlock /\ CycleStart
Prep == CallPrep \/ PrepReturn \/ PrepLoad \/ PrepSegment \/ PrepPublish \/ WakeUp

Fairness ==
  /\ WF_vars(Isr)
  /\ WF_vars(Prep)
  /\ SF_vars(CycleStop)
  /\ SF_vars(AutoStart)

FairSpec == Spec /\ Fairness

-------------------------------------------------------------------------------
(* The entries of segment_buffer the interrupt has not finished with.      *)
Queued == {i \in Segments : RingDist(tail, i, SegmentBufferSize) < RingDist(tail, head, SegmentBufferSize)}

PlanTypeOK ==
  /\ planned \in Seq(1..MaxSteps)
  /\ planTail \in 1 .. Len(planned) + 1

PrepTypeOK ==
  /\ pc \in {"out", "prep", "publish", "wake"}
  /\ wake \in BOOLEAN /\ plBlock \in BOOLEAN /\ recalc \in BOOLEAN
  /\ left \in 0..MaxSteps
  /\ millimeters \in 0..8 * MaxSteps /\ mm_complete \in 0..8 * MaxSteps /\ mm_remaining \in 0..8 * MaxSteps
  /\ slot \in Slots

RingTypeOK ==
  /\ stBlock \in [Slots -> [id : Nat, steps : 0..MaxSteps]]
  /\ segment \in [Segments -> [slot : Slots, n : 0..MaxSteps]]
  /\ segBlock \in [Segments -> Nat] /\ segEnd \in [Segments -> Int]
  /\ head \in Segments /\ nextHead \in Segments

IsrTypeOK ==
  /\ tail \in Segments
  /\ exec \in BOOLEAN
  /\ count \in 0..MaxSteps
  /\ execSlot \in Slots
  /\ outBlock \in Nat /\ outDone \in Nat

SysTypeOK ==
  /\ state \in {"IDLE", "CYCLE", "HOLD"}
  /\ holding \in BOOLEAN /\ endMotion \in BOOLEAN /\ holdComplete \in BOOLEAN
  /\ on \in BOOLEAN /\ cycleStop \in BOOLEAN

TypeOK == PlanTypeOK /\ PrepTypeOK /\ RingTypeOK /\ IsrTypeOK /\ SysTypeOK

(* st_block_buffer is one entry shorter than segment_buffer and has no      *)
(* indices of its own.  Its slots are never reused while a segment still to *)
(* be executed refers to them, and the interrupt, which only compares slot  *)
(* numbers, always knows which block the segment it executes was cut from.  *)
SlotIntact ==
  /\ \A i \in Queued : stBlock[segment[i].slot].id = segBlock[i]
  /\ exec => execSlot = segment[tail].slot /\ outBlock = segBlock[tail]

(* The interrupt decrements step_count before it tests it for zero, so a    *)
(* published segment without steps would run 65536 of them.  Its comment    *)
(* takes such segments for possible when moving slow; but a segment goes on *)
(* for a step and a quarter, enough for a step between the two roundings,   *)
(* unless a hold ends, and then it is not published.                        *)
NoEmptySegment ==
  /\ \A i \in Queued : segment[i].n > 0
  /\ exec => count > 0

(* Once a hold is reported complete the interrupt is off, so nothing moves  *)
(* until a resume; and in IDLE nothing moves at all.                        *)
StoppedWhenReported ==
  holdComplete \/ state = "IDLE" => ~on

(* A block is discarded from the planner only when all its steps are in     *)
(* segments: cut, published and executed steps add up, across holds,        *)
(* re-plans and ring wrap-around, so that the planner can be refilled.      *)
Stream == INSTANCE StepStream WITH id <- outBlock, done <- outDone
StepsInOrder == Stream!Spec

(* A feed hold ends: once holding, the machine stops and says so.           *)
HoldCompletes == state = "HOLD" ~> (holdComplete \/ state # "HOLD")

-------------------------------------------------------------------------------
(* The inductive invariant behind SlotIntact and NoEmptySegment.            *)

(* A planner block is loaded and not yet discarded.                         *)
Loaded == plBlock \/ recalc

(* After step event e1 of block b1, from slot s1, comes step event e2 + 1 of *)
(* block b2, from slot s2: the next one of the same block, or the first one  *)
(* of the next block, which is in the next slot.                             *)
Follows(s1, b1, e1, s2, b2, e2) ==
  \/ s1 = s2 /\ b1 = b2 /\ e1 = e2
  \/ /\ s2 = RingNext(s1, SegmentBufferSize - 1) /\ b2 = b1 + 1 /\ e2 = 0
     /\ b1 > 0 => e1 = planned[b1]

(* What the newest segment (or, when all are executed, the interrupt) ends   *)
(* with is what the next segment to be cut goes on from.                     *)
ReachesSlot(s, b, e) ==
  IF Loaded THEN Follows(s, b, e, slot, planTail, planned[planTail] - left)
            ELSE s = slot /\ b = planTail - 1 /\ (b > 0 => e = planned[b])

(* Segment j goes on where s, b, e ends.                                    *)
ReachesSegment(s, b, e, j) ==
  Follows(s, b, e, segment[j].slot, segBlock[j], segEnd[j] - segment[j].n)

PrepInv ==
  /\ nextHead = RingNext(head, SegmentBufferSize)
  /\ ~(plBlock /\ recalc)
  /\ Loaded => /\ stBlock[slot].id = planTail /\ left \in 1..planned[planTail] /\ HasBlock
               /\ left \in Ceil(millimeters)
  /\ plBlock => mm_complete <= millimeters /\ (mm_complete > 0 => holding)
  /\ pc = "publish" =>
       /\ plBlock /\ nextHead # tail
       /\ segment[head].slot = slot /\ segBlock[head] = planTail
       /\ segment[head].n \in 1..left /\ left - segment[head].n \in Ceil(mm_remaining)
       /\ segEnd[head] = planned[planTail] - left + segment[head].n
       /\ mm_complete <= mm_remaining

(* A deceleration is under way in HOLD only, and until it is reported done.  *)
HoldInv ==
  /\ holding => state = "HOLD" /\ ~holdComplete
  /\ holdComplete => state = "HOLD"

(* A queued segment is at least as far behind the head as its slot is       *)
(* behind the slot being prepared: that is why the shorter ring suffices.   *)
SlotsBehind ==
  \A i \in Queued :
    RingDist(segment[i].slot, slot, SegmentBufferSize - 1)
      <= RingDist(i, head, SegmentBufferSize) - (IF Loaded THEN 0 ELSE 1)

(* Every segment is cut from a block that was queued, and within it.        *)
WithinBlock ==
  /\ \A i \in Queued : /\ segBlock[i] \in 1..Len(planned)
                       /\ segEnd[i] \in segment[i].n .. planned[segBlock[i]]
  /\ outBlock \in 0..Len(planned)

Chained ==
  /\ \A i \in Queued :
       LET j == RingNext(i, SegmentBufferSize)
       IN IF j = head THEN ReachesSlot(segment[i].slot, segBlock[i], segEnd[i])
                      ELSE ReachesSegment(segment[i].slot, segBlock[i], segEnd[i], j)
  /\ exec => outDone = segEnd[tail] - count
  /\ ~exec /\ head = tail => ReachesSlot(execSlot, outBlock, outDone)
  /\ ~exec /\ head # tail => ReachesSegment(execSlot, outBlock, outDone, tail)

IInv ==
  /\ TypeOK
  /\ HoldInv
  /\ PrepInv
  /\ exec => head # tail
  /\ SlotsBehind
  /\ WithinBlock
  /\ Chained
  /\ SlotIntact
  /\ NoEmptySegment

(* The inductive invariant behind StoppedWhenReported: the interrupt is off  *)
(* from the moment it flags a cycle stop until the next st_wake_up.          *)
StopInv ==
  /\ pc = "out" => ~wake
  /\ pc = "wake" => wake
  /\ wake => state = "CYCLE" /\ ~on /\ ~cycleStop
  /\ holdComplete => state = "HOLD"
  /\ on \/ cycleStop => state # "IDLE" /\ ~holdComplete
  /\ ~(on /\ cycleStop)
===============================================================================
