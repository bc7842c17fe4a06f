---------------------------- MODULE GrblPlanner ----------------------------
(***************************************************************************)
(* The motion planner (grbl_planner.c): a ring of blocks whose junction    *)
(* speeds are recalculated for every new block, and the part of            *)
(* st_prep_buffer that executes the oldest block while the plan behind it  *)
(* changes.                                                                *)
(*                                                                         *)
(* All speeds are squared and a distance is the change of squared speed it *)
(* allows, 2 * acceleration * millimeters, so that braking is subtraction. *)
(* Geometry is an input: a line has a rate, a distance and the speed at    *)
(* which its corner may be taken.                                          *)
(***************************************************************************)
EXTENDS Integers, FiniteSetsExt

CONSTANTS BlockBufferSize,  \* entries of block_buffer, one always free
          Lines,            \* the lines that may be planned
          RapidRate,        \* fastest rate the axes allow
          Full,             \* an override of 100 %
          Overrides         \* values of the feed and the rapid override, as pairs

Line == [rate : Nat \ {0}, rapid : BOOLEAN, corner : Nat, dist : Nat \ {0}]

ASSUME PlannerAssumption ==
  /\ BlockBufferSize \in Nat /\ BlockBufferSize >= 2
  /\ Lines \subseteq Line
  /\ RapidRate \in Nat \ {0} /\ Full \in Nat \ {0}
  /\ Overrides \subseteq (Nat \ {0}) \X (Nat \ {0}) /\ <<Full, Full>> \in Overrides

VARIABLES
  block,         \* block_buffer
  tail, head,    \* block_buffer_tail, block_buffer_head
  nextHead,      \* next_buffer_head
  planned,       \* block_buffer_planned
  prevNominal,   \* pl.previous_nominal_speed
  feedOvr,       \* sys.f_override
  rapidOvr,      \* sys.r_override
  prep,          \* pl_block, prep.recalculate_flag, current_speed, exit_speed
  stepControl,   \* sys.step_control: "hold" EXECUTE_HOLD, "end" END_MOTION
  overridden     \* history: an override changed while these blocks were queued

queue == <<block, tail, head, nextHead, planned>>
vars == <<queue, prevNominal, feedOvr, rapidOvr, prep, stepControl, overridden>>

Index == 0 .. BlockBufferSize - 1
Block == [rate : Nat, rapid : BOOLEAN, corner : Nat, dist : Nat,
          entry : Nat, maxEntry : Nat]
NoBlock == [rate |-> 0, rapid |-> FALSE, corner |-> 0, dist |-> 0,
            entry |-> 0, maxEntry |-> 0]

Least(a, b) == IF a < b THEN a ELSE b
Square(a) == a * a
Fastest == Square(RapidRate * Full) + 1   \* SOME_LARGE_VALUE

(* Mutant: the ring is one entry longer. *)
NextIndexLate(i) == IF i = BlockBufferSize THEN 0 ELSE i + 1

NextIndex(i) == IF i + 1 = BlockBufferSize THEN 0 ELSE i + 1
PrevIndex(i) == IF i = 0 THEN BlockBufferSize - 1 ELSE i - 1

\* An entry that left the ring: what no one reads again is cleared.
Retired(b) == [b EXCEPT !.rate = 0, !.rapid = FALSE, !.corner = 0]

\* Steps from one ring index forward to another.
Ahead(i, j) == (j - i + BlockBufferSize) % BlockBufferSize
Plus(i, n) == (i + n) % BlockBufferSize
Minus(i, n) == (i - n + BlockBufferSize) % BlockBufferSize

IsEmpty == head = tail
IsFull == tail = nextHead                    \* plan_check_full_buffer
ExitSpeed(b) == IF NextIndex(tail) = head THEN 0 ELSE b[NextIndex(tail)].entry

-----------------------------------------------------------------------------
(* Speeds of a block. *)

NominalSpeed(b, f, r) ==
  IF b.rapid THEN b.rate * r ELSE Least(b.rate * f, RapidRate * Full)

(* Mutant: the corner is forgotten. *)
MaxEntryNominal(b, nominal, previous) == Square(Least(nominal, previous))

MaxEntry(b, nominal, previous) ==
  Least(b.corner, Square(Least(nominal, previous)))

\* The recalculation of all blocks in the ring after an override.
UpdatedProfile(b, f, r) ==
  [i \in Index |->
     IF Ahead(tail, i) >= Ahead(tail, head) THEN b[i]
     ELSE [b[i] EXCEPT !.maxEntry = MaxEntry(b[i], NominalSpeed(b[i], f, r),
                          IF i = tail THEN Fastest
                          ELSE NominalSpeed(b[PrevIndex(i)], f, r))]]

-----------------------------------------------------------------------------
(* planner_recalculate.  The arguments are the ring and the two indices it   *)
(* runs between.  With an empty ring it walks once around the old entries.   *)

Plannable(h, p) == Ahead(p, PrevIndex(h))

(* Mutant: the stepper is told only when two blocks are planned. *)
TellsStepperOnce(h, p) == Plannable(h, p) = 1 /\ p = tail

\* The stepper is told when the last block examined follows the one it executes.
TellsStepper(h, p) == Plannable(h, p) > 0 /\ p = tail

\* The entry speed from which a block brakes to the entry speed of the next.
Backwards(current, next) ==
  IF current.entry = current.maxEntry THEN current.entry
  ELSE Least(current.maxEntry, next + current.dist)

\* The n entry speeds before the end of the ring, the newest block's first.
SpeedsBack(b, h, n) ==
  LET e[k \in 0 .. n - 1] ==
        LET current == b[Minus(PrevIndex(h), k)] IN
        IF k = 0 THEN Least(current.maxEntry, current.dist)
        ELSE Backwards(current, e[k - 1])
  IN e

\* From the newest block, which must end at rest, back to the planned pointer.
ReversePass(b, h, p) ==
  LET n == Plannable(h, p)
      e == SpeedsBack(b, h, n)
  IN [i \in Index |-> IF Ahead(i, PrevIndex(h)) < n
                      THEN [b[i] EXCEPT !.entry = e[Ahead(i, PrevIndex(h))]]
                      ELSE b[i]]

\* The entry speed that a block reaches from the entry of the one before it.
Forwards(before, dist, wanted) ==
  IF before < wanted THEN Least(wanted, before + dist) ELSE wanted

\* The entry speeds of the planned block and of the n after it.
SpeedsAhead(b, p, n) ==
  LET e[k \in 0 .. n] ==
        IF k = 0 THEN b[p].entry
        ELSE Forwards(e[k - 1], b[Plus(p, k - 1)].dist, b[Plus(p, k)].entry)
  IN e

\* From the planned pointer to the newest block, limited by acceleration.
ForwardPass(b, h, p) ==
  LET n == Plannable(h, p)
      e == SpeedsAhead(b, p, n)
      Settled(k) == \/ e[k] < b[Plus(p, k)].entry
                    \/ e[k] = b[Plus(p, k)].maxEntry
      settled == {k \in 1 .. n : Settled(k)}
  IN [block |-> [i \in Index |-> IF Ahead(p, i) \in 1 .. n
                                 THEN [b[i] EXCEPT !.entry = e[Ahead(p, i)]]
                                 ELSE b[i]],
      planned |-> IF settled = {} THEN p
                  ELSE Plus(p, CHOOSE k \in settled : \A j \in settled : j <= k)]

Recalculate(b, h, p) ==
  IF Plannable(h, p) = 0 THEN [block |-> b, planned |-> p]
  ELSE ForwardPass(ReversePass(b, h, p), h, p)

\* st_update_plan_block_parameters: the executing block starts over at the
\* speed it has now.
EntryNow(b) == IF prep.loaded THEN [b EXCEPT ![tail].entry = prep.speed] ELSE b
Told == [prep EXCEPT !.loaded = FALSE, !.recalculate = @ \/ prep.loaded]

-----------------------------------------------------------------------------
(* The planner's operations. *)

\* st_reset.
PrepReset == [loaded |-> FALSE, recalculate |-> FALSE, decelOverride |-> FALSE,
              speed |-> 0, exit |-> 0]

\* plan_reset at power-up.
Init ==
  /\ block = [i \in Index |-> NoBlock]
  /\ tail = 0 /\ head = 0 /\ nextHead = 1 /\ planned = 0 /\ prevNominal = 0
  /\ feedOvr = Full /\ rapidOvr = Full
  /\ prep = PrepReset
  /\ stepControl = {}
  /\ overridden = FALSE

\* plan_buffer_line.  mc_line has waited until the ring is not full; the first
\* block of an empty ring starts from rest.
BufferLine(line) ==
  LET raw == [rate |-> line.rate, rapid |-> line.rapid, dist |-> line.dist,
              corner |-> IF IsEmpty THEN 0 ELSE line.corner,
              entry |-> 0, maxEntry |-> 0]
      nominal == NominalSpeed(raw, feedOvr, rapidOvr)
      new == [raw EXCEPT !.maxEntry = MaxEntry(raw, nominal, prevNominal)]
      added == [block EXCEPT ![head] = new]
      tells == TellsStepper(nextHead, planned)
  IN /\ ~IsFull
     /\ prevNominal' = nominal
     /\ \E plan \in {Recalculate(IF tells THEN EntryNow(added) ELSE added, nextHead, planned)} :
           block' = plan.block /\ planned' = plan.planned
     /\ head' = nextHead
     /\ nextHead' = NextIndex(nextHead)
     /\ prep' = IF tells THEN Told ELSE prep
     /\ UNCHANGED <<tail, feedOvr, rapidOvr, stepControl, overridden>>

(* Mutant: the planned pointer stays where it is. *)
ReinitializeAhead(b) ==
  LET plan == Recalculate(EntryNow(b), head, planned)
  IN /\ block' = plan.block
     /\ planned' = plan.planned
     /\ prep' = Told
     /\ UNCHANGED <<tail, head, nextHead>>

\* plan_cycle_reinitialize: everything is planned again from the block that is
\* being executed.
Reinitialize(b) ==
  /\ \E plan \in {Recalculate(EntryNow(b), head, tail)} :
        block' = plan.block /\ planned' = plan.planned
  /\ prep' = Told
  /\ UNCHANGED <<tail, head, nextHead>>

\* The override part of protocol_exec_rt_system.
Override(f, r) ==
  /\ <<f, r>> # <<feedOvr, rapidOvr>>
  /\ feedOvr' = f /\ rapidOvr' = r
  /\ prevNominal' = IF IsEmpty THEN Fastest
                    ELSE NominalSpeed(block[PrevIndex(head)], f, r)
  /\ Reinitialize(UpdatedProfile(block, f, r))
  /\ overridden' = ~IsEmpty
  /\ UNCHANGED stepControl

\* A feed hold while the machine moves.
FeedHold ==
  /\ stepControl = {}
  /\ ~IsEmpty
  /\ block' = EntryNow(block)
  /\ prep' = Told
  /\ stepControl' = {"hold"}
  /\ UNCHANGED <<tail, head, nextHead, planned, prevNominal, feedOvr, rapidOvr, overridden>>

\* The interrupt has run dry at the end of the hold.  (That it may run dry while
\* there is something left to cut is the subject of GrblStepper.)
CycleStop ==
  /\ "hold" \in stepControl
  /\ "end" \in stepControl \/ IsEmpty
  /\ Reinitialize(block)
  /\ stepControl' = stepControl \ {"hold"}
  /\ UNCHANGED <<prevNominal, feedOvr, rapidOvr, overridden>>

CycleStart ==
  /\ stepControl = {"end"}
  /\ stepControl' = {}
  /\ UNCHANGED <<queue, prevNominal, feedOvr, rapidOvr, prep, overridden>>

-----------------------------------------------------------------------------
(* st_prep_buffer: speeds along the executing block. *)

(* Mutant: a block that is loaded during a hold starts at its planned speed. *)
LoadBlockPlanned ==
  [loaded |-> TRUE, recalculate |-> FALSE, decelOverride |-> FALSE,
   speed |-> IF prep.recalculate THEN prep.speed ELSE block[tail].entry,
   exit |-> IF "hold" \in stepControl
            THEN (IF block[tail].dist >= block[tail].entry THEN 0
                  ELSE block[tail].entry - block[tail].dist)
            ELSE ExitSpeed(block)]

\* A block that is taken up: its speed, and after which exit speed it is cut.
LoadBlock ==
  LET fresh == ~prep.recalculate
      carry == fresh /\ ("hold" \in stepControl \/ prep.decelOverride)
      start == IF carry THEN prep.exit ELSE block[tail].entry
      dist == block[tail].dist
      limit == Square(NominalSpeed(block[tail], feedOvr, rapidOvr))
      tooFast == "hold" \notin stepControl /\ start > limit /\ dist <= start - limit
  IN [loaded |-> TRUE, recalculate |-> FALSE,
      decelOverride |-> tooFast,
      speed |-> IF fresh THEN start ELSE prep.speed,
      exit |-> IF "hold" \in stepControl THEN (IF dist >= start THEN 0 ELSE start - dist)
               ELSE IF tooFast THEN start - dist
               ELSE ExitSpeed(block)]

\* The speed after another dist of the block, of which rest remains.
SpeedAfter(p, limit, dist, rest) ==
  IF rest = 0 THEN p.exit
  ELSE IF \/ "hold" \in stepControl \/ p.decelOverride
          \/ p.speed > limit + dist \/ p.speed > p.exit + dist + rest
       THEN p.speed - dist
  ELSE Least(Least(p.speed + dist, limit), p.exit + rest)

\* In a hold the block is cut where the speed is zero.
HoldStop(p) == IF "hold" \in stepControl /\ p.speed < block[tail].dist
               THEN block[tail].dist - p.speed ELSE 0

\* One segment, up to rest from the end of the block.
PrepSegment(rest) ==
  LET p == IF prep.loaded THEN prep ELSE LoadBlock
      now == block[tail].dist
      stop == HoldStop(p)
      limit == Square(NominalSpeed(block[tail], feedOvr, rapidOvr))
      speed == SpeedAfter(p, limit, now - rest, rest)
      cut == [block EXCEPT ![tail].dist = rest, ![tail].entry =
                IF ~prep.loaded /\ ~prep.recalculate THEN p.speed ELSE @]
  IN /\ "end" \notin stepControl
     /\ ~IsEmpty
     /\ rest >= stop /\ (rest < now \/ stop = now)
     /\ prep' = [p EXCEPT !.speed = speed, !.loaded = rest > 0]
     /\ stepControl' = IF stop > 0 /\ rest = stop THEN stepControl \cup {"end"}
                       ELSE stepControl
     /\ IF rest > 0
        THEN /\ block' = cut
             /\ UNCHANGED <<tail, planned, overridden>>
        ELSE \* plan_discard_current_block
             /\ block' = [cut EXCEPT ![tail] = Retired(@)]
             /\ tail' = NextIndex(tail)
             /\ planned' = IF tail = planned THEN NextIndex(tail) ELSE planned
             /\ overridden' = (overridden /\ NextIndex(tail) # head)
     /\ UNCHANGED <<head, nextHead, prevNominal, feedOvr, rapidOvr>>

Next ==
  \/ \E line \in Lines : BufferLine(line)
  \/ \E o \in Overrides : Override(o[1], o[2])
  \/ FeedHold
  \/ CycleStop
  \/ CycleStart
  \/ \E rest \in 0 .. block[tail].dist : PrepSegment(rest)

Spec == Init /\ [][Next]_vars

-----------------------------------------------------------------------------
(* Properties. *)

TypeOK ==
  /\ block \in [Index -> Block]
  /\ {tail, head, nextHead, planned} \subseteq Index
  /\ nextHead = NextIndex(head)
  /\ prevNominal \in Nat
  /\ <<feedOvr, rapidOvr>> \in Overrides
  /\ prep \in [loaded : BOOLEAN, recalculate : BOOLEAN, decelOverride : BOOLEAN,
               speed : Nat, exit : Nat]
  /\ stepControl \subseteq {"hold", "end"}
  /\ overridden \in BOOLEAN

Queued == {i \in Index : Ahead(tail, i) < Ahead(tail, head)}

\* From the start of block i to the start of block j.
Distance(i, j) ==
  LET sum[k \in Index] == IF k = 0 THEN 0 ELSE sum[k - 1] + block[Plus(i, k - 1)].dist
  IN sum[Ahead(i, j)]

\* The speed with which the oldest block goes on.
TailSpeed == IF prep.loaded THEN prep.speed ELSE block[tail].entry

\* The fastest speed into block i that every junction, the present speed and
\* the stop at the end of the queue allow: a reference for the two passes, which
\* knows nothing of the planned pointer.
BestEntry(i) ==
  LET after == {j \in Queued : Ahead(tail, j) >= Ahead(tail, i)}
      before == {j \in Queued : j # tail /\ Ahead(tail, j) < Ahead(tail, i)}
      bounds == {block[j].maxEntry + Distance(i, j) : j \in after}
                \cup {block[j].maxEntry + Distance(j, i) : j \in before}
                \cup {TailSpeed + Distance(tail, i), Distance(i, head)}
  IN Min(bounds)

\* Hazard: the planned pointer skips blocks "no new block can change".  The
\* plan is nevertheless the fastest one at every moment, as the comment at the
\* head of planner_recalculate promises; after an override it may not be (see
\* the README).
PlanBest ==
  ~overridden /\ "hold" \notin stepControl
     => \A i \in Queued \ {tail} : block[i].entry = BestEntry(i)

\* Hazard: the planner changes the speed at the end of the block that is being
\* executed.  The stepper then always recomputes its profile before it cuts
\* another segment.
ExitSpeedKnown ==
  prep.loaded /\ ~prep.decelOverride /\ "hold" \notin stepControl
     => prep.exit = ExitSpeed(block)

\* Hazard: an override or the completion of a hold with an empty ring sends
\* planner_recalculate once around the old entries, and the planned pointer
\* may stop anywhere.  The next block brings it back: while blocks are queued
\* it points to one of them, and none is entered faster than its corner allows.
PlanWithinQueue ==
  /\ ~IsEmpty => planned \in Queued
  /\ \A i \in Queued \ {tail} : block[i].entry <= block[i].maxEntry

\* What the machine feels: from one segment to the next, across block
\* boundaries, re-plans, holds and resumes, the speed never changes by more than
\* the acceleration allows over the distance.
NoJump ==
  [][ ~overridden /\ prep'.speed # prep.speed =>
        LET moved == IF tail' = tail THEN block[tail].dist - block'[tail].dist
                     ELSE block[tail].dist
        IN /\ prep'.speed <= prep.speed + moved
           /\ prep.speed <= prep'.speed + moved ]_vars

=============================================================================
