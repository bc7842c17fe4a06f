----------------------------- MODULE GrblGcode -----------------------------
(***************************************************************************)
(* Executing lines: step 4 of gc_execute_line, jog_execute, mc_line with   *)
(* the soft limits, system_execute_line, the settings it stores, startup   *)
(* lines, and the positions that parser, planner and machine keep of the   *)
(* same axes.                                                              *)
(*                                                                         *)
(* The main thread executes a line as a list of operations, some of which  *)
(* wait; meanwhile motion goes on, a jog may be cancelled and grbl may be  *)
(* reset (the user's reset that ends a critical alarm follows at once).    *)
(* An arc is one motion to its end: its segments go through mc_line each.  *)
(* A line's modal words take effect when it is accepted: no other thread   *)
(* reads them.  Spindle and laser output are GrblSuspend's subject; the    *)
(* flag words are updated at once (see GrblRealtime for their tears).      *)
(***************************************************************************)
EXTENDS GrblParser, SequencesExt

CONSTANTS Configs,      \* settings that the start-up configuration makes
          Lines,        \* lines that may be sent
          BlockSlots,   \* planner blocks
          MaxEvents     \* bound: lines and resets

IsGcode(l) == l.kind = "gcode" /\ IsWords(l)

ASSUME GcodeAssumption ==
  /\ Configs \subseteq [Parameters -> Nat]
  /\ BlockSlots \in Nat \ {0} /\ MaxEvents \in Nat
  /\ \A l \in Lines :
       \/ l.kind \in {"gcode", "jog"} /\ IsWords(l)
       \/ l.kind = "startup" /\ l.n \in StartupLines /\ IsGcode(l.block)
       \/ l.kind = "set" /\ l.v \in Int
       \/ l.kind = "command"

VARIABLES
  gc,       \* gc_state: the modes, pos, system, offset, tlo, feed, speed
  plan,     \* pl.position
  queue,    \* the targets in the planner
  mpos,     \* sys_position
  sys,      \* state, suspend, soft (soft_limit) and abort
  exec,     \* sys_rt_exec_state and sys_rt_exec_alarm
  running,  \* the step interrupt is on
  todo,     \* what is left of the line being executed
  line,     \* the line executed last
  events

vars == <<settings, eeprom, gc, plan, queue, mpos, sys, exec, running, todo, line, events>>
stored == <<settings, eeprom>>

\* gc_state as memset leaves it, with the offset read for G54.
GcZero(e) == [motion |-> "G0", feedMode |-> "G94", plane |-> "G17", distance |-> "G90",
              units |-> "G21", coord |-> "G54", spindle |-> "M5", coolant |-> "M9",
              pos |-> Zero, system |-> Coordinates(e, "G54"), offset |-> Zero,
              tlo |-> 0, feed |-> 0, speed |-> 0]

(* Mutant: gc_sync_position is forgotten. *)
GcInitAtZero(e, pos) == GcZero(e)

\* gc_init and gc_sync_position.
GcInit(e, pos) == [GcZero(e) EXCEPT !.pos = pos]

States == {"IDLE", "CYCLE", "HOLD", "JOG", "CHECK", "ALARM", "HOMING"}

-----------------------------------------------------------------------------
(* The list of operations. *)

Op(name) == [op |-> name]
Move(target, last) == [op |-> "move", target |-> target, last |-> last, jog |-> FALSE]

\* protocol_buffer_synchronize auto-starts once and then waits.
Synchronize == <<Op("start"), Op("wait")>>
SyncIf(cond) == IF cond THEN Synchronize ELSE <<>>

\* settings_write_coord_data synchronizes first.
Write(r, data) == Synchronize \o <<[op |-> "write", record |-> r, data |-> data]>>

\* In laser mode the power changes with the motion, if the line has one; else
\* a constant-power laser is switched when a line enters or leaves G1, G2, G3.
SpeedSyncs(l, m) ==
  LET cutting == {"G1", "G2", "G3"}
      moves == AxisWords(l) # {} /\ AxisCommand(l) = "motion"
      forced == /\ settings[32] = 1 /\ ~moves /\ gc.spindle = "M3"
                /\ (gc.motion \in cutting) # (m.motion \in cutting)
  IN /\ gc.spindle # "M5"
     /\ Speed(l, gc) # gc.speed \/ forced
     /\ settings[32] = 1 => ~moves

\* Spindle and dwell do nothing in check mode; coolant_sync is empty.
SpindleOps(l, m, checking) ==
  SyncIf(~checking /\ SpeedSyncs(l, m))
  \o SyncIf(~checking /\ m.spindle # gc.spindle)
  \o SyncIf(~checking /\ m.nonModal = "G4")

NewTlo(l, m) == IF "G49" \in Codes(l) THEN 0
                ELSE IF "G43.1" \in Codes(l) THEN Length(l, m, "Z") ELSE gc.tlo

\* Every change of an offset synchronizes (system_flag_wco_change).
OffsetOps(l, m) ==
  SyncIf(NewTlo(l, m) # gc.tlo) \o SyncIf(m.coord # gc.coord)
  \o CASE m.nonModal = "G10" -> Write(SelectOf(l, m), SystemData(l, m, gc, eeprom))
                                \o SyncIf(SelectOf(l, m) = m.coord)
       [] m.nonModal = "G28.1" -> Write("G28", gc.pos)
       [] m.nonModal = "G30.1" -> Write("G30", gc.pos)
       [] m.nonModal \in {"G92", "G92.1"} -> Synchronize
       [] OTHER -> <<>>

MotionOps(l, m) ==
  IF m.nonModal \in {"G28", "G30"}
  THEN (IF AxisWords(l) # {} THEN <<Move(TargetOf(l, m, gc, eeprom), FALSE)>> ELSE <<>>)
       \o <<Move(HomeOf(l, m, gc, eeprom), TRUE)>>
  ELSE IF AxisCommand(l) # "motion" \/ AxisWords(l) = {} \/ m.motion = "G80" THEN <<>>
  ELSE IF m.motion \in Probes THEN <<[Move(TargetOf(l, m, gc, eeprom), TRUE) EXCEPT !.op = "place"]>>
  ELSE <<Move(TargetOf(l, m, gc, eeprom), TRUE)>>

FlowOps(m) ==
  CASE m.flow = "M0" -> Synchronize \o <<Op("pause"), Op("check")>>
    [] m.flow \in {"M2", "M30"} -> Synchronize \o <<Op("end")>>
    [] OTHER -> <<>>

\* gc_state after the line, but for the position.
Taken(l, m) ==
  [gc EXCEPT !.motion = m.motion, !.feedMode = m.feedMode, !.plane = m.plane,
             !.distance = m.distance, !.units = m.units, !.coord = m.coord,
             !.spindle = m.spindle, !.coolant = m.coolant,
             !.feed = Feed(l, m, gc), !.speed = Speed(l, gc), !.tlo = NewTlo(l, m),
             !.system = IF m.nonModal = "G10" /\ SelectOf(l, m) = m.coord
                        THEN SystemData(l, m, gc, eeprom) ELSE BlockSystem(m, gc, eeprom),
             !.offset = CASE m.nonModal = "G92" -> OffsetData(l, m, gc, eeprom)
                          [] m.nonModal = "G92.1" -> Zero
                          [] OTHER -> @]

\* gc_execute_line for a block of g-code, rest being what follows the line.
Execute(l, rest) ==
  IF ~Accepted(l, gc, eeprom)
  THEN todo' = rest /\ line' = NoLine /\ UNCHANGED gc
  ELSE LET m == Modes(l, gc)
       IN /\ gc' = Taken(l, m)
          /\ line' = l
          /\ todo' = SpindleOps(l, m, sys.state = "CHECK") \o OffsetOps(l, m)
                     \o MotionOps(l, m) \o FlowOps(m) \o rest

\* gc_execute_line for a jog, which leaves the modes alone.
ExecuteJog(l) ==
  LET target == TargetOf(l, Modes(l, gc), gc, eeprom)
  IN IF ~Accepted(l, gc, eeprom) \/ (settings[20] = 1 /\ BeyondTravel(settings, target))
     THEN line' = NoLine /\ UNCHANGED todo
     ELSE /\ line' = l
          /\ todo' = <<[Move(target, TRUE) EXCEPT !.jog = TRUE]>>

-----------------------------------------------------------------------------
(* mc_reset and a pass of protocol_execute_realtime. *)

Reset(flags) ==
  IF "Reset" \in exec THEN exec' = exec \cup flags /\ UNCHANGED running
  ELSE LET holding == sys.state = "HOLD" /\ sys.suspend = "none"
                      /\ (running \/ "CycleStop" \in exec)
           lost == sys.state \in {"CYCLE", "HOMING", "JOG"} \/ holding
       IN /\ exec' = exec \cup {"Reset"} \cup flags \cup (IF lost THEN {"Alarm"} ELSE {})
          /\ running' = (running /\ ~lost)

\* The feed hold of a user or of M0.
Held(s) ==
  IF "FeedHold" \notin exec \/ s.state \in {"ALARM", "CHECK"} THEN s
  ELSE [s EXCEPT !.suspend = CASE s.state = "IDLE" -> "complete"
                               [] s.state = "JOG" -> "cancel"
                               [] OTHER -> @,
                 !.state = IF s.state = "JOG" THEN @ ELSE "HOLD"]

MayStart(s) == /\ "CycleStart" \in exec /\ "FeedHold" \notin exec
               /\ s.state = "IDLE" \/ (s.state = "HOLD" /\ s.suspend = "complete")

Started(s) ==
  IF ~MayStart(s) THEN s
  ELSE [s EXCEPT !.suspend = "none", !.state = IF queue # <<>> THEN "CYCLE" ELSE "IDLE"]

\* The stepper has come to rest.
Stopped(s) ==
  IF "CycleStop" \notin exec THEN s
  ELSE IF s.state = "HOLD" /\ ~s.soft /\ s.suspend # "cancel" THEN [s EXCEPT !.suspend = "complete"]
  ELSE [s EXCEPT !.suspend = "none", !.state = "IDLE"]

\* The end of a jog cancel flushes the planner and synchronizes the positions.
Flushes(s) == "CycleStop" \in exec /\ s.suspend = "cancel"

RealtimePass ==
  LET alarmed == [sys EXCEPT !.state = IF "Alarm" \in exec THEN "ALARM" ELSE @]
      held == Held(alarmed)
  IN IF "Reset" \in exec
     THEN /\ sys' = [alarmed EXCEPT !.abort = TRUE]
          /\ UNCHANGED <<exec, running, queue, plan, gc>>
     ELSE /\ sys' = Stopped(Started(held))
          /\ exec' = {}
          /\ running' = (running \/ (MayStart(held) /\ queue # <<>>))
          /\ IF Flushes(held)
             THEN /\ queue' = <<>> /\ plan' = mpos
                  /\ gc' = [gc EXCEPT !.pos = mpos]
             ELSE UNCHANGED <<queue, plan, gc>>

\* Where the main thread looks at the flags: before a line, and in its loops.
AtCheckPoint == todo # <<>> => Head(todo).op \in {"wait", "move", "softWait", "check"}

\* Nothing holds the main thread at a check point.
Clear == sys.abort \/ (exec = {} /\ sys.suspend = "none")

Pass ==
  /\ AtCheckPoint /\ exec # {} /\ ~sys.abort
  /\ RealtimePass
  /\ UNCHANGED <<stored, mpos, todo, line, events>>

-----------------------------------------------------------------------------
(* The operations. *)

Next1(name) == todo # <<>> /\ Head(todo).op = name
Done == todo' = Tail(todo)

\* protocol_auto_cycle_start, of a synchronize and of an idle main loop.
AutoStart ==
  /\ \/ Next1("start") /\ Done
     \/ todo = <<>> /\ queue # <<>> /\ "CycleStart" \notin exec /\ ~sys.abort /\ UNCHANGED todo
  /\ exec' = IF queue # <<>> THEN exec \cup {"CycleStart"} ELSE exec
  /\ UNCHANGED <<stored, gc, plan, queue, mpos, sys, running, line, events>>

Wait ==
  /\ Next1("wait") /\ Clear
  /\ sys.abort \/ (queue = <<>> /\ sys.state # "CYCLE")
  /\ Done
  /\ UNCHANGED <<stored, gc, plan, queue, mpos, sys, exec, running, line, events>>

WriteRecord ==
  /\ Next1("write") /\ Done
  /\ eeprom' = WithCoordinates(eeprom, Head(todo).record, Head(todo).data)
  /\ UNCHANGED <<settings, gc, plan, queue, mpos, sys, exec, running, line, events>>

\* The parser's position after a motion, whatever became of it.
Placed(op) == gc' = IF op.last THEN [gc EXCEPT !.pos = op.target] ELSE gc

(* Mutant: only a running cycle is limited. *)
SoftLimitedInCycle(op) == settings[20] = 1 /\ sys.state = "CYCLE" /\ BeyondTravel(settings, op.target)

SoftLimited(op) == settings[20] = 1 /\ sys.state # "JOG" /\ BeyondTravel(settings, op.target)

\* limits_soft_check: stop a running cycle, then reset with an alarm.
SoftLimit ==
  /\ Next1("move") /\ SoftLimited(Head(todo)) /\ ~sys.soft /\ ~sys.abort
  /\ sys' = [sys EXCEPT !.soft = TRUE]
  /\ IF sys.state = "CYCLE"
     THEN /\ todo' = <<Op("softWait")>> \o todo
          /\ exec' = exec \cup {"FeedHold"} /\ UNCHANGED running
     ELSE Reset({"Alarm"}) /\ UNCHANGED todo
  /\ UNCHANGED <<stored, gc, plan, queue, mpos, line, events>>

SoftWait ==
  /\ Next1("softWait") /\ Clear
  /\ sys.abort \/ sys.state = "IDLE"
  /\ Done
  /\ IF sys.abort THEN UNCHANGED <<exec, running>> ELSE Reset({"Alarm"})
  /\ UNCHANGED <<stored, gc, plan, queue, mpos, sys, line, events>>

\* mc_line in check mode or after an abort: nothing but the parser moves.
NoMove ==
  /\ Next1("move")
  /\ sys.abort \/ (sys.state = "CHECK" /\ ~SoftLimited(Head(todo)))
  /\ Done /\ Placed(Head(todo))
  /\ UNCHANGED <<stored, plan, queue, mpos, sys, exec, running, line, events>>

\* The motion goes to the planner.
(* Mutant: a dry run plans. *)
PlannedInCheck(op) == ~sys.abort /\ ~SoftLimited(op)
Planned(op) == ~sys.abort /\ sys.state # "CHECK" /\ ~SoftLimited(op)

\* plan_check_full_buffer.
Full == Len(queue) = BlockSlots

\* mc_line waits for room; a full planner starts the cycle.
Room ==
  /\ Next1("move") /\ Clear /\ Planned(Head(todo))
  /\ IF Full
     THEN exec' = {"CycleStart"} /\ UNCHANGED todo
     ELSE todo' = <<[Head(todo) EXCEPT !.op = "plan"]>> \o Tail(todo) /\ UNCHANGED exec
  /\ UNCHANGED <<stored, gc, plan, queue, mpos, sys, running, line, events>>

\* What jog_execute does after mc_line: a jog from IDLE starts at once.
Jogs(op, q) == op.jog /\ sys.state = "IDLE" /\ q # <<>>
JogStarted(op, q) ==
  /\ sys' = IF Jogs(op, q) THEN [sys EXCEPT !.state = "JOG"] ELSE sys
  /\ running' = (running \/ Jogs(op, q))

\* plan_buffer_line.  A motion without length is not queued; a constant-power
\* laser is synchronized then, and what follows the motion comes after that.
Plan ==
  /\ Next1("plan")
  /\ LET op == Head(todo)
         more == IF op.target = plan THEN queue
                 ELSE Append(queue, [target |-> op.target, jog |-> op.jog])
     IN /\ queue' = more
        /\ plan' = op.target
        /\ IF op.target = plan /\ settings[32] = 1 /\ gc.spindle = "M3"
           THEN /\ todo' = Synchronize \o <<[op EXCEPT !.op = "place"]>> \o Tail(todo)
                /\ UNCHANGED <<gc, sys, running>>
           ELSE Done /\ Placed(op) /\ JogStarted(op, more)
  /\ UNCHANGED <<stored, mpos, exec, line, events>>

\* The rest of such a motion, and the stub mc_probe_cycle, whose 0 stands for
\* GC_UPDATE_POS_TARGET.
Place ==
  /\ Next1("place") /\ Done /\ Placed(Head(todo)) /\ JogStarted(Head(todo), queue)
  /\ UNCHANGED <<stored, plan, queue, mpos, exec, line, events>>

\* M0 holds, M2 and M30 restore the defaults.
Pause ==
  /\ Next1("pause") /\ Done
  /\ exec' = IF sys.state = "CHECK" THEN exec ELSE exec \cup {"FeedHold"}
  /\ UNCHANGED <<stored, gc, plan, queue, mpos, sys, running, line, events>>

\* The end of protocol_execute_realtime after the feed hold of M0.
Resumed ==
  /\ Next1("check") /\ Clear /\ Done
  /\ UNCHANGED <<stored, gc, plan, queue, mpos, sys, exec, running, line, events>>

End ==
  /\ Next1("end") /\ Done
  /\ gc' = [gc EXCEPT !.motion = "G1", !.plane = "G17", !.distance = "G90", !.feedMode = "G94",
                      !.coord = "G54", !.spindle = "M5", !.coolant = "M9",
                      !.system = IF sys.state = "CHECK" THEN @ ELSE Coordinates(eeprom, "G54")]
  /\ UNCHANGED <<stored, plan, queue, mpos, sys, exec, running, line, events>>

\* A startup line, and one that $N0= or $N1= has just executed and stores.
Startup ==
  /\ Next1("startup")
  /\ IF eeprom.startup[Head(todo).n] = NoLine THEN Done /\ line' = NoLine /\ UNCHANGED gc
     ELSE Execute(eeprom.startup[Head(todo).n], Tail(todo))
  /\ UNCHANGED <<stored, plan, queue, mpos, sys, exec, running, events>>

StoreStartup ==
  /\ Next1("store") /\ Done
  /\ eeprom' = WithStartup(eeprom, Head(todo).n, Head(todo).block)
  /\ UNCHANGED <<settings, gc, plan, queue, mpos, sys, exec, running, line, events>>

\* write_global_settings.
WriteGlobal ==
  /\ Next1("global") /\ Done
  /\ eeprom' = WithGlobal(eeprom, settings)
  /\ UNCHANGED <<settings, gc, plan, queue, mpos, sys, exec, running, line, events>>

RunStartup == [n \in 1 .. 2 |-> [op |-> "startup", n |-> n - 1]]

\* The records that $RST= clears, and the reset after it.
Restore ==
  /\ Next1("restore") /\ Done
  /\ eeprom' = Restored(eeprom, Head(todo).what)
  /\ Reset({})
  /\ UNCHANGED <<settings, gc, plan, queue, mpos, sys, line, events>>

-----------------------------------------------------------------------------
(* A new line: protocol_main_loop and system_execute_line. *)

Refuse == line' = NoLine /\ UNCHANGED <<settings, gc, sys, exec, running, todo>>

StoreSetting(l) ==
  IF sys.state \notin {"IDLE", "ALARM"} \/ ~SettingAccepted(settings, l.p, l.v) THEN Refuse
  ELSE /\ settings' = Assigned(settings, l.p, l.v)
       /\ todo' = SyncIf(l.p = 13) \o <<Op("global")>>
       /\ line' = NoLine
       /\ UNCHANGED <<gc, sys, exec, running>>

\* A startup line is executed first and stored if it is accepted.
NewStartup(l) ==
  IF sys.state # "IDLE" \/ ~Accepted(l.block, gc, eeprom) THEN Refuse
  ELSE /\ Execute(l.block, Synchronize \o <<[op |-> "store", n |-> l.n, block |-> l.block]>>)
       /\ UNCHANGED <<settings, sys, exec, running>>

CheckMode ==
  CASE sys.state = "CHECK" -> Reset({}) /\ line' = NoLine /\ UNCHANGED <<settings, gc, sys, todo>>
    [] sys.state = "IDLE"  -> /\ sys' = [sys EXCEPT !.state = "CHECK"]
                              /\ line' = NoLine
                              /\ UNCHANGED <<settings, gc, exec, running, todo>>
    [] OTHER               -> Refuse

Unlock ==
  /\ sys' = [sys EXCEPT !.state = IF @ = "ALARM" THEN "IDLE" ELSE @]
  /\ line' = NoLine
  /\ UNCHANGED <<settings, gc, exec, running, todo>>

\* The homing cycle is a stub: it unlocks and runs the startup lines.  The
\* state is HOMING already when a single axis is refused.
Home(axis) ==
  IF sys.state \notin {"IDLE", "ALARM"} \/ settings[22] = 0 THEN Refuse
  ELSE /\ sys' = [sys EXCEPT !.state = IF axis = "" THEN "IDLE" ELSE "HOMING"]
       /\ todo' = IF axis = "" THEN RunStartup ELSE todo
       /\ line' = NoLine
       /\ running' = (running /\ axis # "")
       /\ UNCHANGED <<settings, gc, exec>>

\* The settings are restored and saved first.  Coordinate records are written after a synchronize.
RestoreDefaults(what) ==
  IF sys.state \notin {"IDLE", "ALARM"} THEN Refuse
  ELSE /\ settings' = RestoredSettings(settings, what)
       /\ todo' = (IF what # "#" THEN <<Op("global")>> ELSE <<>>) \o SyncIf(what # "$") \o <<[op |-> "restore", what |-> what]>>
       /\ line' = NoLine
       /\ UNCHANGED <<gc, sys, exec, running>>

Command(l) ==
  \/ l.name = "$C" /\ CheckMode
  \/ l.name = "$X" /\ Unlock
  \/ l.name = "$H" /\ Home(l.arg)
  \/ l.name = "$RST" /\ RestoreDefaults(l.arg)

ReadLine(l) ==
  /\ todo = <<>> /\ Clear /\ ~sys.abort
  /\ events < MaxEvents /\ events' = events + 1
  /\ CASE l.kind = "gcode" ->
            IF sys.state \in {"ALARM", "JOG"} THEN Refuse
            ELSE Execute(l, <<>>) /\ UNCHANGED <<settings, sys, exec, running>>
       [] l.kind = "jog" ->
            IF sys.state \notin {"IDLE", "JOG"} THEN Refuse
            ELSE ExecuteJog(l) /\ UNCHANGED <<settings, gc, sys, exec, running>>
       [] l.kind = "set" -> StoreSetting(l)
       [] l.kind = "startup" -> NewStartup(l)
       [] l.kind = "command" -> Command(l)
  /\ UNCHANGED <<eeprom, plan, queue, mpos>>

\* The startup lines do not run in an alarm.
(* Mutant: they do. *)
StartsUpAlways == TRUE
StartsUp == sys.state # "ALARM"

\* doMainWorker after an abort, and the head of protocol_main_loop.
Reinitialize ==
  /\ todo = <<>> /\ sys.abort
  /\ sys' = [sys EXCEPT !.state = IF @ = "ALARM" THEN @ ELSE "IDLE",
                        !.suspend = "none", !.soft = FALSE, !.abort = FALSE]
  /\ exec' = {} /\ running' = FALSE /\ queue' = <<>>
  /\ plan' = mpos /\ gc' = GcInit(eeprom, mpos)
  /\ line' = NoLine
  /\ todo' = IF StartsUp THEN RunStartup ELSE <<>>
  /\ UNCHANGED <<stored, mpos, events>>

-----------------------------------------------------------------------------
(* The stepper and the user. *)

Halting == running /\ (sys.state = "HOLD" \/ sys.suspend = "cancel")

\* A block is finished.
Finish ==
  /\ running /\ queue # <<>> /\ ~Halting
  /\ mpos' = Head(queue).target /\ queue' = Tail(queue)
  /\ UNCHANGED <<stored, gc, plan, sys, exec, running, todo, line, events>>

\* The stepper stops, in a hold on its way.
ComeToRest ==
  /\ running /\ (queue = <<>> \/ Halting)
  /\ running' = FALSE
  /\ exec' = exec \cup {"CycleStop"}
  /\ mpos' \in {mpos} \cup {Head(q).target : q \in {queue} \ {<<>>}}
  /\ UNCHANGED <<stored, gc, plan, queue, sys, todo, line, events>>

\* A jog is cancelled by a feed hold, an M0 resumed, grbl reset.
Request ==
  /\ \/ /\ sys.state = "JOG" /\ exec' = exec \cup {"FeedHold"}
        /\ UNCHANGED <<running, events>>
     \/ /\ sys.state = "HOLD" /\ exec' = exec \cup {"CycleStart"}
        /\ UNCHANGED <<running, events>>
     \/ /\ events < MaxEvents /\ events' = events + 1
        /\ Reset({})
  /\ UNCHANGED <<stored, gc, plan, queue, mpos, sys, todo, line>>

-----------------------------------------------------------------------------

Init ==
  /\ settings \in Configs
  /\ eeprom = Wiped(settings)
  /\ gc = GcInit(eeprom, Zero)
  /\ plan = Zero /\ mpos = Zero /\ queue = <<>>
  /\ sys = [state |-> "IDLE", suspend |-> "none", soft |-> FALSE, abort |-> FALSE]
  /\ exec = {} /\ running = FALSE
  /\ todo = <<>> /\ line = NoLine /\ events = 0

Next ==
  \/ Pass \/ AutoStart \/ Wait \/ WriteRecord \/ SoftLimit \/ SoftWait \/ NoMove \/ Room \/ Plan
  \/ Place \/ Pause \/ Resumed \/ End \/ Startup \/ StoreStartup \/ WriteGlobal \/ Restore
  \/ (\E l \in Lines : ReadLine(l)) \/ Reinitialize
  \/ Finish \/ ComeToRest \/ Request

Spec == Init /\ [][Next]_vars

-----------------------------------------------------------------------------
(* Properties. *)

GcStates ==
  [motion : ModalGroups.G1, feedMode : ModalGroups.G5, plane : ModalGroups.G2,
   distance : ModalGroups.G3, units : ModalGroups.G6, coord : Systems,
   spindle : ModalGroups.M7, coolant : ModalGroups.M8,
   pos : Position, system : Position, offset : Position,
   tlo : Int, feed : Nat, speed : Nat]

\* Every variable keeps its type.
TypeOK ==
  /\ settings \in [Parameters -> Nat]
  /\ eeprom.global \in [Parameters -> Nat]
  /\ eeprom.coords \in [Records -> Position]
  /\ DOMAIN eeprom.startup = StartupLines
  /\ \A n \in StartupLines : eeprom.startup[n] = NoLine \/ IsGcode(eeprom.startup[n])
  /\ gc \in GcStates
  /\ plan \in Position /\ mpos \in Position
  /\ Len(queue) <= BlockSlots
  /\ \A i \in DOMAIN queue : queue[i].target \in Position /\ queue[i].jog \in BOOLEAN
  /\ sys \in [state : States, suspend : {"none", "complete", "cancel"},
              soft : BOOLEAN, abort : BOOLEAN]
  /\ exec \subseteq {"FeedHold", "CycleStart", "CycleStop", "Reset", "Alarm"}
  /\ running \in BOOLEAN /\ events \in 0 .. MaxEvents

\* The line before has been answered, no reset is under way, and this is no
\* dry run.
Answered == todo = <<>> /\ "Reset" \notin exec /\ ~sys.abort /\ sys.state # "CHECK"
AtRest == Answered /\ queue = <<>> /\ ~running /\ sys.state = "IDLE" /\ exec = {}

\* Two things that PositionsAgree does not survive, and that runs and proofs
\* leave out: a jog in laser mode, which if it has no length may be cancelled
\* while it waits; and a probe command, whose stub moves only the parser.
NoLaserJog == ~(settings[32] = 1 /\ line # NoLine /\ line.kind = "jog")
NoProbing == gc.motion \notin Probes

\* Whatever was executed, jogged, cancelled, limited or reset, parser and
\* planner agree about where the motion planned so far ends, and the machine
\* about it when it is at rest: the next line starts where the last one ended.
PositionsAgree == /\ Answered => gc.pos = plan
                  /\ AtRest => mpos = plan

\* The offset that the parser adds for the active coordinate system is the
\* one stored for it, through G54 to G59, G10, M2, $RST= and resets.
StoredSystem == Answered => gc.system = eeprom.coords[gc.coord]

\* The offset of the work position in a status report.
Wco(a) == gc.system[a] + gc.offset[a] + (IF a = "Z" THEN gc.tlo ELSE 0)

\* A line that makes the present position of its axes the programmed one: G92,
\* or G10 L20 of the active system.  M2 and M30 then change to G54.
Zeroes(l) ==
  /\ l.kind = "gcode" /\ Codes(l) \cap {"M2", "M30"} = {}
  /\ \/ "G92" \in Codes(l)
     \/ "G10" \in Codes(l) /\ Value(l, "L") = 20 /\ SelectOf(l, Modes(l, gc)) = gc.coord

\* After it a status report shows the programmed values, whatever system, tool
\* length and unit were in force.
WorkZero ==
  AtRest /\ Zeroes(line) =>
    \A a \in AxisWords(line) : mpos[a] - Wco(a) = Length(line, gc, a)

\* Nothing moves in an alarm, and nothing is queued: neither by a line nor by
\* a startup line after the reset.
AlarmLocks == [][sys.state = "ALARM" /\ sys'.state = "ALARM"
                   => mpos' = mpos /\ Len(queue') <= Len(queue)]_vars

\* A dry run moves nothing, not even what was queued before it began.
CheckNeverMoves == [][sys.state = "CHECK" => mpos' = mpos /\ Len(queue') <= Len(queue)]_vars

\* With soft limits a machine inside its travel stays inside it, whatever the
\* motion comes from.
Inside == \A p \in {mpos, plan} \cup {queue[i].target : i \in DOMAIN queue} : ~BeyondTravel(settings, p)
TravelKept == [][settings[20] = 1 /\ settings' = settings /\ Inside => Inside']_vars

\* A jog moves the axes that its line names and no other.
JogMovesNamedAxes ==
  todo # <<>> /\ Head(todo).op = "move" /\ Head(todo).jog =>
    \A a \in Axes \ AxisWords(line) : Head(todo).target[a] = gc.pos[a]
=============================================================================
