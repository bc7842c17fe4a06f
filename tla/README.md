# TLA+ models and proofs for ecmc_plugin_grbl

`ecmc_plugin_grbl` runs the CNC controller grbl inside an EPICS IOC: grbl parses
g-code, plans motion and makes steps; ecmc (EtherCAT motion control) moves the
axes. What ran on an AVR with one main program and a few interrupts runs here in
several POSIX threads, and most of what can go wrong follows from that.

Every definition is written from the source (`src/`); `PROJECT.json` maps each
to the lines it models.

## 1. The system

### Threads

| thread | code | what it does |
|---|---|---|
| main, `ecmc.grbl.main` | `doMainWorker` -> `protocol_main_loop` | parses lines, plans, cuts step segments, executes realtime commands |
| writer, `ecmc.grbl.write` | `doWriteWorker` | writes configuration and program to grbl, line by line, reads the replies |
| realtime | `grblRTexecute` (each ecmc cycle), PLC functions | calls the step "interrupt", supervises limits and errors, starts, halts, resumes |
| iocsh | `ecmcGrblWrap.cpp` | loads programs and configuration |

Two mutexes protect the program and configuration buffers and two the character
rings. Everything else - flag word, rings of segments and block data, `sys`, the
plugin's command and busy flags - is shared without a lock.

### Components

| component | state | operations | what makes it correct |
|---|---|---|---|
| stepper (`grbl_stepper.c`) | segment ring, block-data ring, `prep`, `st`, interrupt enable | `st_prep_buffer`, interrupt, `st_wake_up`, `st_go_idle`, `st_reset`, `st_update_plan_block_parameters` | every block is stepped out once, in order, completely; no ring entry is reused while needed; a reported stop is a stop |
| realtime protocol (`grbl_protocol.c`) | `sys.state`, `sys.suspend`, `sys.step_control` | `protocol_exec_rt_system`, `_suspend`, auto-start, synchronize, main loop | requests are obeyed once and not lost; a hold is left only by a user; waiting ends |
| flag word (`grbl_system.c`) | `sys_rt_exec_state`, `sys_rt_exec_alarm` | set, clear | an update does not disturb other bits |
| motion control (`grbl_motion_control.c`) | - | `mc_line`, `mc_reset`, arcs, dwell | backpressure; soft limits on every way to the planner; a reset in motion raises the alarm |
| planner (`grbl_planner.c`) | block ring, planned pointer, position | `plan_buffer_line`, discard, recalculate, reinitialize | FIFO; the plan is feasible and the fastest one; the stepper knows of every change |
| parser, jogs (`grbl_gcode.c`, `grbl_jog.c`) | modal state, offsets, position | `gc_execute_line`, `jog_execute` | a refused line changes nothing; its position and offsets agree with planner, machine and stored data |
| commands (`grbl_system.c`) | `sys.state`, startup lines | `system_execute_line` | locked states stay locked; a dry run moves nothing |
| plugin (`ecmcGrbl.cpp`) | `executeCmd_`, `writerBusy_`, index, errors, `ecmcData_` | writer, `grblRTexecute`, PLC functions, loading | lines and replies stay paired; program sent in order; busy and error flags mean what the README says |
| serial link (`grbl_serial.c`) | two character rings, two mutexes | write, read, pick-off of realtime characters | FIFO, no overrun, no deadlock |
| settings, EEPROM (`grbl_settings.c`, `grbl_eeprom.c`) | settings, an array in memory with checksummed records | store, read, restore, wipe | stored data and the copies in use agree |
| spindle (`grbl_spindle_control.c`) | `sys.spindle_speed`, override | set, update, stop override | off while the door is open, as programmed afterwards |
| coolant, limits, probe | - | stubs in this port, except `limits_soft_check` | a machine inside its travel stays inside |
| report, print | - | output | see section 6 |

### How they interact

The writer puts a line into the receive ring; the main thread takes it,
executes it and prints a reply into the transmit ring; the writer waits for that
reply. A motion line queues a block in the planner, waiting while it is full.
The main thread cuts the oldest block into segments; the realtime thread's
interrupt executes them. All other communication goes through flags: PLC
functions and the interrupt set bits of `sys_rt_exec_state`, the main thread
polls them in `protocol_execute_realtime`; the writer polls `executeCmd_`,
`grblInitDone_` and the ecmc status.

### What is hard

- *Interleaving without locks*: the rings, the flag word, the busy flags.
- *Code written for interrupts that cannot be preempted by the main program*
  (`mc_reset`, the flag updates whose `cli()` is commented out).
- *Stale copies*: the executor's copy of the flag word, the writer's line.
- *Waiting*: synchronize, the full planner, the reply, the axes, the hold.
- *Partial failure*: error replies, refused configuration, resets in motion.

`PROJECT.json` lists each hazard at its line, with the properties that cover it.

## 2. Plan

Done:

1. `StepStream` and `GrblStepper`: what the stepper promises and how two threads
   keep it; the inductive invariant and its proofs (`GrblStepperProofs`).
2. `GrblRealtime`: the executor, the flag word and the three threads on it.
3. `EcmcGrbl`: the plugin.
4. `SerialLink`: the character rings and the main loop's filter.
5. `GrblPlanner`: the block ring and `planner_recalculate` against a reference
   plan, with the stepper executing the oldest block.
6. `GrblSuspend`: feed hold, safety door, sleep, spindle stop and the override
   byte, with a spindle.
7. `GrblSettings`, `GrblParser`, `GrblGcode`: what a line means, and executing
   lines, jogs, settings, startup lines and `$` commands.
8. Proofs about `EcmcGrbl`, `GrblRealtime`, `SerialLink`, `GrblGcode`,
   `GrblSuspend` and `GrblPlanner`: every safety and action property of the passing
   runs (section 5).

To do, in this order:

9. The interrupt's arithmetic: Bresenham counters with AMASS shifts give every
   axis exactly its steps; `grblRTexecute`'s time slicing; `st_reset` against the
   interrupt.
10. The positions of the plugin: `syncAxisPosition` against queued blocks.

## 3. Modules

### StepStream

The promise of the stepper: a sequence of planned blocks, the block being
stepped and how far. `Queue` appends a block, `StepSame` and `StepNext` make one
step event. Nothing else ever happens, whatever holds and re-plans do.

### GrblStepper

Two threads over two rings. `segment_buffer` has `SegmentBufferSize` entries
and indices; `st_block_buffer` has one entry fewer and *no* indices: a segment
names its slot, the main thread moves to the next slot when it loads a block,
and the interrupt knows a new block only by a new slot number.

| model | code |
|---|---|
| `QueueBlock`, `Override`, `FeedHold`, `CycleStart`, `CycleStop` | the handlers that run between two calls of `st_prep_buffer` |
| `CallPrep`, `PrepReturn`, `PrepLoad`, `PrepSegment`, `PrepPublish` | `st_prep_buffer`, split where the interrupt can see the difference: loading the slot, writing the segment, advancing the head |
| `WakeUp` | `st_wake_up` |
| `IsrStep`, `IsrEmpty` | one call of `ecmc_grbl_main_rt_thread` |
| `outBlock`, `outDone`, `segBlock`, `segEnd` | history: which steps go out |

A block is its number of step events, and a distance is counted in eighths of a
step, so that segments can end between two steps. Where a segment ends (speeds,
ramps) is a choice, but it goes on until it has covered `req_mm_increment`, a step
and a quarter, or to the end of the profile; its steps are the difference of two
roundings (`Ceil`), and in a hold the profile may end within the block. So that a
segment has a step is a result, `NoEmptySegment`, and not an assumption: with an increment of
exactly one step it fails. The interrupt's comment (`grbl_stepper.c:388`) takes
segments without steps for possible when moving slowly; here they are not. `Ceil` allows
for the rounding error of the floats by taking either neighbour at a whole number of
steps; larger errors are left out. `st_reset` is not part of this module, and the
cycle-stop flag is atomic in it (its tears are the subject of the next one).

### GrblRealtime

`protocol_exec_rt_system` statement by statement: the program counter stops at
the copy of the flag word, at each handler and at each clear, so that the other
threads' requests come in between. `caller` says which function the executor
returns to (main loop, `mc_line`, synchronize, a pause). Blocks and segments are
counted. The writer's `mc_reset` is split at the flag, the test and the kill.

As compiled, `|=` and `&=` on the flag word are a load and a store, and any
thread may run in between; the `cli()`/`SREG` lines that made them atomic are
commented out. `SplitThreads` names the threads whose updates are split
(`LoadFlags`, then `SetFlags` or `ClearFlags`): all three in the run `realtime`, the main
thread alone in `realtime_halt`, and any in the proofs.

Two histories name what a stale store does: `lost` has the flags it took out, `back`
the cycle flags it brought back. They stand in the properties as exceptions:

| property | does not hold when a stale store has |
|---|---|
| `StoppedMeansOff` | taken out the reset (queued motion then goes on in ALARM), or brought back a cycle stop |
| `HoldNeedsUser` | brought back a cycle start that was obeyed before |
| `HaltHolds` | taken out the halt |
| `ResumeEndsSuspend` | taken out the resume |
| `PlannerEmpties` | taken out a cycle stop (the state stays CYCLE, and nothing wakes the interrupt) |

Each exception occurs. The rest is what the properties say: the code needs no other
protection between the threads than that of the flag word. `HaltObeyed` is
`HaltHolds` without its exceptions, and `realtime_halt` shows it broken.

### EcmcGrbl

The plugin object with the writer as a program counter (`pcW`), one action per
statement that other threads can see: the two clears of `writerBusy_`, the
clear of `executeCmd_`, the check of `executeCmd_` before a line is taken
(`SeeLine`), taking it (`TakeLine`) and sending it (`SendLine`). `grblRTexecute` is
`RtRead`, `RtStatus`, `RtStop`, `GiveControl` and `RtMotion`, so that the writer meets
the axes reported as enabled before they are asked, and a halt before the stop that
follows it; grbl is three actions (start, line, cycle). A program is a
sequence of kinds: motion, other line, program end, refused line, one-character
line, line without a line end.

Simplifications: a hold of grbl is a flag (`held`), complete when the
interrupt is off; a line is executed and answered in one step; the ecmc status
is a choice in every cycle, restricted to the `Faults` of the run. `SetExecute` is one
step; its four statements run one after the other in the realtime thread. Of the
messages that are no replies only that of M2 and M30 is modelled.

`early` is history: the run in progress was started between `executeCmd_ = 0` and
`writerBusy_ = false` of the one before (`ecmcGrbl.cpp:308-309`). Then the parser counts
as free while the run is sent.

### SerialLink

The link of `EcmcGrbl` at the level of characters: `WriteCommand` waits for room,
`AddChar` puts the line into the receive ring, under its mutex, and picks off realtime
characters, `ReadChar` and `Filter` are the inner loop of `protocol_main_loop`, `WriteChar` and `Spin` are `serial_write`,
`Hear` and `Collect` are `grblReadReply`. `serial_write` waits for room with the
transmit mutex held; the reader needs that mutex, so the wait ends only with
`EXEC_RESET`. `rxDue` and `txDue` are history: what each ring ought to contain.

A character is one of a few kinds. A `$` command may print messages of given
lengths (`Reports`) before its status.

The main thread obeys flags at its check points (`CheckPoint`): `Abort`, `StatusReport`
for `?`, and `FeedHold` for `!`. A hold suspends it there at once (in IDLE), later
(`HoldComplete`, in CYCLE), or not (in an alarm or a dry run). While it is suspended a line
that has been read is not executed; `Resume` goes on with it. ctrl-x and `~` inside a
line are left out (a program is a text file). A report is printed at a check point and
may stand before the status that the writer waits for, which then takes it for the
reply.

### GrblPlanner

Speeds are squared and a distance is the change of squared speed it allows, so
that the kinematics of the code (`v^2 + 2 a s`) are additions of integers.
Junction geometry is an input: a line has a rate, a distance and the speed at
which its corner may be taken.

| model | code |
|---|---|
| `BufferLine` | `plan_buffer_line` with `planner_recalculate` |
| `ReversePass`, `ForwardPass` with `Backwards` and `Forwards`, what they do to one block; `TellsStepper` | the passes, and the calls of `st_update_plan_block_parameters` in them |
| `Override` | the motion override section of the executor: `plan_update_velocity_profile_parameters`, `plan_cycle_reinitialize` |
| `FeedHold`, `CycleStop`, `CycleStart` | what these sections do to plan and step control |
| `LoadBlock`, `SpeedAfter`, `HoldStop`, `PrepSegment` | `st_prep_buffer`: start speed, ramps, the cut of a hold, the discard at the end of a block |
| `overridden` | history: an override changed while these blocks were queued |

Left out are the clamp to the minimum feed rate and a hold whose segment ring underruns
while there is still speed to take off (`grbl_protocol.c:379-390` completes that one too;
the interrupt then stops from that speed, and `NoJump` says nothing of it).

A segment ends anywhere in the block, so that a re-plan can meet every speed of
the ramp. `PlanBest` compares the plan with `BestEntry`, which knows neither
passes nor planned pointer.

### GrblSuspend

The executor section by section in one step (its tears are `GrblRealtime`'s
subject): `HoldSection`, `StartSection`, `StopSection`, `AccessorySection`, then
the reload of the segment buffer. `Manage` is one round of
`protocol_exec_rt_suspend`: `Retract`, `DoorClosed`, `FallAsleep` for door and sleep,
`HoldManager` for the spindle stop override. The spin-up delay of the restore is a
state of its own: in this port `delay_sec` sleeps in one piece, so no executor
pass runs in it. `Prep` is `st_prep_buffer`: `Fill` is one round of its loop, `Full` its
conditions to leave it, `Updated` the spindle update; `SpindleSet` is `spindle_set_state`, `OverrideByte` the arithmetic of the override in a byte.

Three simplifications. Blocks are one or two segments long. In a hold the
machine stops after some number of segments. The power of a laser that follows
the feed rate is left out; laser mode differs as far as control does (no delays,
spindle words without a synchronize).

### GrblSettings, GrblParser, GrblGcode

`GrblSettings` keeps the settings and the simulated EEPROM. `GrblParser` is steps
1 to 3 of `gc_execute_line`: given a line (its command words and its value words)
and the modal state, `Accepted` says whether it is executed, `Modes`, `TargetOf`,
`OffsetData`, `SystemData` and others what it means. Refusals are not told apart, so
the order of the tests does not matter. Lengths are integers and an inch has two
millimetres.

`GrblGcode` executes. A line becomes a list `todo` of operations in the order of
step 4: synchronize, write a record, move, pause, end the program. Some operations
wait with calls of the executor, and there everything else can happen.

| model | code |
|---|---|
| `ReadLine` | `protocol_main_loop`'s choice: `gc_execute_line`, a jog, `system_execute_line` |
| `Pass`, `AutoStart`, `Wait` | executor, auto-start, `protocol_buffer_synchronize` |
| `SoftLimit`, `SoftWait`, `Room`, `Plan`, `NoMove`, `Place` | `mc_line` with `limits_soft_check`, `plan_buffer_line`, and the update of the parser's position |
| `WriteRecord`, `StoreStartup`, `WriteGlobal`, `Restore` | the writes to the EEPROM |
| `Startup`, `Reinitialize` | startup lines, `doMainWorker` after an abort |
| `Finish`, `ComeToRest` | the stepper, block by block |
| `Request` | jog cancel, resume after M0, `mc_reset` |

An arc is one motion to its end (its segments go through `mc_line` each). Modal
words take effect when a line is accepted: no other thread reads them. Feed
holds come from a jog cancel, a soft limit and M0. A read of the EEPROM always
succeeds, because only this program writes the array. The wait for the user's
reset after a critical alarm is not modelled: the reset follows at once.

### Type invariants

Every module states its `TypeOK`. `stepper`, `planner` and `suspend` check theirs,
because ring indices and the override byte can go wrong there; for the others
no run is spent on it. All of them are proved (section 5).

## 4. Runs

Bounds: ring sizes are reduced so that they wrap and run full within the
behaviours (3 or 4 segments instead of 32, 1 to 3 blocks instead of 15). The
code is uniform in the sizes from 3 segments up (`SizeAssumption`); the proofs
hold for every size.

| run | bounds | shows |
|---|---|---|
| `stepper` | 4 segments, planner of 2 blocks, 4 blocks of up to 2 steps, segments that end between two steps | both rings wrap, holds and re-plans between any two segments; no segment without steps; the inductive invariant, refinement of `StepStream`; holds complete |
| `realtime` | planner of 1 block, 2 segments, 3 inputs: lines of all kinds, halts, resumes; the updates of all threads split | a reported stop is a stop, also after a reset; only a user leaves a hold; halts hold, resumes resume, queued motion starts; with the exceptions of section 3 |
| `plugin` | programs longer than the planner, with a refused line, a one-character line or no line end, configuration taken or refused, with and without AUTO_START, AUTO_ENABLE, 3 inputs out of six PLC calls and file loads, all faults | pairing, order, stop, nothing moves unconfigured, meaning of the error |
| `plugin_live` | one program longer than the planner, 3 inputs out of triggers, stops, resumes, error resets | answers come, the parser frees |
| `serial` | rings of 5 and 4 characters, line buffer of 4, every line of up to 4 characters of code and comment marks and some others, with `!`, `?` and lines of one character, 3 lines | no character lost or overwritten, the filter is right, nothing left over between lines, answers come |
| `planner` | ring of 4, a slow long line and a rapid short one, two overrides; no bound on their number | the plan is the fastest feasible one, the stepper knows its exit speed, the ring is sound, speed never jumps |
| `suspend` | planner and segment ring of 1, 3 lines, 3 requests, both laser modes, an override of 2 to 6 in a byte of 16 | door and hold stop and restore the spindle, only a user leaves a stop, a door comes to its retract |
| `gcode` | planner of 2 blocks, 4 lines or resets out of 28 lines, 3 configurations (default, soft limits, laser), travel of 2 | positions, offsets and stored data agree; nothing moves in an alarm, in a dry run or out of its travel |

In `realtime` three inputs are two motions over a planner of one block (`mc_line` waits)
and a halt, or a motion, a halt and a resume in any order, or a motion and a refused
line, whose reset meets it. In `plugin` three inputs, with AUTO_START a fourth start, are
enough for a trigger in the gap between two runs and one more in the middle of the
run. In `planner` three queued blocks are
the fewest in which the planned pointer can stop between tail and head. In
`suspend` three requests are a door, a resume and a second door, or a hold, a spindle stop
and a resume, or the decreases that take the override byte below zero. In `gcode` four lines are enough to set a coordinate system, an
offset and a tool length and to use them, or to configure, queue, limit and reset.
The 28 lines have one for every kind of operation, and those that combine
(a change of system in the line that stores it, units with an offset).

`CHECK_DEADLOCK FALSE` stands where the system may stop: in `plugin` and `serial`
with the writer ended after an error and the realtime gate closed by its
`setReset`, or with a line that is longer than the receive ring and waits for
ever; in `suspend` and `gcode` when lines and requests are used up, and in a
hold, a sleep or an endless wait for a synchronize. `gcode` leaves out jogs in laser mode
(`NoLaserJog`) and probe commands (see below for each).

### What the code does not keep

Each of these runs checks one statement of a document or comment and finds a
behaviour of the code that breaks it; `PROJECT.json` quotes the statement and
tells the steps.

| run | broken statement |
|---|---|
| `realtime_halt` | a halt halts (flag lost by a non-atomic update) |
| `plugin_order` | code is executed once (the shipped PLC retriggers while the parser counts as free) |
| `plugin_end` | messages are skipped while waiting for a reply (M2/M30) |
| `gcode_jog` | a jog's axis words have been checked (without any it moves to the machine's zero) |

Further disagreements that follow from a statement or two, met while modelling;
the models contain the code as it is, no run is spent on them.

Stepper, executor and motion control:

- A hold taken in IDLE with a block queued cuts the block into the segment ring and
  discards it from the planner. The resume looks at the planner
  (`grbl_protocol.c:364`), goes to IDLE and leaves the halted motion in the ring until
  some later block starts the cycle (the plugin's README: resume halted motion).
- When the segment ring underruns in a synchronize the cycle stops with blocks
  left, and the loop at `grbl_protocol.c:181-185` does not start it again: the
  auto-start is outside the loop (comments at `:176`, `:179`). `PlannerEmpties` names
  exactly that state, `Stranded`, as an exception. In check mode, entered
  with a block queued, nothing starts the cycle, and the synchronize of G92 or M2 never
  returns either.
- Synchronize returns while the machine still decelerates in HOLD when the
  planner is empty (`grbl_protocol.c:185` looks for CYCLE only, comments at `:175`, `:264`).
- `mc_reset` sets the reset flag before it looks at the state
  (`grbl_motion_control.c:386`, `:396`). The main thread can take the reset and clear
  everything in between: motion is cut off and no alarm is raised (comment at
  `:375-379`).
- With an override the recalculation starts at the speed the machine has, but a
  plan that is not feasible any more is only repaired block by block
  (`grbl_planner.c:158` skips blocks that are at their maximum; comments at `:74-75`).
  `PlanBest` and `NoJump` exclude blocks that were queued when an override changed.
- An override at its minimum, asked for a coarse and a fine decrease in one pass,
  wraps in its byte and is clamped to the *maximum* (`grbl_protocol.c:419-426`,
  `:447-454`); `suspend` has such requests.
- In laser mode a hold in IDLE with a block queued can leave the spindle other
  than programmed when the cycle starts (`grbl_protocol.c:752`, `:363`); the two spindle
  properties of `suspend` are stated without laser mode.

Lines, positions and settings:

- A jog without length that waits in laser mode with M3 on and is cancelled there
  sets the parser's position to its stale target (`grbl_gcode.c:890` after the
  synchronize, comment at `:877-879`): `NoLaserJog`.
- `mc_probe_cycle` is a stub that returns 0, which is `GC_UPDATE_POS_TARGET`: after
  G38.x the parser's position moves and the machine does not
  (`grbl_motion_control.c:263-266`). The runs leave probe lines out.
- A jog line that waits in `mc_line` for room goes on after the cancel of the jog
  before it. A jog accepted in IDLE with program blocks queued executes these as JOG.
- `$HX` with homing enabled is refused and leaves the state HOMING
  (`grbl_system.c:193-205`); `$H` itself unlocks without homing, as the cycle is a stub.
- G10 without P or without L is accepted, one of the two suffices
  (`grbl_gcode.c:555`, comment at `:551`). An arc by radius whose two ends agree in the plane divides
  by zero (`:778`). A feed that follows a G93 block is not converted from inches.
- In check mode G10 and G28.1 still write their records, and M2 leaves the
  offset of the system it left. G10 writes its record after an aborted synchronize too.
- A line that violates a soft limit raises the alarm and is answered with ok.
- A startup line's number is not checked; `$20=1` is taken with blocks queued that
  were not limited; `$100=` changes the conversion of positions without a sync.
- The checksums of the EEPROM use `||` for `|` (`grbl_eeprom.c:207`, `:219`), so they tell
  apart less than they should; here nothing else writes the array.

Plugin and serial link:

- The shipped PLC triggers the program again as soon as the parser is reported
  free, also between `executeCmd_ = 0` and `writerBusy_ = false` (`ecmcGrbl.cpp:308-309`).
  Then the parser counts as free while the run is sent, and the next trigger resets the
  line index (`:858`) under the writer; the increment at `:401` follows, and a line is
  executed twice or left out. `plugin_order` shows it; `LinesInOrder` excludes runs
  started in that gap (`early`) and no others.
- `grbl_get_busy` says idle while blocks wait for their cycle start or are held
  (`ecmcGrbl.cpp:892`, the plugin's README: busy while motion code is executed).
- A limit switch during the motion that is left after the program was sent sets
  no error and requests no hold (`ecmcGrbl.cpp:612` looks at `executeCmd_`).
- A trigger taken back before the writer polls leaves `writerBusy_` set for ever
  (`:859`), the exception `TakenBack` of `ParserFrees`; a trigger between `:406` and `:308`
  is accepted and lost.
- `autoEnableAxesSuccess` waits while `!allEnabled || loopCounter >= 100` (`:358`):
  its time-out error is unreachable.
- Files: a program with newline line ends reaches grbl without line ends (`:963`,
  `:928`, `grbl_serial.c:292`), so that its first line is never executed or answered. A
  configuration with CR LF line ends reaches it with two in each line (`:1035` leaves
  the CR, `:995` appends a newline), and the second, an empty line, is answered too
  (`grbl_protocol.c:95`).
- A line of one character (`%`) gets no reply (`grbl_protocol.c:108`), and the
  writer waits for one for ever (`OneCharacter`, an exception of `AnswerComes`).
- A `!` in a line holds grbl before it executes that line, and the writer waits for
  the reply until somebody resumes (`[]suspend`, the second exception).
- A message longer than the transmit ring deadlocks: `serial_write` spins with the
  mutex its reader needs (`grbl_serial.c:152`), although the comment at `:157`
  wants no endless loop. This is the last exception of `AnswerComes`.
- A hold begun in CYCLE does not block the main program until it is complete
  (`grbl_protocol.c:275`, against the comment at `:264`).
- A resume that arrives between the executor's copy of an older cycle start and
  the clear of that flag is lost (`:249`, `:376`). `ResumeEndsSuspend` excludes
  exactly this case.

### Fairness

The main thread polls in endless loops, the realtime thread is periodic and the
writer sleeps for milliseconds: each gets weak fairness on all its steps.
Lines, PLC calls, faults and file loads need never come, nor (`SerialLink`) a resume or
the end of a hold's motion. Strong fairness is used
where a thread can be delayed by others but not for ever:

- `GrblSuspend` needs weak fairness only, of the main thread and of the interrupt:
  every wait in it ends by a step of one of the two.
- `GrblStepper`: a flagged cycle stop and the auto-start are seen by the next
  pass of the executor, however often it also does something else.
- `GrblRealtime`: cutting segments of a block over and over finishes the block
  (a block has finitely many steps; the module does not count them).
- `EcmcGrbl`: likewise a block is executed to its end while the axes are enabled
  again and again.

Reactions to a user (resume, error reset) are never assumed.

## 5. Proofs

A theorem holds for every value of the constants that the module's assumption
allows. `TypeCorrect` is `Spec => []TypeOK`; every component has it.

| module | theorem | says | hypothesis |
|---|---|---|---|
| `GrblStepperProofs` | `Invariance` | `Spec => []IInv` | |
| | `TypeCorrect` | | |
| | `SlotsStayIntact` | `Spec => []SlotIntact` | |
| | `SegmentsHaveSteps` | `Spec => []NoEmptySegment` | |
| | `HoldMeansStopped` | `Spec => []StoppedWhenReported` | |
| | `ImplementsStepStream` | `Spec => StepsInOrder` | |
| `GrblRealtimeProofs` | `TypeCorrect` | | |
| | `StoppedIsOff` | `Spec => []StoppedMeansOff` | |
| | `HoldIsKept` | `Spec => HoldNeedsUser` | |
| `EcmcGrblProofs` | `TypeCorrect` | | |
| | `NothingBeforeConfig` | `Spec => []NothingUnconfigured` | |
| | `OneMoreLine` | `Spec => []StopsSending` | |
| | `OneLineOneReply` | `Spec => []OneOutstanding` | `NoProgramEnd` |
| | `ErrorMeansRefused` | `Spec => []CommandErrorMeansRefused` | `NoProgramEnd` |
| | `LinesKeepOrder` | `Spec => LinesInOrder` | |
| `SerialLinkProofs` | `TypeCorrect` | | |
| | `BothRingsIntact` | `Spec => []RingsIntact` | |
| | `EveryLineFiltered` | `Spec => []LineFiltered` | |
| | `NothingLeftOver` | `Spec => []QuietBetweenLines` | `WholeLines` |
| `GrblSuspendProofs` | `TypeCorrect` | | |
| | `DoorKeepsSpindleOff` | `Spec => []DoorStopsSpindle` | |
| | `SpindleFollowsProgram` | `Spec => []SpindleAsProgrammed` | |
| | `IdleSpindleAgrees` | `Spec => []IdleSpindle` | |
| | `OnlyUserResumes` | `Spec => StopNeedsUser` | |
| `GrblPlannerProofs` | `TypeCorrect` | | |
| | `PlannedIsQueued` | `Spec => []PlanWithinQueue` | |
| | `StepperKnowsExit` | `Spec => []ExitSpeedKnown` | |
| | `AlwaysStops` | `Spec => []CanStop` | |
| | `SpeedNeverJumps` | `Spec => NoJump` | |
| | `PlanIsFastest` | `Spec => []PlanBest` | |
| `GrblGcodeProofs` | `TypeCorrect` | | |
| | `StoredOffsets` | `Spec => []StoredSystem` | |
| | `LockedInAlarm` | `Spec => AlarmLocks` | |
| | `DryRun` | `Spec => CheckNeverMoves` | |
| | `InsideTravel` | `Spec => TravelKept` | |
| | `PositionsKept` | `... => []PositionsAgree` | `[](NoLaserJog /\ NoProbing)` |
| | `WorkZeroShown` | `... => []WorkZero` | `[](NoLaserJog /\ NoProbing)` |
| `Induction` | `UpTo`, `Recursion` | see below | |

The hypotheses restrict constants or, where the table has "...", behaviours, and each is
needed. The exceptions that a property names itself (section 3) are no hypotheses: the
theorems about it hold of the code as compiled.

- `NoProgramEnd`: no M2 or M30 among the lines. grbl answers these with a message
  as well, which the writer takes for the reply: run `plugin_end`.
- `WholeLines`: a command ends with its only end of line. Without one grbl never
  answers; with two it answers twice (section 4, files).
- `NoLaserJog`, `NoProbing`: no jog is executed in laser mode, and no probe command. Either
  leaves the parser where the machine is not (section 4); the run leaves them out too.

### The inductive invariants

**Stepper.** `SlotIntact` is not inductive: nothing in it says why the main thread
cannot come round to a slot in use. Two ideas close it.

- *Distance* (`SlotsBehind`): a queued segment is at least as far behind the
  head of its ring as its slot is behind the slot being prepared. A new
  segment needs a free entry of the long ring; so the slot of every queued
  segment is less than a full round of the short ring behind.
- *Chain* (`Chained`): from the step the interrupt made last, through the queued
  segments in ring order, to the remaining steps of the block being cut, each
  piece `Follows` the one before: the same slot, block and step count, or the
  next slot, next block and step zero. That is what makes a change of slot mean a
  change of block, and what the refinement needs.

For `NoEmptySegment` the invariant keeps apart what is left of the block in steps and as a
distance: the first is the second rounded up, so a segment that covers more than a step
takes at least one, and one that goes to the end of the block takes what is left, which is
at least one. The forced deceleration of a hold can end in less than a step, but
such a segment is not published.

The refinement maps a step of the interrupt to `StepSame` or `StepNext`, a queued
block to `Queue`, everything else to a stutter.

**Realtime.** `StopInv`: every wake-up of the interrupt is followed by one cycle
stop, which is still to be flagged, in the flag word or in the executor's copy of it,
never two of these, and all that time the state says that the machine moves (`Counted`);
or the reinitialization has cleared all of it (`Cleared`); or a stale store has made an
exception. Until the writer resets grbl no thread has the reset in its loaded word, so
that none can bring it in (`Clean`). `ResetInv` follows the writer's reset from the flag
to the reinitialization; `Copied`: a handler runs only if its flag was in the
copy. `AskInv`: a cycle start that nobody asked for (`Unasked`) is the main thread's
own (`OwnStart`), consumed by the pass that follows at once and set only where no hold is
complete, or one that a stale store has brought back.

**Plugin.** `ConfigInv`: until the configuration is applied the parser is busy, so
that no trigger is taken. `SendInv`: a line is taken only with `executeCmd_` seen
set, so at most one is sent after it was cleared. `ReplyInv`: of line and reply one
at most is under way, the welcome message comes only when neither is, and an error
among the replies means that grbl refused something.
For the order of the lines: while the writer has a program to send, the parser is busy
or the run was started in the gap (`StartInv`), so the index stays; it stands at the beginning or
behind the line that grbl took last, and a line under way has the number after it
(`OrderInv`), whatever answers come (`AnswerInv`, which allows M2 and M30).

**Serial link.** The contents of a ring, read from tail to head, are the history
`rxDue` or `txDue`; the lemmas on ring arithmetic say what writing a string and reading
a character do to them; the room that the writer waited for is there until its last
character has been added, for meanwhile the main thread only reads (`RoomInv`). `FilterInv`: the line so far is what the filter should make of
the characters so far, unless it has overflowed, and the flags say whether the next
character stands in a comment. `QuietInv`: while the writer waits for a reply, the
line is being added, is arriving, has arrived, or is being answered, and of the answer
nothing comes after its status; a hold or a report between reading and executing a line
leaves that as it is.

**Suspend.** The spindle is started by segments, by the manager and by overrides.
Three ideas keep it right.

- When a hold is complete nothing is left to prepare (`Full`): no block, no free
  segment, or the motion has ended. So no segment starts a spindle that a door or a
  spindle stop has turned off (`Stopped`, `Open`).
- While nothing has it off, the spindle agrees with the parser, and so do all queued
  blocks (a spindle word waits until none is left) and what will be restored. So it
  does not matter which of the three a resume takes.
- A cycle start that meets something suspended was asked for (`AskedInv`): the
  automatic one is set only in the main loop, where nothing is suspended, and the
  manager's own only after a restore that was asked for.

**Planner.** The passes are reasoned about block by block (`Reversed`, `Forwarded`,
`LastSettled`, together `Replans`), not by their recursions. Three invariants, each on
top of the one before:

- `PlannerInv`, for `ExitSpeedKnown`: the planned pointer is in the queue, so a
  re-plan reaches the block behind the executing one only from the executing one
  itself, and then the stepper is told (`TakenUpAgain`).
- `MotionInv`, for `NoJump`: every queued block can brake to its exit speed and
  accelerate no further than to it (`Smooth`), the executing one from the speed it
  has; a block taken up after another starts with the speed the other ended with
  (`NextStart`); in a hold a block brakes to its end or to rest (`HoldBrakes`). `CanStop`
  needs nothing of these about overrides: way `D[i]` from block i to the end of
  the queue bounds its entry speed even when an override has disturbed the plan.
- `FastestInv`, for `PlanBest`: something limits every block (`Tight`): its
  corner, braking to the exit, or accelerating from the block before. For the block that the
  planned pointer points to it is not the braking (`Pinned`); that is why no later block can
  speed up an earlier one, and why the blocks before the pointer may be skipped. A plan
  that can be driven and is limited at every block is the fastest (`FastestPlan`): the
  slowest block that no bound of `BestEntry` meets would be limited by a slower one.

**G-code.** `TypeInv`, `RoomInv`: every operation that is left has the operands it needs,
of the line's words or of the stored records, and a motion is handed to the planner
only when there is room. `RunInv`: where the interrupt may be on, and what an alarm leaves
possible until the executor sees it: the reset is flagged with it, the interrupt is
off, and in IDLE the motion that violated its limit still stands at the head of the
list, so that nothing gets planned. `TravelInv`: a jog was limited when it was read and
nothing but the jog is left beside it, so its limits cannot change before it is
planned. `StoredInv`: of the writes that are left, those to the active system's record
carry the parser's offset, and stand before an end of program and before startup
lines, which may change the system; if none is left, the record agrees already.
`QueueEnd`: the last target in the planner, or the machine if there is none, is where the
plan ends. `PosInv`: while nothing is reset, the parser is there too or a motion that
takes it there is left (`Near`). A motion that does not take it there, the first of G28
or G30, has one behind it that does (`Led`). A motion without length in laser mode waits behind a
synchronize, and nothing moves the plan's end under it (`PlaceInv`): only the cancel
of a jog could (`CancelInv`), and beside a jog no other motion is left.
`ZeroInv`, for `WorkZero` (in an accepted line the codes of a modal group are the same,
`OneOf`): from the line on the parser shows the programmed values, and
nothing that is left moves the axes or changes the system. For that nothing is jogged while a
line of g-code is the last one executed (`JogKind`), only M2 and M30 leave an end of
program (`EndLine`), and behind a startup line only startup lines are left (`Ordered`).

### Induction over data

The induction theorems of the library take an operator, which the provers cannot
instantiate. `Induction` states the same for sets: `UpTo` (a set with 0 and with the
successor of each element holds 0 .. N) and `Recursion` (a function given by its first
value and a step exists). So recursive functions can be reasoned about: the filter
over a line of any length, the loop of `st_prep_buffer` over a segment ring of any
size, the two passes of the planner and the length of a queue of any size.

### Only model-checked

Liveness (`HoldCompletes`, `HaltHolds`, `ResumeEndsSuspend`, `PlannerEmpties`,
`LineAnswered`, `ParserFrees`, `AnswerComes`, `DoorRetracts`): it rests on fairness, which is
out of the prover's reach. Every other property of a passing run is a theorem, some under
the hypotheses above.

## 6. Not modelled, and why

- *Floating point* (speeds, ramps, arcs, number parsing): out of TLC's reach;
  replaced by a choice where control depends on it.
- *Parking* is not compiled in; *homing, probing, limit pins, coolant outputs* are stubs in this port.
  What the stubs do to the state is modelled.
- *The interrupt's arithmetic* (Bresenham, AMASS), *time slicing*, `st_reset`
  against the interrupt, *axis positions of the plugin*: planned, section 2.
- *Characters of a word, error codes, report wording, number formatting, debug
  output*: no property is about them.
- *Checksums*: nothing but this program writes the simulated EEPROM, so a damaged
  record cannot occur.
- *Numbered parameters of the axes* other than `max_travel`: they only scale.
- *ecmc and EPICS*: external; their status is a choice, their calls have no
  effect on the state kept here.
