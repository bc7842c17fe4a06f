----------------------------- MODULE GrblRealtime -----------------------------
(***************************************************************************)
(* The realtime command executor of grbl (grbl/grbl_protocol.c): the state *)
(* machine protocol_exec_rt_system, the places in the main program that    *)
(* call it, and the flag word sys_rt_exec_state through which three        *)
(* threads talk to it:                                                     *)
(*   - "main" runs the parser, the planner and the executor itself;        *)
(*   - "rt", the ecmc realtime thread, runs the step interrupt and the PLC *)
(*     functions grbl_mc_halt and grbl_mc_resume;                          *)
(*   - "writer", the command writer, sends one line at a time and, when    *)
(*     the reply is an error, resets grbl (setReset, mc_reset) and ends.   *)
(*                                                                         *)
(* Planner blocks and step segments are counted here; GrblStepper is the   *)
(* model of what happens to them.                                          *)
(***************************************************************************)
EXTENDS Naturals

CONSTANTS
  SplitThreads,    (* threads whose |= and &=~ on the flag word are a load and
                      a store, as compiled; the others' updates are atomic, as
                      the cli() in system_set_exec_state_flag, now commented
                      out, made them                                       *)
  BlockSlots,      (* blocks the planner holds, BLOCK_BUFFER_SIZE - 1      *)
  SegmentSlots,    (* segments st_prep_buffer fills, SEGMENT_BUFFER_SIZE-1 *)
  LineKinds,       (* what the parsed lines do                             *)
  MaxInputs        (* bound: lines, and calls of grbl_mc_halt and
                      grbl_mc_resume, in a behaviour                       *)

ASSUME RealtimeAssumption ==
  /\ SplitThreads \subseteq {"main", "rt", "writer"}
  /\ BlockSlots \in Nat /\ BlockSlots >= 1
  /\ SegmentSlots \in Nat /\ SegmentSlots >= 2
  /\ LineKinds \subseteq {"motion", "sync", "pause", "bad"}
  /\ MaxInputs \in Nat

Threads == {"main", "rt", "writer"}
Flags == {"CYCLE_START", "CYCLE_STOP", "FEED_HOLD", "RESET"}
NoLoad == {"none"}                    \* thread not inside an update of the flag word

VARIABLES
  flags,        (* sys_rt_exec_state                                       *)
  loaded,       (* flag word a thread has loaded and not yet stored back   *)
  alarm,        (* sys_rt_exec_alarm = EXEC_ALARM_ABORT_CYCLE              *)
  state,        (* sys.state                                               *)
  holding,      (* STEP_CONTROL_EXECUTE_HOLD                               *)
  endMotion,    (* STEP_CONTROL_END_MOTION                                 *)
  holdComplete, (* SUSPEND_HOLD_COMPLETE                                   *)
  abort,        (* sys.abort                                               *)
  blocks,       (* blocks in the planner                                   *)
  segs,         (* segments not yet executed                               *)
  on,           (* stepperInterruptEnable                                  *)
  pc,           (* main thread                                             *)
  caller,       (* why the main thread is in the executor                  *)
  snap,         (* rt_exec, the copy of the flag word it works on          *)
  pcR, pcW,     (* realtime thread, writer thread                          *)
  initDone,     (* grblInitDone_: grblRTexecute runs the interrupt         *)
  inputs,       (* lines parsed and PLC calls so far                       *)
  asked,        (* history: resume called since a cycle start was consumed *)
  lost,         (* history: flags that stale stores have taken out         *)
  back          (* history: cycle flags that stale stores have brought back*)

machineVars == <<state, holding, endMotion, holdComplete, abort>>
motionVars == <<blocks, segs, on>>
mainVars == <<pc, caller, snap>>
hostVars == <<initDone, inputs>>
histVars == <<asked, lost, back>>
vars == <<flags, loaded, alarm, machineVars, motionVars, mainVars, pcR, pcW, hostVars, histVars>>

Init ==
  /\ flags = {} /\ loaded = [t \in Threads |-> NoLoad] /\ alarm = FALSE
  /\ state = "IDLE" /\ holding = FALSE /\ endMotion = FALSE /\ holdComplete = FALSE
  /\ abort = FALSE
  /\ blocks = 0 /\ segs = 0 /\ on = FALSE
  /\ pc = "loop" /\ caller = "idle" /\ snap = {}
  /\ pcR = "idle" /\ pcW = "idle"
  /\ initDone = TRUE
  /\ inputs = 0
  /\ asked = FALSE /\ lost = {} /\ back = {}

-------------------------------------------------------------------------------
(* A store of a word loaded earlier undoes what other threads did to it in   *)
(* between: it takes out the flags they set and brings back those they       *)
(* cleared.  (A hold or a reset that comes back stops the machine once more, *)
(* which no property minds.)                                                 *)
Stale(t, mask) ==
  /\ lost' = (lost \cup (flags \ loaded[t])) \ mask
  /\ back' = back \cup (((loaded[t] \ flags) \cap {"CYCLE_START", "CYCLE_STOP"}) \ mask)

(* system_set_exec_state_flag and system_clear_exec_state_flag.  A thread of *)
(* SplitThreads first loads the word (LoadFlags below).                      *)
SetFlags(t, mask) ==
  IF t \in SplitThreads
    THEN /\ loaded[t] # NoLoad
         /\ flags' = loaded[t] \cup mask
         /\ loaded' = [loaded EXCEPT ![t] = NoLoad]
         /\ Stale(t, mask)
    ELSE flags' = flags \cup mask /\ UNCHANGED <<loaded, lost, back>>

(* Mutant: the whole word is cleared.                                       *)
ClearAllFlags(t, mask) ==
  /\ flags' = {}
  /\ loaded' = [loaded EXCEPT ![t] = NoLoad]
  /\ UNCHANGED <<lost, back>>

ClearFlags(t, mask) ==
  IF t \in SplitThreads
    THEN /\ loaded[t] # NoLoad
         /\ flags' = loaded[t] \ mask
         /\ loaded' = [loaded EXCEPT ![t] = NoLoad]
         /\ Stale(t, mask)
    ELSE flags' = flags \ mask /\ UNCHANGED <<loaded, lost, back>>

(* Where a thread is about to update the flag word.                         *)
Updating(t) ==
  CASE t = "main"   -> pc \in {"holdClear", "startClear", "stopClear", "pause"} \/ (pc = "auto" /\ blocks > 0)
    [] t = "rt"     -> pcR # "idle"
    [] t = "writer" -> pcW = "reset"

LoadFlags(t) ==
  /\ t \in SplitThreads
  /\ Updating(t)
  /\ loaded[t] = NoLoad
  /\ loaded' = [loaded EXCEPT ![t] = flags]
  /\ UNCHANGED <<flags, alarm, machineVars, motionVars, mainVars, pcR, pcW, hostVars, histVars>>

-------------------------------------------------------------------------------
(* Main thread: the main loop and the functions that wait in it.            *)

Enter(from, at) == caller' = from /\ pc' = at

(* An end of line reached: runtime command check point.  The writer sends   *)
(* the next line only after the reply to the last one, and none after an    *)
(* error.                                                                   *)
ReadLine(kind) ==
  /\ pc = "loop"
  /\ pcW = "idle"
  /\ inputs < MaxInputs
  /\ inputs' = inputs + 1
  /\ Enter(kind, "alarm")
  /\ UNCHANGED <<flags, loaded, alarm, machineVars, motionVars, snap, pcR, pcW,
                 initDone, histVars>>

(* Mutant: no auto-start.                                                   *)
NoLineNoStart ==
  /\ pc = "loop"
  /\ Enter("idle", "alarm")
  /\ UNCHANGED <<flags, loaded, alarm, machineVars, motionVars, snap, pcR, pcW,
                 hostVars, histVars>>

(* No more characters: auto-start queued moves, then the check point.       *)
NoLine ==
  /\ pc = "loop"
  /\ Enter("idle", "auto")
  /\ UNCHANGED <<flags, loaded, alarm, machineVars, motionVars, snap, pcR, pcW,
                 hostVars, histVars>>

(* protocol_auto_cycle_start, always followed by protocol_execute_realtime. *)
AutoCycleStart ==
  /\ pc = "auto"
  /\ pc' = "alarm"
  /\ IF blocks > 0 THEN SetFlags("main", {"CYCLE_START"}) ELSE UNCHANGED <<flags, loaded, lost, back>>
  /\ UNCHANGED <<alarm, machineVars, motionVars, caller, snap, pcR, pcW, hostVars, asked>>

(* A program pause (M0) requests a feed hold itself.                        *)
ProgramPause ==
  /\ pc = "pause"
  /\ SetFlags("main", {"FEED_HOLD"})
  /\ Enter("paused", "alarm")
  /\ UNCHANGED <<alarm, machineVars, motionVars, snap, pcR, pcW, hostVars, asked>>

(* protocol_execute_realtime: as long as the system is suspended            *)
(* protocol_exec_rt_suspend runs the executor again ...                     *)
Suspended ==
  /\ pc = "return"
  /\ holdComplete /\ ~abort
  /\ pc' = "alarm"
  /\ UNCHANGED <<flags, loaded, alarm, machineVars, motionVars, caller, snap, pcR, pcW,
                 hostVars, histVars>>

(* Mutant: it returns although suspended.                                   *)
ReturnedSuspended(callers) == pc = "return" /\ caller \in callers

(* ... and then it returns to its caller.                                   *)
ReturnedTo(callers) == pc = "return" /\ caller \in callers /\ (~holdComplete \/ abort)

(* protocol_main_loop: bail out on an abort, or go round again.             *)
MainLoop ==
  /\ \/ ReturnedTo({"idle"} \cup LineKinds) /\ abort /\ pc' = "reinit" /\ UNCHANGED caller
     \/ ReturnedTo({"idle"}) /\ ~abort /\ Enter("idle", "loop")
     \/ ReturnedTo({"paused"}) /\ Enter("idle", "loop")
  /\ UNCHANGED <<flags, loaded, alarm, machineVars, motionVars, snap, pcR, pcW, hostVars, histVars>>

(* Dispatch of the line: g-code is refused when there is an alarm.          *)
ParseLine ==
  /\ ReturnedTo(LineKinds) /\ ~abort
  /\ LET refused == caller = "bad" \/ state = "ALARM"
     IN /\ pcW' = IF refused THEN "error" ELSE pcW
        /\ \/ refused /\ Enter("idle", "loop")
           \/ ~refused /\ caller = "motion" /\ Enter("mc_line", "alarm")
           \/ ~refused /\ caller = "sync"   /\ Enter("synchronize", "auto")
           \/ ~refused /\ caller = "pause"  /\ Enter("synchronizePause", "auto")
  /\ UNCHANGED <<flags, loaded, alarm, machineVars, motionVars, snap, pcR, hostVars, histVars>>

(* mc_line: wait for room in the planner, auto-starting the cycle; queue.   *)
McLine ==
  /\ ReturnedTo({"mc_line"})
  /\ IF ~abort /\ blocks = BlockSlots
       THEN pc' = "auto" /\ UNCHANGED <<caller, blocks>>
       ELSE Enter("idle", "loop") /\ blocks' = IF abort THEN blocks ELSE blocks + 1
  /\ UNCHANGED <<flags, loaded, alarm, machineVars, segs, on, snap, pcR, pcW, hostVars, histVars>>

(* protocol_buffer_synchronize: the auto-start is not repeated in the loop. *)
Synchronize ==
  /\ ReturnedTo({"synchronize", "synchronizePause"})
  /\ IF ~abort /\ (blocks > 0 \/ state = "CYCLE")
       THEN pc' = "alarm" /\ UNCHANGED caller
       ELSE \/ caller = "synchronize" /\ Enter("idle", "loop")
            \/ caller = "synchronizePause" /\ Enter("paused", "pause")
  /\ UNCHANGED <<flags, loaded, alarm, machineVars, motionVars, snap, pcR, pcW, hostVars, histVars>>

(* doMainWorker after an abort: clear the system variables, then the        *)
(* planner and the stepper, then enter protocol_main_loop.                  *)
ClearSystem ==
  /\ pc = "reinit"
  /\ holding' = FALSE /\ endMotion' = FALSE /\ holdComplete' = FALSE /\ abort' = FALSE
  /\ flags' = {} /\ alarm' = FALSE /\ asked' = FALSE
  /\ lost' = {} /\ back' = {}
  /\ pc' = "plan_reset"
  /\ UNCHANGED <<loaded, state, motionVars, caller, snap, pcR, pcW, hostVars>>

(* Mutant: no st_reset.                                                     *)
ClearPlanner ==
  /\ pc = "plan_reset"
  /\ blocks' = 0
  /\ pc' = "boot"
  /\ UNCHANGED <<flags, loaded, alarm, machineVars, segs, on, caller, snap, pcR, pcW, hostVars,
                 histVars>>

ClearMotion ==
  /\ pc = "plan_reset"
  /\ blocks' = 0 /\ segs' = 0 /\ on' = FALSE
  /\ pc' = "boot"
  /\ UNCHANGED <<flags, loaded, alarm, machineVars, caller, snap, pcR, pcW, hostVars, histVars>>

Boot ==
  /\ pc = "boot"
  /\ initDone' = TRUE
  /\ state' = IF state = "ALARM" THEN "ALARM" ELSE "IDLE"
  /\ Enter("idle", "loop")
  /\ UNCHANGED <<flags, loaded, alarm, holding, endMotion, holdComplete, abort, motionVars, snap,
                 pcR, pcW, inputs, histVars>>

-------------------------------------------------------------------------------
(* Main thread: protocol_exec_rt_system, in the order of the code.          *)

ExecAlarm ==
  /\ pc = "alarm"
  /\ state' = IF alarm THEN "ALARM" ELSE state
  /\ alarm' = FALSE
  /\ pc' = "snapshot"
  /\ UNCHANGED <<flags, loaded, holding, endMotion, holdComplete, abort, motionVars, caller, snap,
                 pcR, pcW, hostVars, histVars>>

(* The handlers come in a fixed order, each if its flag was in the copy.     *)
FromStop(word)  == IF "CYCLE_STOP" \in word THEN "stop" ELSE "prep"
FromStart(word) == IF "CYCLE_START" \in word THEN "start" ELSE FromStop(word)
FromHold(word)  == IF "FEED_HOLD" \in word THEN "hold" ELSE FromStart(word)

(* rt_exec is copied once; a reset bails out at once.                       *)
ExecSnapshot ==
  /\ pc = "snapshot"
  /\ \/ "RESET" \in flags /\ abort' = TRUE /\ pc' = "return" /\ UNCHANGED snap
     \/ "RESET" \notin flags /\ snap' = flags /\ pc' = FromHold(flags) /\ UNCHANGED abort
  /\ UNCHANGED <<flags, loaded, alarm, state, holding, endMotion, holdComplete, motionVars, caller,
                 pcR, pcW, hostVars, histVars>>

ExecHold ==
  /\ pc = "hold"
  /\ state' = IF state = "ALARM" THEN state ELSE "HOLD"
  /\ holding' = (holding \/ state = "CYCLE")
  /\ endMotion' = (endMotion /\ state # "CYCLE")
  /\ holdComplete' = (holdComplete \/ state = "IDLE")
  /\ pc' = "holdClear"
  /\ UNCHANGED <<flags, loaded, alarm, abort, motionVars, caller, snap, pcR, pcW, hostVars, histVars>>

(* Start or resume, unless a hold was flagged at the same time.             *)
ExecStart ==
  /\ pc = "start"
  /\ IF "FEED_HOLD" \notin snap /\ (state = "IDLE" \/ (state = "HOLD" /\ holdComplete))
       THEN /\ holding' = FALSE /\ endMotion' = FALSE /\ holdComplete' = FALSE
            /\ IF blocks > 0 THEN state' = "CYCLE" /\ pc' = "wake"
                             ELSE state' = "IDLE" /\ pc' = "startClear"
       ELSE pc' = "startClear" /\ UNCHANGED <<state, holding, endMotion, holdComplete>>
  /\ back' = back \ {"CYCLE_START"}
  /\ UNCHANGED <<flags, loaded, alarm, abort, motionVars, caller, snap, pcR, pcW, hostVars, asked,
                 lost>>

(* st_prep_buffer: fill the segment ring from the planner; when holding, it *)
(* may stop within a block (END_MOTION).                                    *)
PrepBuffer ==
  IF endMotion
    THEN UNCHANGED <<blocks, segs, endMotion>>
    ELSE \E discarded \in 0..blocks, cut \in 0..SegmentSlots :
           /\ segs + cut <= SegmentSlots
           /\ IF blocks = 0 THEN cut = 0 ELSE cut >= discarded
           /\ blocks' = blocks - discarded
           /\ segs' = segs + cut
           /\ \/ (blocks' = 0 \/ segs' = SegmentSlots) /\ UNCHANGED endMotion
              \/ holding /\ blocks' > 0 /\ endMotion' = TRUE

(* st_prep_buffer, then st_wake_up.                                         *)
ExecWake ==
  /\ pc = "wake"
  /\ PrepBuffer
  /\ on' = TRUE
  /\ pc' = "startClear"
  /\ UNCHANGED <<flags, loaded, alarm, state, holding, holdComplete, abort, caller, snap, pcR, pcW,
                 hostVars, histVars>>

ExecStop ==
  /\ pc = "stop"
  /\ IF state = "HOLD"
       THEN /\ holdComplete' = (holdComplete \/ holding)
            /\ holding' = FALSE
            /\ UNCHANGED state
       ELSE /\ state' = "IDLE" /\ holdComplete' = FALSE
            /\ UNCHANGED holding
  /\ pc' = "stopClear"
  /\ UNCHANGED <<flags, loaded, alarm, endMotion, abort, motionVars, caller, snap, pcR, pcW,
                 hostVars, histVars>>

(* Each handler ends by clearing its flag in the word.                      *)
ExecClear ==
  /\ \/ pc = "holdClear"  /\ ClearFlags("main", {"FEED_HOLD"})   /\ pc' = FromStart(snap) /\ UNCHANGED asked
     \/ pc = "startClear" /\ ClearFlags("main", {"CYCLE_START"}) /\ pc' = FromStop(snap) /\ asked' = FALSE
     \/ pc = "stopClear"  /\ ClearFlags("main", {"CYCLE_STOP"})  /\ pc' = "prep" /\ UNCHANGED asked
  /\ UNCHANGED <<alarm, machineVars, motionVars, caller, snap, pcR, pcW, hostVars>>

ExecPrep ==
  /\ pc = "prep"
  /\ IF state \in {"CYCLE", "HOLD"} THEN PrepBuffer ELSE UNCHANGED <<blocks, segs, endMotion>>
  /\ pc' = "return" /\ snap' = {}
  /\ UNCHANGED <<flags, loaded, alarm, state, holding, holdComplete, abort, on, caller, pcR,
                  pcW, hostVars, histVars>>

-------------------------------------------------------------------------------
(* Realtime thread: the step interrupt and the PLC functions.               *)

IsrSegment ==
  /\ pcR = "idle" /\ initDone /\ on /\ segs > 0
  /\ segs' = segs - 1
  /\ UNCHANGED <<flags, loaded, alarm, machineVars, blocks, on, mainVars, pcR, pcW, hostVars, histVars>>

(* Mutant: the interrupt is left on.                                        *)
IsrEmptyStaysOn ==
  /\ pcR = "idle" /\ initDone /\ on /\ segs = 0
  /\ pcR' = "stop"
  /\ UNCHANGED <<flags, loaded, alarm, machineVars, motionVars, mainVars, pcW, hostVars, histVars>>

(* Nothing to execute: st_go_idle, then the flag.                           *)
IsrEmpty ==
  /\ pcR = "idle" /\ initDone /\ on /\ segs = 0
  /\ on' = FALSE
  /\ pcR' = "stop"
  /\ UNCHANGED <<flags, loaded, alarm, machineVars, blocks, segs, mainVars, pcW, hostVars, histVars>>

(* A positive edge of grbl_mc_halt or grbl_mc_resume.                       *)
PlcCall ==
  /\ pcR = "idle"
  /\ inputs < MaxInputs
  /\ inputs' = inputs + 1
  /\ pcR' \in {"halt", "resume"}
  /\ UNCHANGED <<flags, loaded, alarm, machineVars, motionVars, mainVars, pcW, initDone, histVars>>

RtSetFlag ==
  /\ \/ pcR = "stop"   /\ SetFlags("rt", {"CYCLE_STOP"})  /\ UNCHANGED asked
     \/ pcR = "halt"   /\ SetFlags("rt", {"FEED_HOLD"})   /\ UNCHANGED asked
     \/ pcR = "resume" /\ SetFlags("rt", {"CYCLE_START"}) /\ asked' = TRUE
  /\ pcR' = "idle"
  /\ UNCHANGED <<alarm, machineVars, motionVars, mainVars, pcW, hostVars>>

-------------------------------------------------------------------------------
(* Writer thread: an error reply was read (WriteGCodeSuccess).              *)

(* setReset(0), and into mc_reset from setReset(1).                         *)
SetReset ==
  /\ pcW = "error"
  /\ initDone' = FALSE
  /\ pcW' = IF "RESET" \in flags THEN "last" ELSE "reset"
  /\ UNCHANGED <<flags, loaded, alarm, machineVars, motionVars, mainVars, pcR, inputs, histVars>>

McResetFlag ==
  /\ pcW = "reset"
  /\ SetFlags("writer", {"RESET"})
  /\ pcW' = "test"
  /\ UNCHANGED <<alarm, machineVars, motionVars, mainVars, pcR, hostVars, asked>>

(* Set the alarm, and kill the steppers, only if in motion.                 *)
McResetTest ==
  /\ pcW = "test"
  /\ IF state = "CYCLE" \/ holding
       THEN alarm' = TRUE /\ pcW' = "kill"
       ELSE pcW' = "last" /\ UNCHANGED alarm
  /\ UNCHANGED <<flags, loaded, machineVars, motionVars, mainVars, pcR, hostVars, histVars>>

(* st_go_idle                                                               *)
McResetKill ==
  /\ pcW = "kill"
  /\ on' = FALSE
  /\ pcW' = "last"
  /\ UNCHANGED <<flags, loaded, alarm, machineVars, blocks, segs, mainVars, pcR, hostVars, histVars>>

(* The rest of setReset(1), setReset(0), and the end of the thread.         *)
EndWriter ==
  /\ pcW = "last"
  /\ initDone' = FALSE
  /\ pcW' = "dead"
  /\ UNCHANGED <<flags, loaded, alarm, machineVars, motionVars, mainVars, pcR, inputs, histVars>>

-------------------------------------------------------------------------------
Executor == ExecAlarm \/ ExecSnapshot \/ ExecHold \/ ExecStart \/ ExecWake \/ ExecStop \/ ExecClear \/ ExecPrep

Main ==
  \/ NoLine \/ AutoCycleStart \/ ProgramPause \/ Suspended \/ MainLoop \/ ParseLine \/ McLine
  \/ Synchronize \/ ClearSystem \/ ClearMotion \/ Boot \/ Executor

Realtime == IsrSegment \/ IsrEmpty \/ RtSetFlag

Writer == SetReset \/ McResetFlag \/ McResetTest \/ McResetKill \/ EndWriter

Next ==
  \/ Main \/ Realtime \/ Writer
  \/ (\E kind \in LineKinds : ReadLine(kind)) \/ PlcCall
  \/ (\E t \in Threads : LoadFlags(t))

Spec == Init /\ [][Next]_vars

(* The three threads keep running; lines and PLC calls need not come.  A    *)
(* block is cut into finitely many segments, so preparing its segments over *)
(* and over comes to its end.                                               *)
Fairness ==
  /\ WF_vars(Main \/ LoadFlags("main"))
  /\ WF_vars(Realtime \/ LoadFlags("rt"))
  /\ WF_vars(Writer \/ LoadFlags("writer"))
  /\ SF_vars((ExecPrep \/ ExecWake) /\ blocks' < blocks)

FairSpec == Spec /\ Fairness

-------------------------------------------------------------------------------
SwitchesTypeOK ==
  /\ alarm \in BOOLEAN /\ holding \in BOOLEAN /\ endMotion \in BOOLEAN /\ holdComplete \in BOOLEAN
  /\ abort \in BOOLEAN /\ on \in BOOLEAN /\ initDone \in BOOLEAN /\ asked \in BOOLEAN

ThreadsTypeOK ==
  /\ flags \subseteq Flags /\ lost \subseteq Flags /\ back \subseteq Flags
  /\ loaded \in [Threads -> {NoLoad} \cup SUBSET Flags]
  /\ state \in {"IDLE", "CYCLE", "HOLD", "ALARM"}
  /\ blocks \in 0..BlockSlots /\ segs \in 0..SegmentSlots
  /\ pc \in {"loop", "auto", "pause", "alarm", "snapshot", "hold", "holdClear", "start", "wake",
             "startClear", "stop", "stopClear", "prep", "return", "reinit", "plan_reset", "boot"}
  /\ caller \in {"idle", "mc_line", "synchronize", "synchronizePause", "paused"} \cup LineKinds
  /\ snap \subseteq Flags
  /\ pcR \in {"idle", "stop", "halt", "resume"}
  /\ pcW \in {"idle", "error", "reset", "test", "kill", "last", "dead"}
  /\ inputs \in 0..MaxInputs

TypeOK == SwitchesTypeOK /\ ThreadsTypeOK

(* Nothing but a resume starts a block that is still queued in a synchronize *)
(* which has seen the executor return in IDLE: the auto-start is not         *)
(* repeated there.                                                           *)
Stranded ==
  /\ pc = "return" /\ caller \in {"synchronize", "synchronizePause"}
  /\ state = "IDLE" /\ "CYCLE_START" \notin flags

(* A comment in protocol_exec_rt_system wants that auto-cycle-start does not *)
(* resume a hold without an explicit user input: a hold goes back to CYCLE   *)
(* only on a cycle start that grbl_mc_resume asked for.  As compiled there   *)
(* is one exception: a cycle start obeyed before, which a store of a word    *)
(* loaded earlier has brought back into the flag word.                       *)
HoldNeedsUser == [][state = "HOLD" /\ state' = "CYCLE" => asked \/ "CYCLE_START" \in back]_vars

(* A reported hold, and IDLE seen by the main loop, mean that the interrupt  *)
(* is off; and so does ALARM once the reset that led to it is through.  As   *)
(* compiled this takes that no stale store has taken out the reset or        *)
(* brought back a cycle stop.                                                *)
StoppedMeansOff ==
  "RESET" \notin lost /\ "CYCLE_STOP" \notin back =>
    /\ holdComplete => ~on
    /\ state = "IDLE" /\ pc = "loop" => ~on
    /\ state = "ALARM" /\ pcW = "dead" /\ pc = "loop" => ~on

(* A feed hold that was requested leads to the hold whatever the main thread *)
(* is doing, unless an error of the program resets grbl or a stale store     *)
(* takes the request out of the flag word.                                   *)
HaltHolds == pcR = "halt" ~> (state = "HOLD" \/ pcW # "idle" \/ "FEED_HOLD" \in lost)

(* README: grbl_mc_halt halts the motion.                                    *)
HaltObeyed == pcR = "halt" ~> state = "HOLD"

(* README: grbl_mc_resume resumes halted motion.  A resume requested while   *)
(* a hold is reported complete ends the hold, unless a halt comes with it or *)
(* a stale store takes it out, and the executor is not just working on a     *)
(* cycle start it copied before (it clears both of them): the main thread    *)
(* waiting in protocol_exec_rt_suspend hears it.                             *)
ResumeEndsSuspend ==
  (pcR = "resume" /\ holdComplete /\ "CYCLE_START" \notin snap) ~>
    (~holdComplete \/ "FEED_HOLD" \in flags \/ "CYCLE_START" \in lost)

(* Queued motion is started without being asked for and handed to the        *)
(* interrupt, whatever cycle stops come between, until a user must act: in a *)
(* hold, after an error, or stranded in a synchronize.  A stale store that   *)
(* keeps a cycle stop from the main thread can leave it waiting too.         *)
PlannerEmpties ==
  blocks > 0 ~> (blocks = 0 \/ state = "HOLD" \/ Stranded \/ pcW # "idle" \/ "CYCLE_STOP" \in lost)
===============================================================================
