---------------------------- MODULE GrblSuspend ----------------------------
(***************************************************************************)
(* Suspending and resuming with a spindle: protocol_exec_rt_system,        *)
(* protocol_exec_rt_suspend (feed hold, safety door, sleep, spindle stop   *)
(* override), the accessory override byte and spindle_control.c, against   *)
(* the step interrupt and requests at any time.                            *)
(*                                                                         *)
(* A pass of the executor is one step: how the flag words are torn between *)
(* threads is the subject of GrblRealtime.  Coolant outputs are stubs in   *)
(* this port and parking is not compiled in.  The plugin commands the      *)
(* spindle axis with sys.spindle_speed in every realtime cycle.            *)
(***************************************************************************)
EXTENDS Integers, Sequences

CONSTANTS BlockSlots,     \* planner blocks
          SegmentSlots,   \* segments the interrupt may be behind
          LaserModes,     \* values of the laser mode setting
          Rpms,           \* programmed spindle speeds
          RpmMin, RpmMax,
          MinOverride, MaxOverride, Coarse, Fine, Default,
          ByteRange,      \* 256
          Requests,       \* what may arrive from outside
          MaxRequests, MaxLines

OverrideBits == {"Reset", "CoarsePlus", "CoarseMinus", "FinePlus", "FineMinus", "Stop"}

ASSUME SuspendAssumption ==
  /\ {BlockSlots, SegmentSlots} \subseteq Nat \ {0}
  /\ LaserModes \subseteq BOOLEAN /\ Rpms \subseteq Nat \ {0}
  /\ {RpmMin, RpmMax, MinOverride, MaxOverride, Coarse, Fine, Default, ByteRange} \subseteq Nat
  /\ RpmMin < RpmMax /\ 0 < MinOverride /\ MinOverride <= Default /\ Default <= MaxOverride
  /\ MaxOverride + Coarse + Fine < ByteRange /\ Coarse <= MinOverride
  /\ Requests \subseteq {"FeedHold", "CycleStart", "SafetyDoor", "Abort"} \cup OverrideBits

VARIABLES
  sys,        \* state, suspend, stepControl, spindleStop, speed, override
  motion,     \* planner queue, pl_block, segments, interrupt switched on
  flags,      \* sys_rt_exec_state and sys_rt_exec_alarm
  accessory,  \* sys_rt_exec_accessory_override
  modal,      \* gc_state.modal.spindle and gc_state.spindle_speed
  laser,      \* settings: BITFLAG_LASER_MODE
  pc,         \* where the main thread is
  cmd,        \* the line it executes
  restore,    \* restore_condition and restore_spindle_speed
  asked,      \* history: a resume was requested since the last stop
  lines, requests

vars == <<sys, motion, flags, accessory, modal, laser, pc, cmd, restore, asked, lines, requests>>

Spindle == [on : BOOLEAN, rpm : Rpms \cup {0}]
NoCmd == [kind |-> "none", rpm |-> 0]

-----------------------------------------------------------------------------
(* spindle_control.c *)

Clamp(v, lo, hi) == IF v < lo THEN lo ELSE IF v > hi THEN hi ELSE v

\* spindle_compute_pwm_value leaves the speed in sys.spindle_speed.
Scaled(rpm, ovr) == IF rpm = 0 THEN 0 ELSE Clamp(rpm * ovr, RpmMin * Default, RpmMax * Default)

\* spindle_set_state outside of an abort.
SpindleSet(s, on, rpm) == [s EXCEPT !.speed = IF on THEN Scaled(rpm, s.override) ELSE 0]

-----------------------------------------------------------------------------
(* st_prep_buffer.  In a hold the machine comes to rest after cut more     *)
(* segments.                                                               *)

\* A block that is taken up or recomputed, or a changed override, updates the
\* spindle with the next segment.
Updated(s, m) ==
  IF m.loaded /\ "UpdatePwm" \notin s.stepControl THEN s
  ELSE [SpindleSet(s, Head(m.queue).on, Head(m.queue).rpm)
          EXCEPT !.stepControl = @ \ {"UpdatePwm"}]

\* One segment.
PrepOne(s, m) ==
  LET b == Head(m.queue)
      last == b.left = 1
  IN [s |-> Updated(s, m),
      m |-> [m EXCEPT !.segs = @ + 1,
                      !.loaded = ~last,
                      !.queue = IF last THEN Tail(@) ELSE [@ EXCEPT ![1] = [b EXCEPT !.left = @ - 1]]]]

\* Nothing more to prepare.
Full(s, m) == m.queue = <<>> \/ m.segs = SegmentSlots \/ "EndMotion" \in s.stepControl

\* Round i of the loop, which goes on while there is room for a segment.
Fill(c, i, cut) ==
  IF Full(c.s, c.m) THEN c
  ELSE IF "Hold" \in c.s.stepControl /\ i > cut
       THEN [s |-> [Updated(c.s, c.m) EXCEPT !.stepControl = @ \cup {"EndMotion"}],
             m |-> [c.m EXCEPT !.loaded = TRUE]]
  ELSE PrepOne(c.s, c.m)

Prep(s, m, cut) ==
  LET filled[i \in 0 .. SegmentSlots + 1] ==
        IF i = 0 THEN [s |-> s, m |-> m] ELSE Fill(filled[i - 1], i, cut)
  IN filled[SegmentSlots + 1]

\* st_update_plan_block_parameters
Recompute(m) == [m EXCEPT !.loaded = FALSE]

-----------------------------------------------------------------------------
(* protocol_exec_rt_system, section by section.  f is the copy of the flag  *)
(* word.                                                                    *)

(* Mutant: a door that opens again does not take the restore back, and an   *)
(* alarm that goes to sleep is not suspended.                               *)
HoldSectionForgets(s, m, f) ==
  LET stop == f \cap {"FeedHold", "SafetyDoor", "Sleep"} # {} /\ s.state # "ALARM"
      moving == stop /\ s.state = "CYCLE"
  IN [s |-> [s EXCEPT !.stepControl = IF moving THEN {"Hold"} ELSE @,
                      !.suspend = (IF stop /\ s.state = "IDLE" THEN {"HoldComplete"} ELSE @)
                                  \cup (IF stop /\ "SafetyDoor" \in f THEN {"DoorAjar"} ELSE {}),
                      !.state = IF "Sleep" \in f THEN "SLEEP"
                                ELSE IF stop /\ "SafetyDoor" \in f /\ @ # "SLEEP" THEN "DOOR"
                                ELSE IF stop /\ "FeedHold" \in f /\ @ \notin {"DOOR", "SLEEP"} THEN "HOLD"
                                ELSE @],
      m |-> IF moving THEN Recompute(m) ELSE m]

\* Feed hold, safety door and sleep.
HoldSection(s, m, f) ==
  LET stop == f \cap {"FeedHold", "SafetyDoor", "Sleep"} # {} /\ s.state # "ALARM"
      moving == stop /\ s.state = "CYCLE"
      s1 == [s EXCEPT !.stepControl = IF moving THEN {"Hold"} ELSE @,
                      !.suspend = IF stop /\ s.state = "IDLE" THEN {"HoldComplete"} ELSE @]
      s2 == IF stop /\ "FeedHold" \in f /\ s1.state \notin {"DOOR", "SLEEP"}
            THEN [s1 EXCEPT !.state = "HOLD"] ELSE s1
      reopened == s2.state = "DOOR" /\ "InitiateRestore" \in s2.suspend
      s3 == IF stop /\ "SafetyDoor" \in f
            THEN [s2 EXCEPT !.suspend =
                      (IF reopened
                       THEN (@ \ {"RetractComplete", "InitiateRestore", "RestoreComplete"})
                              \cup {"RestartRetract"}
                       ELSE @) \cup {"DoorAjar"},
                    !.state = IF @ = "SLEEP" THEN @ ELSE "DOOR"]
            ELSE s2
      s4 == IF "Sleep" \in f
            THEN [s3 EXCEPT !.suspend = IF s3.state = "ALARM"
                                        THEN @ \cup {"RetractComplete", "HoldComplete"} ELSE @,
                            !.state = "SLEEP"]
            ELSE s3
  IN [s |-> s4, m |-> IF moving THEN Recompute(m) ELSE m]

(* Mutant: a cycle start in a hold does not wait for the stopped spindle. *)
StartSectionStopped(s, m, f, cut) ==
  LET ready == "CycleStart" \in f /\ f \cap {"FeedHold", "SafetyDoor"} = {}
               /\ (s.state = "IDLE" \/ (s.state = "HOLD" /\ "HoldComplete" \in s.suspend))
      c == Prep([s EXCEPT !.stepControl = {}, !.suspend = {}, !.state = "CYCLE"], m, cut)
  IN IF ready /\ m.queue # <<>> THEN [c EXCEPT !.m.on = TRUE] ELSE [s |-> s, m |-> m]

\* Cycle start.
StartSection(s, m, f, cut) ==
  IF "CycleStart" \notin f \/ f \cap {"FeedHold", "SafetyDoor"} # {} THEN [s |-> s, m |-> m]
  ELSE LET closed == s.state = "DOOR" /\ "DoorAjar" \notin s.suspend
           s1 == IF closed /\ "RestoreComplete" \in s.suspend THEN [s EXCEPT !.state = "IDLE"]
                 ELSE IF closed /\ "RetractComplete" \in s.suspend
                      THEN [s EXCEPT !.suspend = @ \cup {"InitiateRestore"}]
                 ELSE s
           ready == s1.state = "IDLE" \/ (s1.state = "HOLD" /\ "HoldComplete" \in s1.suspend)
           s2 == [s1 EXCEPT !.stepControl = {}, !.suspend = {}]
       IN IF ready /\ s1.state = "HOLD" /\ s1.spindleStop # {}
            THEN [s |-> [s1 EXCEPT !.spindleStop = @ \cup {"RestoreCycle"}], m |-> m]
          ELSE IF ready /\ m.queue # <<>>
            THEN LET c == Prep([s2 EXCEPT !.state = "CYCLE"], m, cut)
                 IN [c EXCEPT !.m.on = TRUE]
          ELSE IF ready THEN [s |-> [s2 EXCEPT !.state = "IDLE"], m |-> m]
          ELSE [s |-> s1, m |-> m]

(* Mutant: the hold flag is cleared before it is read. *)
StopSectionLate(s, m, f) ==
  IF "CycleStop" \notin f THEN [s |-> s, m |-> m]
  ELSE IF s.state \in {"HOLD", "DOOR", "SLEEP"}
    THEN [s |-> [s EXCEPT !.stepControl = @ \ {"Hold"}], m |-> Recompute(m)]
  ELSE [s |-> [s EXCEPT !.suspend = {}, !.state = "IDLE"], m |-> m]

\* Cycle stop, flagged by the interrupt when it has run dry.
StopSection(s, m, f) ==
  IF "CycleStop" \notin f THEN [s |-> s, m |-> m]
  ELSE IF s.state \in {"HOLD", "DOOR", "SLEEP"}
    THEN [s |-> [s EXCEPT !.suspend = IF "Hold" \in s.stepControl THEN @ \cup {"HoldComplete"} ELSE @,
                          !.stepControl = @ \ {"Hold"}],
          m |-> Recompute(m)]
  ELSE [s |-> IF "DoorAjar" \in s.suspend
              THEN [s EXCEPT !.suspend = @ \cup {"HoldComplete"}, !.state = "DOOR"]
              ELSE [s EXCEPT !.suspend = {}, !.state = "IDLE"],
        m |-> m]

(* Mutant: the byte is not clamped. *)
OverrideByteRaw(old, bits) ==
  LET down == (IF "CoarseMinus" \in bits THEN Coarse ELSE 0) + (IF "FineMinus" \in bits THEN Fine ELSE 0)
  IN ((IF "Reset" \in bits THEN Default ELSE old) - down) % ByteRange

\* The override of one pass, in a byte: every requested change is applied, in
\* this order, before the result is clamped.
OverrideByte(old, bits) ==
  LET delta == (IF "CoarsePlus" \in bits THEN Coarse ELSE 0)
               - (IF "CoarseMinus" \in bits THEN Coarse ELSE 0)
               + (IF "FinePlus" \in bits THEN Fine ELSE 0)
               - (IF "FineMinus" \in bits THEN Fine ELSE 0)
  IN Clamp(((IF "Reset" \in bits THEN Default ELSE old) + delta) % ByteRange,
           MinOverride, MaxOverride)

(* Mutant: a changed override reaches the spindle in every state. *)
AccessorySectionAlways(s, bits) ==
  SpindleSet([s EXCEPT !.override = OverrideByte(s.override, bits)], modal.on, modal.rpm)

\* The accessory overrides.
AccessorySection(s, bits) ==
  LET new == OverrideByte(s.override, bits)
      s1 == [s EXCEPT !.override = new]
      s2 == IF new = s.override THEN s
            ELSE IF s.state = "IDLE" THEN SpindleSet(s1, modal.on, modal.rpm)
            ELSE [s1 EXCEPT !.stepControl = @ \cup {"UpdatePwm"}]
  IN IF "Stop" \notin bits \/ s2.state # "HOLD" THEN s2
     ELSE IF s2.spindleStop = {} THEN [s2 EXCEPT !.spindleStop = {"Initiate"}]
     ELSE IF "Enabled" \in s2.spindleStop THEN [s2 EXCEPT !.spindleStop = @ \cup {"Restore"}]
     ELSE s2

\* The segment buffer is reloaded at the end of the pass.
Reloaded(s, m, cut) == IF s.state \in {"CYCLE", "HOLD", "DOOR", "SLEEP"} THEN Prep(s, m, cut)
                       ELSE [s |-> s, m |-> m]

(* Mutant: without a block there is nothing to restore. *)
RestoredBlock(m) == IF m.queue = <<>> THEN [on |-> FALSE, rpm |-> 0]
                    ELSE [on |-> Head(m.queue).on, rpm |-> Head(m.queue).rpm]

\* What protocol_exec_rt_suspend will restore: the spindle of the oldest block,
\* or the parser's.
Restored(m) == IF m.queue = <<>> THEN modal
               ELSE [on |-> Head(m.queue).on, rpm |-> Head(m.queue).rpm]

-----------------------------------------------------------------------------
(* The main thread. *)

Init ==
  /\ sys = [state |-> "IDLE", suspend |-> {}, stepControl |-> {}, spindleStop |-> {},
            speed |-> 0, override |-> Default]
  /\ motion = [queue |-> <<>>, loaded |-> FALSE, segs |-> 0, on |-> FALSE]
  /\ flags = {} /\ accessory = {}
  /\ modal = [on |-> FALSE, rpm |-> 0]
  /\ laser \in LaserModes
  /\ pc = "loop" /\ cmd = NoCmd
  /\ restore = modal
  /\ asked = FALSE /\ lines = 0 /\ requests = 0

\* Where the main thread calls the executor.
Calling == {"loop", "wait", "suspendPass", "asleep"}

AutoStart == IF motion.queue # <<>> THEN {"CycleStart"} ELSE {}

\* protocol_main_loop takes a line up to its first protocol_execute_realtime.
Line(kind, rpm) ==
  /\ pc = "loop" /\ lines < MaxLines /\ (sys.state = "ALARM" => kind = "sleep")
  /\ kind = "speed" => rpm # modal.rpm
  /\ kind \in {"start", "stop"} => modal.on = (kind = "stop")
  /\ lines' = lines + 1
  /\ IF kind = "sleep"
     THEN /\ sys.state \in {"IDLE", "ALARM"}
          /\ flags' = flags \cup {"Sleep"}
          /\ UNCHANGED <<modal, pc, cmd>>
     ELSE IF kind = "speed" /\ ~modal.on
     THEN /\ modal' = [modal EXCEPT !.rpm = rpm]
          /\ UNCHANGED <<flags, pc, cmd>>
     ELSE /\ flags' = flags \cup (IF kind = "cut" THEN {} ELSE AutoStart)
          /\ modal' = IF kind = "cut" /\ laser THEN [modal EXCEPT !.rpm = rpm] ELSE modal
          /\ pc' = "wait"
          /\ cmd' = [kind |-> kind, rpm |-> IF kind = "speed" \/ (kind = "cut" /\ laser)
                                            THEN rpm ELSE modal.rpm]
  /\ UNCHANGED <<sys, motion, accessory, laser, restore, asked, requests>>

\* The end of a pass with the flags f: entry to or return from
\* protocol_exec_rt_suspend.
Proceed(f, after) ==
  LET enters == pc \in {"loop", "wait"} /\ after.s.suspend # {} IN
  /\ sys' = after.s
  /\ motion' = after.m
  /\ flags' = {}
  /\ accessory' = IF enters /\ laser THEN {"Stop"} ELSE {}
  /\ pc' = IF pc = "asleep" THEN pc
           ELSE IF after.s.suspend # {} THEN "suspend"
           ELSE IF cmd = NoCmd THEN "loop" ELSE "check"
  /\ restore' = IF enters THEN Restored(after.m) ELSE restore
  /\ asked' = (asked /\ f \cap {"SafetyDoor", "Sleep"} = {}
                /\ ~("FeedHold" \in f /\ after.s.state = "HOLD")
                /\ after.s.state \notin {"IDLE", "CYCLE"})
  /\ UNCHANGED <<modal, laser, cmd, lines, requests>>

\* protocol_exec_rt_system from one of its call sites.
Pass(auto, cut) ==
  /\ pc \in Calling
  /\ auto => pc = "loop"
  /\ \E f \in {flags \cup (IF auto THEN AutoStart ELSE {})} :
     \E hold \in {HoldSection(sys, motion, f)} :
     \E start \in {StartSection(hold.s, hold.m, f, cut)} :
     \E stop \in {StopSection(start.s, start.m, f)} :
     \E after \in {Reloaded(AccessorySection(stop.s, accessory), stop.m, cut)} :
        "Abort" \notin f /\ Proceed(f, after)

\* An abort takes the main thread back to doMainWorker, which initializes the
\* system again; SLEEP and ALARM remain an alarm.
Reinitialize ==
  /\ pc \in Calling
  /\ "Abort" \in flags
  /\ sys' = [state |-> IF "Alarm" \in flags \/ sys.state \in {"ALARM", "SLEEP"} THEN "ALARM" ELSE "IDLE",
             suspend |-> {}, stepControl |-> {}, spindleStop |-> {}, speed |-> 0,
             override |-> Default]
  /\ motion' = [queue |-> <<>>, loaded |-> FALSE, segs |-> 0, on |-> FALSE]
  /\ flags' = {} /\ accessory' = {}
  /\ modal' = [on |-> FALSE, rpm |-> 0]
  /\ pc' = "loop" /\ cmd' = NoCmd /\ asked' = FALSE
  /\ UNCHANGED <<laser, restore, lines, requests>>

\* $X
Unlock ==
  /\ pc = "loop" /\ sys.state = "ALARM"
  /\ sys' = [sys EXCEPT !.state = "IDLE"]
  /\ UNCHANGED <<motion, flags, accessory, modal, laser, pc, cmd, restore, asked, lines, requests>>

\* After protocol_execute_realtime: mc_line queues its block or waits for room
\* with an auto-start; a synchronize waits for the planner and the cycle.
Synchronized == motion.queue = <<>> /\ sys.state # "CYCLE"

CheckCut ==
  /\ pc = "check" /\ cmd.kind = "cut"
  /\ IF Len(motion.queue) = BlockSlots
     THEN /\ flags' = flags \cup {"CycleStart"}
          /\ pc' = "wait"
          /\ UNCHANGED <<motion, cmd>>
     ELSE /\ \E n \in 1 .. 2 :
               motion' = [motion EXCEPT !.queue =
                            Append(@, [on |-> modal.on, rpm |-> cmd.rpm, left |-> n])]
          /\ pc' = "loop" /\ cmd' = NoCmd
          /\ UNCHANGED flags
  /\ UNCHANGED <<sys, accessory, modal, laser, restore, asked, lines, requests>>

CheckSync ==
  /\ pc = "check" /\ cmd.kind \in {"start", "stop", "speed", "end", "ended"}
  /\ IF ~Synchronized THEN pc' = "wait" /\ UNCHANGED <<sys, modal, cmd>>
     ELSE CASE cmd.kind \in {"start", "stop"} ->
                 /\ modal' = [modal EXCEPT !.on = (cmd.kind = "start")]
                 /\ sys' = SpindleSet(sys, cmd.kind = "start", cmd.rpm)
                 /\ pc' = "loop" /\ cmd' = NoCmd
            [] cmd.kind = "speed" ->
                 /\ modal' = [modal EXCEPT !.rpm = cmd.rpm]
                 /\ sys' = SpindleSet(sys, modal.on, cmd.rpm)
                 /\ pc' = "loop" /\ cmd' = NoCmd
            [] cmd.kind = "end" ->    \* before system_flag_wco_change
                 /\ modal' = [modal EXCEPT !.on = FALSE]
                 /\ sys' = [sys EXCEPT !.override = Default]
                 /\ pc' = "wait" /\ cmd' = [cmd EXCEPT !.kind = "ended"]
            [] cmd.kind = "ended" ->
                 /\ sys' = SpindleSet(sys, FALSE, 0)
                 /\ pc' = "loop" /\ cmd' = NoCmd
                 /\ UNCHANGED modal
  /\ UNCHANGED <<motion, flags, accessory, laser, restore, asked, lines, requests>>

-----------------------------------------------------------------------------
(* One round of protocol_exec_rt_suspend. *)

Retract ==
  /\ "RetractComplete" \notin sys.suspend
  /\ sys' = [SpindleSet(sys, FALSE, 0) EXCEPT
                !.spindleStop = {},
                !.suspend = (@ \ {"RestartRetract"}) \cup {"RetractComplete"}]
  /\ pc' = "suspendPass"
  /\ UNCHANGED <<motion, flags>>

FallAsleep ==
  /\ "RetractComplete" \in sys.suspend /\ sys.state = "SLEEP"
  /\ sys' = SpindleSet(sys, FALSE, 0)
  /\ motion' = [motion EXCEPT !.on = FALSE]
  /\ pc' = "asleep"
  /\ UNCHANGED flags

\* The door switch is not connected: it always reads closed.
DoorClosed ==
  /\ "RetractComplete" \in sys.suspend /\ sys.state = "DOOR"
  /\ LET closed == [sys EXCEPT !.suspend = @ \ {"DoorAjar"}]
         spins == modal.on /\ "RestartRetract" \notin sys.suspend
     IN IF "InitiateRestore" \notin sys.suspend
        THEN /\ sys' = closed
             /\ pc' = "suspendPass"
             /\ UNCHANGED flags
        ELSE IF spins /\ ~laser     \* then the spin-up delay
        THEN /\ sys' = SpindleSet(closed, restore.on, restore.rpm)
             /\ pc' = "restoring"
             /\ UNCHANGED flags
        ELSE /\ sys' = [closed EXCEPT !.suspend = @ \cup {"RestoreComplete"},
                           !.stepControl = IF spins THEN @ \cup {"UpdatePwm"} ELSE @]
             /\ flags' = flags \cup {"CycleStart"}
             /\ pc' = "suspendPass"
  /\ UNCHANGED motion

\* The end of the spin-up delay, which only sleeps: no executor pass runs in it.
FinishRestore ==
  /\ pc = "restoring"
  /\ sys' = [sys EXCEPT !.suspend = @ \cup {"RestoreComplete"}]
  /\ flags' = flags \cup {"CycleStart"}
  /\ pc' = "suspendPass"
  /\ UNCHANGED <<motion, accessory, modal, laser, cmd, restore, asked, lines, requests>>

\* The spindle stop override of a feed hold.
HoldManager ==
  /\ LET restores == sys.spindleStop \cap {"Restore", "RestoreCycle"} # {}
     IN CASE "Initiate" \in sys.spindleStop ->
               /\ sys' = IF modal.on THEN [SpindleSet(sys, FALSE, 0) EXCEPT !.spindleStop = {"Enabled"}]
                         ELSE [sys EXCEPT !.spindleStop = {}]
               /\ UNCHANGED flags
          [] "Initiate" \notin sys.spindleStop /\ restores ->
               /\ sys' = [(IF ~modal.on THEN sys
                           ELSE IF laser THEN [sys EXCEPT !.stepControl = @ \cup {"UpdatePwm"}]
                           ELSE SpindleSet(sys, restore.on, restore.rpm)) EXCEPT !.spindleStop = {}]
               /\ flags' = IF "RestoreCycle" \in sys.spindleStop THEN flags \cup {"CycleStart"}
                           ELSE flags
          [] sys.spindleStop = {} /\ "UpdatePwm" \in sys.stepControl ->
               /\ sys' = [SpindleSet(sys, restore.on, restore.rpm)
                            EXCEPT !.stepControl = @ \ {"UpdatePwm"}]
               /\ UNCHANGED flags
          [] OTHER -> UNCHANGED <<sys, flags>>
  /\ pc' = "suspendPass"
  /\ UNCHANGED motion

Manage ==
  /\ pc = "suspend"
  /\ IF "HoldComplete" \notin sys.suspend
     THEN pc' = "suspendPass" /\ UNCHANGED <<sys, motion, flags>>
     ELSE IF sys.state \in {"DOOR", "SLEEP"} THEN Retract \/ FallAsleep \/ DoorClosed
     ELSE HoldManager
  /\ UNCHANGED <<accessory, modal, laser, cmd, restore, asked, lines, requests>>

-----------------------------------------------------------------------------
(* The step interrupt, and requests from the plugin and the serial link. *)

IsrSegment ==
  /\ motion.on /\ motion.segs > 0
  /\ motion' = [motion EXCEPT !.segs = @ - 1]
  /\ UNCHANGED <<sys, flags, accessory, modal, laser, pc, cmd, restore, asked, lines, requests>>

IsrEmpty ==
  /\ motion.on /\ motion.segs = 0
  /\ motion' = [motion EXCEPT !.on = FALSE]
  /\ flags' = flags \cup {"CycleStop"}
  /\ UNCHANGED <<sys, accessory, modal, laser, pc, cmd, restore, asked, lines, requests>>

Request(r) ==
  /\ requests < MaxRequests
  /\ requests' = requests + 1
  /\ accessory' = IF r \in OverrideBits THEN accessory \cup {r} ELSE accessory
  /\ IF r = "Abort"      \* mc_reset
     THEN LET kills == sys.state = "CYCLE" \/ "Hold" \in sys.stepControl IN
          /\ "Abort" \notin flags
          /\ flags' = flags \cup {"Abort"} \cup (IF kills THEN {"Alarm"} ELSE {})
          /\ motion' = IF kills THEN [motion EXCEPT !.on = FALSE] ELSE motion
     ELSE /\ flags' = IF r \in OverrideBits THEN flags ELSE flags \cup {r}
          /\ UNCHANGED motion
  /\ asked' = (asked \/ r \in {"CycleStart", "Abort"})
  /\ UNCHANGED <<sys, modal, laser, pc, cmd, restore, lines>>

Main == \/ \E auto \in BOOLEAN, cut \in 0 .. SegmentSlots : Pass(auto, cut)
        \/ Reinitialize \/ CheckCut \/ CheckSync \/ FinishRestore \/ Manage
Isr == IsrSegment \/ IsrEmpty
Input == \/ \E kind \in {"cut", "start", "stop", "speed", "end", "sleep"}, rpm \in Rpms : Line(kind, rpm)
         \/ Unlock
         \/ \E r \in Requests : Request(r)

Next == Main \/ Isr \/ Input

Spec == Init /\ [][Next]_vars

\* The main thread polls and the realtime thread runs the interrupt for ever; a
\* delay comes to its end.
FairSpec == Spec /\ WF_vars(Main) /\ WF_vars(Isr)

-----------------------------------------------------------------------------
(* Properties. *)

TypeOK ==
  /\ sys.state \in {"IDLE", "CYCLE", "HOLD", "DOOR", "SLEEP", "ALARM"}
  /\ sys.suspend \subseteq {"HoldComplete", "RetractComplete", "InitiateRestore",
                            "RestoreComplete", "RestartRetract", "DoorAjar"}
  /\ sys.stepControl \subseteq {"Hold", "EndMotion", "UpdatePwm"}
  /\ sys.spindleStop \subseteq {"Enabled", "Initiate", "Restore", "RestoreCycle"}
  /\ sys.speed \in 0 .. RpmMax * Default /\ sys.override \in MinOverride .. MaxOverride
  /\ Len(motion.queue) <= BlockSlots /\ motion.segs \in 0 .. SegmentSlots
  /\ flags \subseteq {"CycleStart", "CycleStop", "FeedHold", "SafetyDoor", "Sleep", "Abort", "Alarm"}
  /\ accessory \subseteq OverrideBits
  /\ modal \in Spindle /\ restore \in Spindle
  /\ pc \in Calling \cup {"check", "suspend", "restoring"}

\* The machine has come to rest and nothing is left to run.
AtRest == ~motion.on /\ motion.segs = 0 /\ motion.queue = <<>>

(* With the door open, or asleep, the spindle stays off from the moment it  *)
(* was switched off until a resume restores it: neither a speed override    *)
(* nor a segment prepared late switches it on.                              *)
DoorStopsSpindle ==
  sys.state \in {"DOOR", "SLEEP"} /\ "RetractComplete" \in sys.suspend
    /\ "InitiateRestore" \notin sys.suspend => sys.speed = 0

(* While a block is cut, its spindle runs if the block has it on and stands *)
(* still otherwise, whatever holds, spindle stops and doors came before.    *)
SpindleAsProgrammed ==
  sys.state = "CYCLE" /\ motion.loaded /\ pc = "loop" /\ ~laser
    /\ "UpdatePwm" \notin sys.stepControl =>
      (sys.speed > 0) = (Head(motion.queue).on /\ Head(motion.queue).rpm > 0)

(* After a program, and all stops and resumes in it, the idle spindle runs  *)
(* if and only if the parser has it on.                                     *)
IdleSpindle ==
  sys.state = "IDLE" /\ AtRest /\ pc = "loop" /\ flags = {} /\ ~laser =>
    (sys.speed > 0) = (modal.on /\ modal.rpm > 0)

(* A stopped machine is left stopped until somebody has asked for it to go  *)
(* on since: no automatic cycle start, and none that the resume of an       *)
(* earlier stop still has on its way, gets through.                         *)
StopNeedsUser ==
  [][sys.state \in {"HOLD", "DOOR"} /\ sys'.state \in {"IDLE", "CYCLE"} => asked]_vars

(* A door that opens stops the spindle for good, unless the user resumes or *)
(* resets: whatever the machine was doing, it comes to the retract.         *)
DoorRetracts == sys.state = "DOOR" ~> sys.state # "DOOR" \/ "RetractComplete" \in sys.suspend

=============================================================================
