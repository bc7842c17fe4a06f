------------------------------- MODULE EcmcGrbl -------------------------------
(***************************************************************************)
(* The plugin (ecmc_plugin_grbl/ecmcGrbl.cpp): how a g-code program gets   *)
(* from its buffer into grbl, and how the PLC and the ecmc realtime thread *)
(* start, stop and supervise it.  Its threads:                             *)
(*   - "ecmc.grbl.write", doWriteWorker: applies the configuration, then   *)
(*     waits for executeCmd_ and sends the program line by line, each line *)
(*     after the reply to the one before;                                  *)
(*   - the ecmc realtime thread: grblRTexecute every cycle, and the PLC    *)
(*     functions;                                                          *)
(*   - "ecmc.grbl.main", doMainWorker: grbl itself, of which only the      *)
(*     replies, the number of blocks and the stepper are kept here;        *)
(*   - iocsh, which may load another program.                              *)
(***************************************************************************)
EXTENDS Naturals, Sequences

CONSTANTS
  Programs,   (* programs that may be loaded: sequences of line kinds      *)
  Configs,    (* configurations: sequences of "set" and "badset"            *)
  AutoStarts, (* values of AUTO_START: a set of booleans                   *)
  AutoEnable, (* AUTO_ENABLE=1                                             *)
  Faults,     (* what ecmc may report: subset of {error, limit, disable}   *)
  PlcCalls,   (* PLC functions called                                      *)
  BlockSlots, (* blocks the planner holds                                  *)
  Polls,      (* loopCounter limit of autoEnableAxesSuccess                *)
  MaxInputs   (* bound: calls of PLC functions, and files loaded from      *)
              (* iocsh while running, in a behaviour                       *)

(* "open" is a line without line end, as getline leaves it when the file    *)
(* has \n line ends; all others end in \r.  "bad" is answered by error or by *)
(* ALARM, "end" by a message before its ok, like M2, M30 and many $ commands;*)
(* "short" is a line of one character, like the % that brackets many programs.*)
Kinds == {"motion", "plain", "end", "bad", "short", "open"}

ASSUME PluginAssumption ==
  /\ Programs \subseteq Seq(Kinds) /\ Programs # {}
  /\ Configs \subseteq Seq({"set", "badset"}) /\ Configs # {}
  /\ AutoStarts \subseteq BOOLEAN /\ AutoStarts # {} /\ AutoEnable \in BOOLEAN
  /\ Faults \subseteq {"error", "limit", "disable"}
  /\ PlcCalls \subseteq {"execute", "retrigger", "stop", "halt", "resume", "resetError"}
  /\ BlockSlots \in Nat \ {0} /\ Polls \in Nat
  /\ MaxInputs \in Nat

(* The lines of the programs.                                               *)
Lines == UNION {{prog[i] : i \in DOMAIN prog} : prog \in Programs}

NoLine == [kind |-> "none", number |-> 0]

VARIABLES
  (* the plugin object *)
  exe,           (* executeCmd_                                            *)
  busy,          (* writerBusy_                                            *)
  idx,           (* grblCommandBufferIndex_                                *)
  program,       (* grblCommandBuffer_                                     *)
  error,         (* errorCode_                                             *)
  errorOld,      (* errorCodeOld_ > 0                                      *)
  initDone,      (* grblInitDone_                                          *)
  unrecoverable, (* unrecoverableError_                                    *)
  autoStart,     (* cfgAutoStart_                                          *)
  autoStartDone, (* autoStartDone_                                         *)
  ecmc,          (* ecmcData_: error, allLimitsOK, allEnabled              *)
  iocRunning,    (* getEcmcEpicsIOCState                                   *)
  (* program counters and local variables *)
  pcW, cfg, polls, line, (* writer; cfg: the commands still to write       *)
  pcR,           (* realtime thread, within grblRTexecute                  *)
  loading,       (* what iocsh has still to add of a file                  *)
  (* grbl *)
  rx, tx,        (* lines to grbl, replies from it                         *)
  blocks,        (* planner blocks not executed                            *)
  on,            (* stepperInterruptEnable                                 *)
  held,          (* a feed hold was requested and not resumed              *)
  reset,         (* EXEC_RESET, or grbl has not started                    *)
  (* bounds and history *)
  inputs,        (* PLC calls and loaded files so far                      *)
  ran,           (* number of the program line grbl took last              *)
  late,          (* lines sent with executeCmd_ clear since it was seen set *)
  early,         (* a start came before writerBusy_ of the last run was clear*)
  refused        (* grbl has answered a line with an error                 *)

cmdVars  == <<exe, busy, idx>>
errVars  == <<error, errorOld, unrecoverable>>
autoVars == <<autoStart, autoStartDone>>
ioVars   == <<rx, tx>>
grblVars == <<blocks, on, held, reset>>
waitVars == <<cfg, polls, line>>
loadVars == <<program, loading>>
histVars == <<ran, late, early, refused>>
vars == <<cmdVars, errVars, autoVars, ioVars, grblVars, waitVars, loadVars, histVars,
          initDone, ecmc, iocRunning, pcW, pcR, inputs>>

Init ==
  /\ exe = FALSE /\ busy = TRUE /\ idx = 0
  /\ program \in Programs /\ loading = <<>>
  /\ error = "none" /\ errorOld = FALSE /\ unrecoverable = FALSE
  /\ initDone = FALSE /\ iocRunning = FALSE
  /\ autoStart \in AutoStarts /\ autoStartDone = FALSE
  /\ ecmc = [error |-> FALSE, limitsOK |-> FALSE, enabled |-> FALSE]
  /\ pcW = "waitStart" /\ cfg \in Configs /\ polls = 0 /\ line = NoLine
  /\ pcR = "idle"
  /\ rx = <<>> /\ tx = <<>>
  /\ blocks = 0 /\ on = FALSE /\ held = FALSE /\ reset = TRUE
  /\ inputs = 0
  /\ ran = 0 /\ late = 0 /\ early = FALSE /\ refused = FALSE

GetParserBusy == ~iocRunning \/ busy \/ ~initDone
GetBusy       == GetParserBusy \/ on

(* Mutant: not refused while the parser is busy.                            *)
SetExecuteAlways(v) ==
  IF v /\ ~exe THEN exe' = TRUE /\ busy' = TRUE /\ idx' = 0 ELSE exe' = v /\ UNCHANGED <<busy, idx>>

(* setExecute: refused while the parser is busy; a trigger starts from the  *)
(* first line.                                                              *)
SetExecute(v) ==
  IF v /\ ~exe
    THEN IF GetParserBusy
           THEN UNCHANGED cmdVars
           ELSE exe' = TRUE /\ busy' = TRUE /\ idx' = 0
    ELSE exe' = v /\ UNCHANGED <<busy, idx>>

-------------------------------------------------------------------------------
(* The writer thread.                                                       *)

Goto(from, to) == pcW = from /\ pcW' = to

(* grblReadReply takes one reply out of the buffer.                         *)
Reply(r) == tx # <<>> /\ r = Head(tx) /\ tx' = Tail(tx)
Replies == {"ok", "error", "start", "message"}

(* Mutant: the welcome message is not read.                                 *)
WaitNothing ==
  /\ Goto("waitStart", "waitIoc")
  /\ UNCHANGED <<cmdVars, errVars, autoVars, ioVars, grblVars, waitVars, loadVars, histVars,
                 initDone, ecmc, iocRunning, pcR, inputs>>

WaitStart ==
  /\ \E r \in Replies : Reply(r) /\ Goto("waitStart", IF r = "start" THEN "waitIoc" ELSE "waitStart")
  /\ UNCHANGED <<cmdVars, errVars, autoVars, rx, grblVars, waitVars, loadVars, histVars,
                 initDone, ecmc, iocRunning, pcR, inputs>>

WaitIoc ==
  /\ iocRunning
  /\ Goto("waitIoc", "config")
  /\ UNCHANGED <<cmdVars, errVars, autoVars, ioVars, grblVars, waitVars, loadVars, histVars,
                 initDone, ecmc, iocRunning, pcR, inputs>>

(* applyConfigsSuccess                                                      *)
WriteConfig ==
  /\ cfg # <<>>
  /\ Goto("config", "configReply")
  /\ rx' = Append(rx, [kind |-> Head(cfg), number |-> 0])
  /\ UNCHANGED <<cmdVars, errVars, autoVars, tx, grblVars, waitVars, loadVars, histVars,
                 initDone, ecmc, iocRunning, pcR, inputs>>

ConfigReply ==
  /\ \E r \in Replies :
       /\ Reply(r)
       /\ IF r = "ok"
            THEN /\ Goto("configReply", "config")
                 /\ cfg' = Tail(cfg)
                 /\ UNCHANGED <<error, unrecoverable, exe>>
            ELSE /\ Goto("configReply", "dead")
                 /\ error' = "config" /\ unrecoverable' = TRUE /\ exe' = FALSE
                 /\ UNCHANGED cfg
  /\ UNCHANGED <<busy, idx, errorOld, autoVars, rx, grblVars, polls, line, loadVars, histVars,
                 initDone, ecmc, iocRunning, pcR, inputs>>

ConfigDone ==
  /\ cfg = <<>>
  /\ Goto("config", IF autoStart THEN "autoStart0" ELSE "idle")
  /\ busy' = FALSE
  /\ UNCHANGED <<exe, idx, errVars, autoVars, ioVars, grblVars, waitVars, loadVars, histVars,
                 initDone, ecmc, iocRunning, pcR, inputs>>

WriterAutoStart ==
  /\ \/ Goto("autoStart0", "autoStart1") /\ SetExecute(FALSE)
     \/ Goto("autoStart1", "idle") /\ SetExecute(TRUE)
  /\ UNCHANGED <<errVars, autoVars, ioVars, grblVars, waitVars, loadVars, histVars,
                 initDone, ecmc, iocRunning, pcR, inputs>>

WaitExecute ==
  /\ exe /\ initDone /\ ~ecmc.error
  /\ Goto("idle", IF AutoEnable /\ ~ecmc.enabled THEN "autoEnable" ELSE "gcode")
  /\ polls' = 0
  /\ UNCHANGED <<cmdVars, errVars, autoVars, ioVars, grblVars, cfg, line, loadVars, histVars,
                 initDone, ecmc, iocRunning, pcR, inputs>>

(* autoEnableAxesSuccess: while(!allEnabled || loopCounter >= 100)          *)
AutoEnablePoll ==
  /\ pcW = "autoEnable"
  /\ IF ~ecmc.enabled \/ polls >= Polls
       THEN polls' = (IF polls < Polls THEN polls + 1 ELSE polls) /\ UNCHANGED pcW
       ELSE pcW' = "gcode" /\ UNCHANGED polls
  /\ UNCHANGED <<cmdVars, errVars, autoVars, ioVars, grblVars, cfg, line, loadVars, histVars,
                 initDone, ecmc, iocRunning, pcR, inputs>>

(* Mutant: executeCmd_ is not looked at between the lines.                  *)
SeeLineAlways ==
  /\ idx < Len(program) /\ ecmc.enabled
  /\ Goto("gcode", "take")
  /\ late' = IF exe THEN 0 ELSE late
  /\ UNCHANGED <<cmdVars, errVars, autoVars, ioVars, grblVars, waitVars, loadVars, ran, early, refused,
                 initDone, ecmc, iocRunning, pcR, inputs>>

(* WriteGCodeSuccess: look at the index, the size, executeCmd_ and enabled, *)
SeeLine ==
  /\ idx < Len(program) /\ exe /\ ecmc.enabled
  /\ Goto("gcode", "take")
  /\ late' = 0
  /\ UNCHANGED <<cmdVars, errVars, autoVars, ioVars, grblVars, waitVars, loadVars, ran, early, refused,
                 initDone, ecmc, iocRunning, pcR, inputs>>

(* take the line, or what is left of one if the buffer was cleared since,   *)
TakeLine ==
  /\ Goto("take", "send")
  /\ \E kind \in (IF idx < Len(program) THEN {program[idx + 1]} ELSE Lines) :
       line' = [kind |-> kind, number |-> idx + 1]
  /\ UNCHANGED <<cmdVars, errVars, autoVars, ioVars, grblVars, cfg, polls, loadVars, histVars,
                 initDone, ecmc, iocRunning, pcR, inputs>>

(* Mutants: it does not wait for the reply; it counts the line a second time. *)
SendLineOn ==
  /\ Goto("send", "gcode")
  /\ rx' = Append(rx, line)
  /\ idx' = idx + 1
  /\ UNCHANGED <<exe, busy, errVars, autoVars, tx, grblVars, waitVars, loadVars, histVars,
                 initDone, ecmc, iocRunning, pcR, inputs>>

SendLineTwice ==
  /\ Goto("send", "reply")
  /\ rx' = Append(rx, line)
  /\ idx' = idx + 1
  /\ UNCHANGED <<exe, busy, errVars, autoVars, tx, grblVars, waitVars, loadVars, histVars,
                 initDone, ecmc, iocRunning, pcR, inputs>>

(* and send it.                                                             *)
SendLine ==
  /\ Goto("send", "reply")
  /\ rx' = Append(rx, line)
  /\ late' = IF exe THEN 0 ELSE late + 1
  /\ UNCHANGED <<cmdVars, errVars, autoVars, tx, grblVars, waitVars, loadVars, ran, early, refused,
                 initDone, ecmc, iocRunning, pcR, inputs>>

LineReply ==
  /\ \E r \in Replies :
       /\ Reply(r)
       /\ IF r = "ok"
            THEN Goto("reply", "gcode") /\ idx' = idx + 1 /\ UNCHANGED error
            ELSE Goto("reply", "fail") /\ error' = "command" /\ UNCHANGED idx
  /\ UNCHANGED <<exe, busy, errorOld, unrecoverable, autoVars, rx, grblVars, waitVars, loadVars,
                 histVars, initDone, ecmc, iocRunning, pcR, inputs>>

(* setExecute(0), setReset(0), and setReset(1) into mc_reset.               *)
StopAndReset ==
  /\ Goto("fail", "failed")
  /\ exe' = FALSE /\ initDone' = FALSE
  /\ reset' = TRUE
  /\ on' = FALSE
  /\ UNCHANGED <<busy, idx, errVars, autoVars, ioVars, blocks, held, waitVars, loadVars, histVars,
                 ecmc, iocRunning, pcR, inputs>>

(* The end of setReset(1), setReset(0), and of the thread.                  *)
WriterEnds ==
  /\ Goto("failed", "dead")
  /\ initDone' = FALSE
  /\ idx' = 0
  /\ UNCHANGED <<exe, busy, errVars, autoVars, ioVars, grblVars, waitVars, loadVars, histVars,
                 ecmc, iocRunning, pcR, inputs>>

(* Mutant: it waits for a line after the last one.                          *)
ProgramDoneLate ==
  /\ ~(idx < Len(program) /\ exe /\ ecmc.enabled)
  /\ (idx > Len(program) \/ ~exe) /\ initDone
  /\ Goto("gcode", "done")
  /\ busy' = FALSE
  /\ UNCHANGED <<exe, idx, errVars, autoVars, ioVars, grblVars, waitVars, loadVars, histVars,
                 initDone, ecmc, iocRunning, pcR, inputs>>

ProgramDone ==
  /\ ~(idx < Len(program) /\ exe /\ ecmc.enabled)
  /\ (idx >= Len(program) \/ ~exe) /\ initDone
  /\ Goto("gcode", "done")
  /\ busy' = FALSE
  /\ UNCHANGED <<exe, idx, errVars, autoVars, ioVars, grblVars, waitVars, loadVars, histVars,
                 initDone, ecmc, iocRunning, pcR, inputs>>

(* Back in doWriteWorker: executeCmd_ = 0, then writerBusy_ = false.        *)
ClearExecute ==
  /\ Goto("done", "clearBusy")
  /\ exe' = FALSE
  /\ early' = FALSE
  /\ UNCHANGED <<busy, idx, errVars, autoVars, ioVars, grblVars, waitVars, loadVars, ran, late, refused,
                 initDone, ecmc, iocRunning, pcR, inputs>>

ClearBusy ==
  /\ Goto("clearBusy", "idle")
  /\ busy' = FALSE
  /\ UNCHANGED <<exe, idx, errVars, autoVars, ioVars, grblVars, waitVars, loadVars, histVars,
                 initDone, ecmc, iocRunning, pcR, inputs>>

-------------------------------------------------------------------------------
(* The realtime thread: grblRTexecute.                                      *)

Reports(fault) == IF fault \in Faults THEN BOOLEAN ELSE {FALSE}

(* Read ecmc: until the axes have been asked they count as enabled.         *)
RtRead ==
  /\ pcR = "idle"
  /\ iocRunning /\ initDone /\ ~unrecoverable
  /\ \E err \in Reports("error") :
       /\ ecmc' = [ecmc EXCEPT !.error = err, !.enabled = TRUE]
       /\ pcR' = IF err /\ ~ecmc.error THEN "newError" ELSE "read"
  /\ UNCHANGED <<cmdVars, errVars, autoVars, ioVars, grblVars, waitVars, loadVars, histVars,
                 initDone, iocRunning, pcW, inputs>>

(* Then: at a new error of ecmc or of the plugin halt grbl, else auto-start. *)
(* "control": an ecmc error or a limit switch has just come.                *)
RtStatus ==
  /\ pcR \in {"read", "newError"}
  /\ \E limit \in Reports("limit"), disabled \in Reports("disable") :
       LET new == pcR = "newError" \/ (limit /\ ecmc.limitsOK)
       IN /\ ecmc' = [ecmc EXCEPT !.limitsOK = ~limit, !.enabled = ~disabled]
          /\ IF exe /\ (pcR = "newError" \/ (error # "none" /\ ~errorOld))
               THEN /\ held' = TRUE
                    /\ pcR' = IF new THEN "stopControl" ELSE "stop"
                    /\ UNCHANGED <<cmdVars, errorOld, autoStartDone, early>>
               ELSE /\ errorOld' = (error # "none")
                    /\ autoStartDone' = (autoStartDone \/ autoStart)
                    /\ IF autoStart /\ ~autoStartDone
                         THEN SetExecute(TRUE) /\ early' = (early \/ (exe' /\ pcW = "clearBusy"))
                         ELSE UNCHANGED <<cmdVars, early>>
                    /\ pcR' = IF new THEN "control" ELSE "motion"
                    /\ UNCHANGED held
  /\ UNCHANGED <<error, unrecoverable, autoStart, ioVars, blocks, on, reset, waitVars, loadVars, ran,
                 late, refused, initDone, iocRunning, pcW, inputs>>

(* After the halt the program is stopped.                                   *)
RtStop ==
  /\ pcR \in {"stop", "stopControl"}
  /\ exe' = FALSE
  /\ errorOld' = (error # "none")
  /\ pcR' = IF pcR = "stop" THEN "idle" ELSE "lastControl"
  /\ UNCHANGED <<busy, idx, error, unrecoverable, autoVars, ioVars, grblVars, waitVars, loadVars,
                 histVars, initDone, ecmc, iocRunning, pcW, inputs>>

(* giveControlToEcmcIfNeeded: here, or before the interrupt if a program is *)
(* still being executed.                                                    *)
GiveControl ==
  /\ pcR \in {"control", "lastControl"}
  /\ pcR' = IF pcR = "control" THEN "motion" ELSE "idle"
  /\ IF pcR = "control" /\ ~exe
       THEN UNCHANGED <<exe, held, error, autoStart>>
       ELSE exe' = FALSE /\ held' = TRUE /\ error' = "limit" /\ autoStart' = FALSE
  /\ UNCHANGED <<busy, idx, errorOld, unrecoverable, autoStartDone, ioVars, blocks, on, reset, waitVars,
                 loadVars, histVars, initDone, ecmc, iocRunning, pcW, inputs>>

(* Run the interrupt: a block, or what is left of a deceleration, may end.  *)
RtMotion ==
  /\ pcR = "motion"
  /\ pcR' = "idle"
  /\ \/ UNCHANGED <<blocks, on>>
     \/ /\ initDone /\ ecmc.enabled /\ on
        /\ \/ blocks > 0 /\ blocks' = blocks - 1 /\ on' = (blocks' > 0)
           \/ (held \/ blocks = 0) /\ on' = FALSE /\ UNCHANGED blocks
  /\ UNCHANGED <<cmdVars, errVars, autoVars, ioVars, held, reset, waitVars, loadVars, histVars,
                 initDone, ecmc, iocRunning, pcW, inputs>>

Input == inputs < MaxInputs /\ inputs' = inputs + 1

(* The PLC functions, in the same thread; a call is a positive edge.        *)
Plc(function) == function \in PlcCalls /\ pcR = "idle" /\ iocRunning /\ Input

PlcStart ==
  /\ \/ Plc("execute") /\ SetExecute(TRUE)
     \/ Plc("retrigger") /\ ~GetParserBusy   \* grbl.plc: grbl_set_execute(0), then (1)
        /\ exe' = TRUE /\ busy' = TRUE /\ idx' = 0
  /\ early' = (early \/ (exe' /\ pcW = "clearBusy"))
  /\ UNCHANGED <<errVars, autoVars, ioVars, grblVars, waitVars, loadVars, ran, late, refused,
                 initDone, ecmc, iocRunning, pcW, pcR>>

PlcStop ==
  /\ Plc("stop")
  /\ SetExecute(FALSE)
  /\ UNCHANGED <<errVars, autoVars, ioVars, grblVars, waitVars, loadVars, histVars,
                 initDone, ecmc, iocRunning, pcW, pcR>>

PlcHold ==
  /\ \/ Plc("halt") /\ held' = TRUE
     \/ Plc("resume") /\ held' = (held /\ on)     \* only once the hold is complete
  /\ UNCHANGED <<cmdVars, errVars, autoVars, ioVars, blocks, on, reset, waitVars, loadVars, histVars,
                 initDone, ecmc, iocRunning, pcW, pcR>>

PlcResetError ==
  /\ Plc("resetError")
  /\ error' = "none" /\ errorOld' = FALSE
  /\ UNCHANGED <<cmdVars, unrecoverable, autoVars, ioVars, grblVars, waitVars, loadVars, histVars,
                 initDone, ecmc, iocRunning, pcW, pcR>>

IocRuns ==
  /\ ~iocRunning
  /\ initDone                     \* the constructor waits for it
  /\ iocRunning' = TRUE
  /\ UNCHANGED <<cmdVars, errVars, autoVars, ioVars, grblVars, waitVars, loadVars, histVars,
                 initDone, ecmc, pcW, pcR, inputs>>

-------------------------------------------------------------------------------
(* iocsh: loadGCodeFile with append=0.                                      *)

LoadClear ==
  /\ loading = <<>>
  /\ Input
  /\ exe' = FALSE
  /\ program' = <<>>
  /\ loading' \in Programs
  /\ UNCHANGED <<busy, idx, errVars, autoVars, ioVars, grblVars, waitVars, histVars,
                 initDone, ecmc, iocRunning, pcW, pcR>>

AddCommand ==
  /\ loading # <<>>
  /\ program' = Append(program, Head(loading))
  /\ loading' = Tail(loading)
  /\ UNCHANGED <<cmdVars, errVars, autoVars, ioVars, grblVars, waitVars, histVars,
                 initDone, ecmc, iocRunning, pcW, pcR, inputs>>

-------------------------------------------------------------------------------
(* The main thread: grbl.                                                   *)

(* Start, or start again after a reset: clear the input and the motion,     *)
(* print the welcome message.                                               *)
GrblStart ==
  /\ reset
  /\ reset' = FALSE
  /\ rx' = <<>> /\ tx' = Append(tx, "start")
  /\ blocks' = 0 /\ on' = FALSE /\ held' = FALSE
  /\ initDone' = TRUE
  /\ UNCHANGED <<cmdVars, errVars, autoVars, waitVars, loadVars, histVars, ecmc, iocRunning,
                 pcW, pcR, inputs>>

(* A line grbl can execute: ended, and with room for its motion.            *)
Accepts(kind) == kind # "open" /\ (kind = "motion" => blocks < BlockSlots)

(* Take a line once its end has come, execute it and reply; not while a     *)
(* hold is complete.                                                        *)
GrblLine ==
  /\ ~reset /\ rx # <<>> /\ (held => on)
  /\ Accepts(Head(rx).kind)
  /\ LET kind == Head(rx).kind
         failed == kind \in {"bad", "badset"}
     IN /\ blocks' = IF kind = "motion" THEN blocks + 1 ELSE blocks
        /\ tx' = tx \o CASE failed         -> <<"error">>
                        [] kind = "end"   -> <<"message", "ok">>
                        [] kind = "short" -> <<>>
                        [] OTHER          -> <<"ok">>
        /\ refused' = (refused \/ failed)
        /\ ran' = IF Head(rx).number = 0 THEN ran ELSE Head(rx).number
  /\ rx' = Tail(rx)
  /\ UNCHANGED <<cmdVars, errVars, autoVars, on, held, reset, waitVars, loadVars, late, early,
                 initDone, ecmc, iocRunning, pcW, pcR, inputs>>

(* Mutant: only the main loop starts the cycle, not mc_line when it waits.  *)
GrblCycleMainLoop ==
  /\ ~reset /\ blocks > 0 /\ ~held /\ ~on
  /\ rx = <<>>
  /\ on' = TRUE
  /\ UNCHANGED <<cmdVars, errVars, autoVars, ioVars, blocks, held, reset, waitVars, loadVars, histVars,
                 initDone, ecmc, iocRunning, pcW, pcR, inputs>>

(* Auto-start: by the main loop, or by mc_line when the planner is full.    *)
GrblCycle ==
  /\ ~reset /\ blocks > 0 /\ ~held /\ ~on
  /\ on' = TRUE
  /\ UNCHANGED <<cmdVars, errVars, autoVars, ioVars, blocks, held, reset, waitVars, loadVars, histVars,
                 initDone, ecmc, iocRunning, pcW, pcR, inputs>>

-------------------------------------------------------------------------------
Writer ==
  \/ WaitStart \/ WaitIoc \/ WriteConfig \/ ConfigReply \/ ConfigDone \/ WriterAutoStart
  \/ WaitExecute \/ AutoEnablePoll \/ SeeLine \/ TakeLine \/ SendLine \/ LineReply \/ StopAndReset
  \/ WriterEnds \/ ProgramDone \/ ClearExecute \/ ClearBusy

Realtime == RtRead \/ RtStatus \/ RtStop \/ GiveControl \/ RtMotion

Grbl == GrblStart \/ GrblLine \/ GrblCycle

Plcs == PlcStart \/ PlcStop \/ PlcHold \/ PlcResetError

Next == Writer \/ Realtime \/ Grbl \/ Plcs \/ IocRuns \/ LoadClear \/ AddCommand

Spec == Init /\ [][Next]_vars

(* Every thread keeps running, the IOC starts, a block of motion ends.      *)
Fairness ==
  /\ WF_vars(Writer) /\ WF_vars(Realtime) /\ WF_vars(Grbl) /\ WF_vars(IocRuns)
  /\ SF_vars(RtMotion /\ (blocks' < blocks \/ on' # on))

FairSpec == Spec /\ Fairness

-------------------------------------------------------------------------------
PluginTypeOK ==
  /\ exe \in BOOLEAN /\ busy \in BOOLEAN /\ idx \in Nat
  /\ error \in {"none", "config", "command", "limit"}
  /\ errorOld \in BOOLEAN /\ unrecoverable \in BOOLEAN
  /\ autoStart \in BOOLEAN /\ autoStartDone \in BOOLEAN
  /\ initDone \in BOOLEAN /\ iocRunning \in BOOLEAN
  /\ ecmc \in [error : BOOLEAN, limitsOK : BOOLEAN, enabled : BOOLEAN]

ProgramTypeOK ==
  /\ program \in Seq(Kinds) /\ loading \in Seq(Kinds)
  /\ inputs \in 0..MaxInputs

ThreadTypeOK ==
  /\ pcW \in {"waitStart", "waitIoc", "config", "configReply", "autoStart0", "autoStart1", "idle",
              "autoEnable", "gcode", "take", "send", "reply", "fail", "failed", "done", "clearBusy", "dead"}
  /\ cfg \in Seq({"set", "badset"}) /\ polls \in 0..Polls
  /\ line \in [kind : Kinds \cup {"none"}, number : Nat]
  /\ pcR \in {"idle", "read", "newError", "stop", "stopControl", "control", "lastControl", "motion"}

GrblTypeOK ==
  /\ rx \in Seq([kind : Kinds \cup {"none", "set", "badset"}, number : Nat])
  /\ tx \in Seq(Replies)
  /\ blocks \in 0..BlockSlots
  /\ on \in BOOLEAN /\ held \in BOOLEAN /\ reset \in BOOLEAN /\ refused \in BOOLEAN
  /\ ran \in Nat /\ late \in Nat /\ early \in BOOLEAN

TypeOK == PluginTypeOK /\ ProgramTypeOK /\ ThreadTypeOK /\ GrblTypeOK

(* The protocol with grbl is one line, one reply: when the writer is not    *)
(* waiting for a reply, no line and no reply are under way, so a reply is   *)
(* never taken for the answer to another line.                              *)
OneOutstanding ==
  /\ Len(rx) + Len(tx) <= 1
  /\ pcW \notin {"waitStart", "configReply", "reply", "failed", "dead"} => rx = <<>> /\ tx = <<>>

(* grbl gets the lines of the program in their order, each once, from the   *)
(* first line after a trigger: as long as the run was not started in the    *)
(* short time between the two stores, executeCmd_ = 0 and writerBusy_ =     *)
(* false, at the end of the last one.                                       *)
LinesInOrder ==
  [][GrblLine /\ Head(rx).number > 0 => Head(rx).number \in {1, ran + 1} \/ early]_vars

(* A comment in WriteGCodeSuccess: code executed once.                      *)
ExecutedOnce ==
  [][GrblLine /\ Head(rx).number > 0 => Head(rx).number \in {1, ran + 1}]_vars

(* After executeCmd_ is cleared -- grbl_set_execute(0), an error, a limit   *)
(* switch, a new file -- at most one more line is sent.                     *)
StopsSending == late <= 1

(* Before the configuration is applied, or if grbl refused it, the machine  *)
(* is never moved and no program is started, whatever the PLC calls.        *)
NothingUnconfigured ==
  pcW \in {"waitStart", "waitIoc", "config", "configReply"} \/ unrecoverable
    => ~exe /\ blocks = 0 /\ ~on

(* A command error is reported only if grbl refused a line.  A comment in   *)
(* grblReadReply wants other messages of grbl to be skipped.                *)
CommandErrorMeansRefused == error \in {"command", "config"} => refused

(* A trigger that was taken back before the writer saw it.                  *)
TakenBack == pcW = "idle" /\ busy /\ ~exe

(* The parser is not busy for ever: it becomes free for the next trigger,   *)
(* unless a trigger is taken back at once: writerBusy_ then stays set, and  *)
(* with it every later trigger is refused.                                  *)
ParserFrees == GetParserBusy ~> (~GetParserBusy \/ TakenBack)

(* A comment at report_status_message: grbl responds to every incoming line *)
(* (and the writer waits for the response without a time-out).              *)
LineAnswered == pcW = "reply" ~> pcW # "reply"
===============================================================================
