----------------------------- MODULE EcmcGrblProofs -----------------------------
(***************************************************************************)
(* Proofs about the plugin.                                                *)
(***************************************************************************)
EXTENDS EcmcGrbl, TLAPS

-------------------------------------------------------------------------------
(* Types.                                                                   *)

LEMMA HeadTail ==
  ASSUME NEW S, NEW q \in Seq(S), q # <<>>
  PROVE  Head(q) \in S /\ Tail(q) \in Seq(S) /\ Len(q) \in Nat \ {0} /\ Len(Tail(q)) = Len(q) - 1
OBVIOUS

(* The elements of what is left of a sequence.                              *)
LEMMA TailElements ==
  ASSUME NEW S, NEW q \in Seq(S), q # <<>>
  PROVE  /\ 1 \in 1..Len(q) /\ Head(q) = q[1]
         /\ \A i \in 1..Len(Tail(q)) : i + 1 \in 1..Len(q) /\ Tail(q)[i] = q[i + 1]
OBVIOUS

LEMMA NoElements == ASSUME NEW S, NEW q \in Seq(S) PROVE Len(q) \in Nat /\ (Len(q) = 0 => q = <<>>)
OBVIOUS

LEMMA Bounds == BlockSlots \in Nat /\ Polls \in Nat /\ MaxInputs \in Nat
BY PluginAssumption

(* The lines of the programs are lines.                                     *)
LEMMA LinesAreKinds == Lines \subseteq Kinds
BY PluginAssumption DEF Lines

(* What grbl does with a line, but for its reply.                           *)
LEMMA LineTaken ==
  ASSUME GrblLine
  PROVE  /\ rx # <<>> /\ rx' = Tail(rx)
         /\ Head(rx).kind = "motion" => blocks < BlockSlots /\ blocks' = blocks + 1
         /\ Head(rx).kind # "motion" => blocks' = blocks
         /\ UNCHANGED <<cmdVars, errVars, autoVars, on, held, reset, waitVars, loadVars, late, early,
                        initDone, ecmc, iocRunning, pcW, pcR, inputs>>
<1>1. rx # <<>> /\ rx' = Tail(rx) /\ Accepts(Head(rx).kind)
      /\ UNCHANGED <<cmdVars, errVars, autoVars, on, held, reset, waitVars, loadVars, late, early,
                     initDone, ecmc, iocRunning, pcW, pcR, inputs>>
  BY Zenon DEF GrblLine
<1>2. blocks' = IF Head(rx).kind = "motion" THEN blocks + 1 ELSE blocks
  BY Zenon DEF GrblLine
<1> QED
  BY <1>1, <1>2, Zenon DEF Accepts

(* While the reply to a configuration command is awaited, the command is the *)
(* first of those left; without this the type of cfg is not inductive.      *)
CfgPending == pcW = "configReply" => cfg # <<>>

LEMMA InitTypeOK == Init => TypeOK /\ CfgPending
<1> SUFFICES ASSUME Init PROVE TypeOK /\ CfgPending
  OBVIOUS
<1> USE DEF Init
<1>1. PluginTypeOK
  <2>1. ecmc \in [error : BOOLEAN, limitsOK : BOOLEAN, enabled : BOOLEAN]
    OBVIOUS
  <2>2. autoStart \in BOOLEAN
    BY PluginAssumption
  <2> QED
    BY <2>1, <2>2 DEF PluginTypeOK
<1>2. ProgramTypeOK
  BY Bounds, PluginAssumption DEF ProgramTypeOK
<1>3. ThreadTypeOK
  BY Bounds, PluginAssumption DEF ThreadTypeOK, NoLine
<1>4. GrblTypeOK
  <2>1. rx = <<>> /\ tx = <<>> /\ blocks = 0 /\ ran = 0 /\ late = 0 /\ early = FALSE
    OBVIOUS
  <2>2. blocks \in 0..BlockSlots
    BY <2>1, Bounds
  <2>3. on \in BOOLEAN /\ held \in BOOLEAN /\ reset \in BOOLEAN /\ refused \in BOOLEAN
    OBVIOUS
  <2>4. early \in BOOLEAN
    BY <2>1, Zenon
  <2> QED
    BY <2>1, <2>2, <2>3, <2>4 DEF GrblTypeOK
<1> QED
  BY <1>1, <1>2, <1>3, <1>4 DEF TypeOK, CfgPending

(* setExecute keeps the types of what it sets.                              *)
LEMMA SetExecuteTypes ==
  ASSUME PluginTypeOK, NEW v \in BOOLEAN, SetExecute(v)
  PROVE  exe' \in BOOLEAN /\ busy' \in BOOLEAN /\ idx' \in Nat
<1>1. exe \in BOOLEAN /\ busy \in BOOLEAN /\ idx \in Nat
  BY DEF PluginTypeOK
<1>2. \/ exe' = TRUE /\ busy' = TRUE /\ idx' = 0
      \/ exe' = exe /\ busy' = busy /\ idx' = idx
      \/ exe' = v /\ busy' = busy /\ idx' = idx
  BY Zenon DEF SetExecute, cmdVars
<1>3. exe' \in BOOLEAN /\ busy' \in BOOLEAN
  BY <1>1, <1>2, Zenon
<1>4. idx' \in Nat
  BY <1>1, <1>2
<1> QED
  BY <1>3, <1>4

LEMMA NextPluginTypeOK == PluginTypeOK /\ [Next]_vars => PluginTypeOK'
<1> SUFFICES ASSUME PluginTypeOK, [Next]_vars PROVE PluginTypeOK'
  OBVIOUS
<1> USE DEF vars, cmdVars, errVars, autoVars, ioVars, grblVars, waitVars, loadVars, histVars
<1> USE DEF PluginTypeOK
<1>1. CASE WaitStart
  BY <1>1 DEF WaitStart, Goto, Reply, Replies
<1>2. CASE WaitIoc
  BY <1>2 DEF WaitIoc, Goto
<1>3. CASE WriteConfig
  BY <1>3 DEF WriteConfig, Goto
<1>4. CASE ConfigReply
  <2>1. error' \in {"none", "config", "command", "limit"} /\ unrecoverable' \in BOOLEAN /\ exe' \in BOOLEAN
    BY <1>4 DEF ConfigReply
  <2> QED
    BY <1>4, <2>1 DEF ConfigReply
<1>5. CASE ConfigDone
  BY ZenonT(30), <1>5 DEF ConfigDone, Goto
<1>6. CASE WriterAutoStart
  <2>1. exe' \in BOOLEAN /\ busy' \in BOOLEAN /\ idx' \in Nat
    BY <1>6, SetExecuteTypes DEF WriterAutoStart
  <2> QED
    BY <1>6, <2>1 DEF WriterAutoStart
<1>7. CASE WaitExecute
  BY <1>7 DEF WaitExecute, Goto
<1>8. CASE AutoEnablePoll
  BY <1>8 DEF AutoEnablePoll
<1>9. CASE SeeLine
  BY <1>9 DEF SeeLine, Goto
<1>10. CASE TakeLine
  BY <1>10 DEF TakeLine, Goto
<1>11. CASE SendLine
  BY <1>11 DEF SendLine, Goto
<1>12. CASE LineReply
  BY <1>12 DEF LineReply, Goto, Reply, Replies
<1>13. CASE StopAndReset
  BY ZenonT(30), <1>13 DEF StopAndReset, Goto
<1>14. CASE WriterEnds
  BY ZenonT(30), <1>14 DEF WriterEnds, Goto
<1>15. CASE ProgramDone
  BY ZenonT(30), <1>15 DEF ProgramDone, Goto
<1>16. CASE ClearExecute
  BY ZenonT(30), <1>16 DEF ClearExecute, Goto
<1>17. CASE ClearBusy
  BY ZenonT(30), <1>17 DEF ClearBusy, Goto
<1>18. CASE RtRead
  <2>1. PICK err \in BOOLEAN : ecmc' = [ecmc EXCEPT !.error = err, !.enabled = TRUE]
    <3>1. Reports("error") \subseteq BOOLEAN
      BY DEF Reports
    <3> QED
      BY <1>18, <3>1, ZenonT(30) DEF RtRead
  <2> QED
    BY <1>18, <2>1 DEF RtRead
<1>19. CASE RtStatus
  <2>1. PICK limit \in BOOLEAN, disabled \in BOOLEAN :
          ecmc' = [ecmc EXCEPT !.limitsOK = ~limit, !.enabled = ~disabled]
    <3>1. Reports("limit") \subseteq BOOLEAN /\ Reports("disable") \subseteq BOOLEAN
      BY DEF Reports
    <3>2. \E limit \in Reports("limit"), disabled \in Reports("disable") :
            ecmc' = [ecmc EXCEPT !.limitsOK = ~limit, !.enabled = ~disabled]
      BY <1>19, ZenonT(30) DEF RtStatus
    <3> QED
      BY <3>1, <3>2
  <2>2. ecmc' \in [error : BOOLEAN, limitsOK : BOOLEAN, enabled : BOOLEAN]
    <3>1. (~limit) \in BOOLEAN /\ (~disabled) \in BOOLEAN
      OBVIOUS
    <3> QED
      BY <2>1, <3>1
  <2>3. exe' \in BOOLEAN /\ busy' \in BOOLEAN /\ idx' \in Nat
    <3>1. SetExecute(TRUE) \/ UNCHANGED cmdVars
      BY <1>19, ZenonT(30) DEF RtStatus
    <3> QED
      BY <3>1, SetExecuteTypes
  <2>4. errorOld' \in BOOLEAN /\ autoStartDone' \in BOOLEAN
    BY <1>19, ZenonT(30) DEF RtStatus
  <2> QED
    BY <1>19, <2>2, <2>3, <2>4 DEF RtStatus
<1>20. CASE RtStop
  <2>1. exe' = FALSE /\ errorOld' \in BOOLEAN
    BY <1>20 DEF RtStop
  <2> QED
    BY <1>20, <2>1 DEF RtStop
<1>21. CASE GiveControl
  <2>1. exe' \in BOOLEAN /\ autoStart' \in BOOLEAN
    BY <1>21 DEF GiveControl
  <2>2. error' \in {"none", "config", "command", "limit"}
    BY <1>21 DEF GiveControl
  <2> QED
    BY <1>21, <2>1, <2>2 DEF GiveControl
<1>22. CASE RtMotion
  BY <1>22 DEF RtMotion
<1>23. CASE GrblStart
  BY <1>23 DEF GrblStart, Replies
<1>24. CASE GrblLine
  BY <1>24, LineTaken
<1>25. CASE GrblCycle
  BY <1>25 DEF GrblCycle
<1>26. CASE PlcStart
  <2>1. exe' \in BOOLEAN /\ busy' \in BOOLEAN /\ idx' \in Nat
    <3>1. CASE SetExecute(TRUE)
      BY <3>1, SetExecuteTypes
    <3>2. CASE exe' = TRUE /\ busy' = TRUE /\ idx' = 0
      BY <3>2
    <3> QED
      BY <1>26, <3>1, <3>2 DEF PlcStart
  <2> QED
    BY <1>26, <2>1 DEF PlcStart
<1>27. CASE PlcStop
  <2>1. exe' \in BOOLEAN /\ busy' \in BOOLEAN /\ idx' \in Nat
    BY <1>27, SetExecuteTypes DEF PlcStop
  <2> QED
    BY <1>27, <2>1 DEF PlcStop
<1>28. CASE PlcHold
  BY <1>28 DEF PlcHold, Input, Plc
<1>29. CASE PlcResetError
  BY <1>29 DEF PlcResetError, Input, Plc
<1>30. CASE IocRuns
  BY <1>30 DEF IocRuns
<1>31. CASE LoadClear
  BY ZenonT(30), <1>31 DEF LoadClear
<1>32. CASE AddCommand
  BY <1>32 DEF AddCommand
<1>33. CASE UNCHANGED vars
  BY <1>33
<1> QED
  BY <1>1, <1>2, <1>3, <1>4, <1>5, <1>6, <1>7, <1>8, <1>9, <1>10, <1>11, <1>12, <1>13, <1>14,
     <1>15, <1>16, <1>17, <1>18, <1>19, <1>20, <1>21, <1>22, <1>23, <1>24, <1>25, <1>26, <1>27,
     <1>28, <1>29, <1>30, <1>31, <1>32, <1>33 DEF Next, Writer, Realtime, Grbl, Plcs

LEMMA NextProgramTypeOK == ProgramTypeOK /\ [Next]_vars => ProgramTypeOK'
<1> SUFFICES ASSUME ProgramTypeOK, [Next]_vars PROVE ProgramTypeOK'
  OBVIOUS
<1> USE DEF vars, cmdVars, errVars, autoVars, ioVars, grblVars, waitVars, loadVars, histVars
<1> USE DEF ProgramTypeOK
<1>1. CASE WaitStart
  BY <1>1 DEF WaitStart, Goto, Reply, Replies
<1>2. CASE WaitIoc
  BY <1>2 DEF WaitIoc, Goto
<1>3. CASE WriteConfig
  BY <1>3 DEF WriteConfig, Goto
<1>4. CASE ConfigReply
  BY <1>4 DEF ConfigReply, Goto, Reply, Replies
<1>5. CASE ConfigDone
  BY <1>5 DEF ConfigDone, Goto
<1>6. CASE WriterAutoStart
  BY <1>6 DEF WriterAutoStart, Goto, SetExecute, GetParserBusy
<1>7. CASE WaitExecute
  BY <1>7 DEF WaitExecute, Goto
<1>8. CASE AutoEnablePoll
  BY <1>8 DEF AutoEnablePoll
<1>9. CASE SeeLine
  BY <1>9 DEF SeeLine, Goto
<1>10. CASE TakeLine
  BY <1>10 DEF TakeLine, Goto
<1>11. CASE SendLine
  BY <1>11 DEF SendLine, Goto
<1>12. CASE LineReply
  BY <1>12 DEF LineReply, Goto, Reply, Replies
<1>13. CASE StopAndReset
  BY <1>13 DEF StopAndReset, Goto
<1>14. CASE WriterEnds
  BY <1>14 DEF WriterEnds, Goto
<1>15. CASE ProgramDone
  BY <1>15 DEF ProgramDone, Goto
<1>16. CASE ClearExecute
  BY <1>16 DEF ClearExecute, Goto
<1>17. CASE ClearBusy
  BY <1>17 DEF ClearBusy, Goto
<1>18. CASE RtRead
  BY <1>18 DEF RtRead
<1>19. CASE RtStatus
  BY <1>19 DEF RtStatus, SetExecute, GetParserBusy, Reports
<1>20. CASE RtStop
  BY <1>20 DEF RtStop
<1>21. CASE GiveControl
  BY <1>21 DEF GiveControl
<1>22. CASE RtMotion
  BY <1>22 DEF RtMotion
<1>23. CASE GrblStart
  BY <1>23 DEF GrblStart, Replies
<1>24. CASE GrblLine
  BY <1>24 DEF GrblLine, Accepts, Replies
<1>25. CASE GrblCycle
  BY <1>25 DEF GrblCycle
<1>26. CASE PlcStart
  BY <1>26, Bounds DEF PlcStart, Input, Plc, SetExecute, GetParserBusy
<1>27. CASE PlcStop
  BY <1>27, Bounds DEF PlcStop, Input, Plc, SetExecute, GetParserBusy
<1>28. CASE PlcHold
  BY <1>28, Bounds DEF PlcHold, Input, Plc
<1>29. CASE PlcResetError
  BY <1>29, Bounds DEF PlcResetError, Input, Plc
<1>30. CASE IocRuns
  BY <1>30 DEF IocRuns
<1>31. CASE LoadClear
  BY <1>31, Bounds, PluginAssumption DEF LoadClear, Input
<1>32. CASE AddCommand
  BY <1>32 DEF AddCommand
<1>33. CASE UNCHANGED vars
  BY <1>33
<1> QED
  BY <1>1, <1>2, <1>3, <1>4, <1>5, <1>6, <1>7, <1>8, <1>9, <1>10, <1>11, <1>12, <1>13, <1>14,
     <1>15, <1>16, <1>17, <1>18, <1>19, <1>20, <1>21, <1>22, <1>23, <1>24, <1>25, <1>26, <1>27,
     <1>28, <1>29, <1>30, <1>31, <1>32, <1>33 DEF Next, Writer, Realtime, Grbl, Plcs

LEMMA NextThreadTypeOK == TypeOK /\ CfgPending /\ [Next]_vars => ThreadTypeOK'
<1> SUFFICES ASSUME TypeOK, CfgPending, [Next]_vars PROVE ThreadTypeOK'
  OBVIOUS
<1> USE DEF vars, cmdVars, errVars, autoVars, ioVars, grblVars, waitVars, loadVars, histVars
<1> USE DEF TypeOK, ThreadTypeOK
<1>1. CASE WaitStart
  BY <1>1 DEF WaitStart, Goto, Reply, Replies
<1>2. CASE WaitIoc
  BY <1>2 DEF WaitIoc, Goto
<1>3. CASE WriteConfig
  BY <1>3 DEF WriteConfig, Goto
<1>4. CASE ConfigReply
  <2>1. cfg' \in Seq({"set", "badset"})
    <3>1. cfg # <<>> /\ (cfg' = cfg \/ cfg' = Tail(cfg))
      BY <1>4, ZenonT(30) DEF ConfigReply, Goto, CfgPending
    <3> QED
      BY <3>1, HeadTail
  <2>2. pcW' \in {"config", "dead"}
    BY <1>4 DEF ConfigReply, Goto
  <2> QED
    BY <1>4, <2>1, <2>2 DEF ConfigReply
<1>5. CASE ConfigDone
  BY <1>5 DEF ConfigDone, Goto
<1>6. CASE WriterAutoStart
  BY <1>6 DEF WriterAutoStart, Goto, SetExecute, GetParserBusy
<1>7. CASE WaitExecute
  BY <1>7, Bounds DEF WaitExecute, Goto
<1>8. CASE AutoEnablePoll
  BY <1>8, Bounds DEF AutoEnablePoll
<1>9. CASE SeeLine
  BY <1>9 DEF SeeLine, Goto
<1>10. CASE TakeLine
  <2>1. PICK kind \in (IF idx < Len(program) THEN {program[idx + 1]} ELSE Lines) :
          line' = [kind |-> kind, number |-> idx + 1]
    BY <1>10, Zenon DEF TakeLine
  <2>2. idx + 1 \in Nat /\ (idx < Len(program) => program[idx + 1] \in Kinds)
    BY DEF PluginTypeOK, ProgramTypeOK
  <2>3. kind \in Kinds
    BY <2>1, <2>2, LinesAreKinds
  <2> QED
    BY <1>10, <2>1, <2>2, <2>3 DEF TakeLine, Goto
<1>11. CASE SendLine
  BY <1>11 DEF SendLine, Goto
<1>12. CASE LineReply
  BY <1>12 DEF LineReply, Goto, Reply, Replies
<1>13. CASE StopAndReset
  BY <1>13 DEF StopAndReset, Goto
<1>14. CASE WriterEnds
  BY <1>14 DEF WriterEnds, Goto
<1>15. CASE ProgramDone
  BY <1>15 DEF ProgramDone, Goto
<1>16. CASE ClearExecute
  BY <1>16 DEF ClearExecute, Goto
<1>17. CASE ClearBusy
  BY <1>17 DEF ClearBusy, Goto
<1>18. CASE RtRead
  BY <1>18 DEF RtRead
<1>19. CASE RtStatus
  BY <1>19 DEF RtStatus, SetExecute, GetParserBusy, Reports
<1>20. CASE RtStop
  BY <1>20 DEF RtStop
<1>21. CASE GiveControl
  BY <1>21 DEF GiveControl
<1>22. CASE RtMotion
  BY <1>22 DEF RtMotion
<1>23. CASE GrblStart
  BY <1>23 DEF GrblStart, Replies
<1>24. CASE GrblLine
  BY <1>24 DEF GrblLine, Accepts, Replies
<1>25. CASE GrblCycle
  BY <1>25 DEF GrblCycle
<1>26. CASE PlcStart
  BY <1>26 DEF PlcStart, Input, Plc, SetExecute, GetParserBusy
<1>27. CASE PlcStop
  BY <1>27 DEF PlcStop, Input, Plc, SetExecute, GetParserBusy
<1>28. CASE PlcHold
  BY <1>28 DEF PlcHold, Input, Plc
<1>29. CASE PlcResetError
  BY <1>29 DEF PlcResetError, Input, Plc
<1>30. CASE IocRuns
  BY <1>30 DEF IocRuns
<1>31. CASE LoadClear
  BY <1>31 DEF LoadClear
<1>32. CASE AddCommand
  BY <1>32 DEF AddCommand
<1>33. CASE UNCHANGED vars
  BY <1>33
<1> QED
  BY <1>1, <1>2, <1>3, <1>4, <1>5, <1>6, <1>7, <1>8, <1>9, <1>10, <1>11, <1>12, <1>13, <1>14,
     <1>15, <1>16, <1>17, <1>18, <1>19, <1>20, <1>21, <1>22, <1>23, <1>24, <1>25, <1>26, <1>27,
     <1>28, <1>29, <1>30, <1>31, <1>32, <1>33 DEF Next, Writer, Realtime, Grbl, Plcs

LEMMA NextGrblTypeOK == TypeOK /\ [Next]_vars => GrblTypeOK'
<1> SUFFICES ASSUME TypeOK, [Next]_vars PROVE GrblTypeOK'
  OBVIOUS
<1> USE DEF vars, cmdVars, errVars, autoVars, ioVars, grblVars, waitVars, loadVars, histVars
<1> USE DEF TypeOK, ThreadTypeOK, GrblTypeOK
<1>1. CASE WaitStart
  BY <1>1 DEF WaitStart, Goto, Reply, Replies
<1>2. CASE WaitIoc
  BY <1>2 DEF WaitIoc, Goto
<1>3. CASE WriteConfig
  BY <1>3 DEF WriteConfig, Goto
<1>4. CASE ConfigReply
  BY <1>4 DEF ConfigReply, Goto, Reply, Replies
<1>5. CASE ConfigDone
  BY <1>5 DEF ConfigDone, Goto
<1>6. CASE WriterAutoStart
  BY <1>6 DEF WriterAutoStart, Goto, SetExecute, GetParserBusy
<1>7. CASE WaitExecute
  BY <1>7 DEF WaitExecute, Goto
<1>8. CASE AutoEnablePoll
  BY <1>8 DEF AutoEnablePoll
<1>9. CASE SeeLine
  BY <1>9 DEF SeeLine, Goto
<1>10. CASE TakeLine
  BY <1>10 DEF TakeLine, Goto
<1>11. CASE SendLine
  BY <1>11 DEF SendLine, Goto
<1>12. CASE LineReply
  BY <1>12 DEF LineReply, Goto, Reply, Replies
<1>13. CASE StopAndReset
  BY <1>13 DEF StopAndReset, Goto
<1>14. CASE WriterEnds
  BY <1>14 DEF WriterEnds, Goto
<1>15. CASE ProgramDone
  BY <1>15 DEF ProgramDone, Goto
<1>16. CASE ClearExecute
  BY <1>16 DEF ClearExecute, Goto
<1>17. CASE ClearBusy
  BY <1>17 DEF ClearBusy, Goto
<1>18. CASE RtRead
  BY <1>18 DEF RtRead
<1>19. CASE RtStatus
  BY <1>19 DEF RtStatus, SetExecute, GetParserBusy, Reports
<1>20. CASE RtStop
  BY <1>20 DEF RtStop
<1>21. CASE GiveControl
  BY <1>21 DEF GiveControl
<1>22. CASE RtMotion
  <2>1. blocks' \in 0..BlockSlots
    BY <1>22, Bounds DEF RtMotion
  <2>2. on' \in BOOLEAN
    <3>1. on' = on \/ on' = FALSE \/ on' = (blocks' > 0)
      BY <1>22 DEF RtMotion
    <3>2. (blocks' > 0) \in BOOLEAN
      OBVIOUS
    <3> QED
      BY <3>1, <3>2, Zenon
  <2> QED
    BY <1>22, <2>1, <2>2 DEF RtMotion
<1>23. CASE GrblStart
  <2>1. tx' \in Seq(Replies) /\ rx' \in Seq([kind : Kinds \cup {"none", "set", "badset"}, number : Nat])
    BY <1>23 DEF GrblStart, Replies
  <2>2. blocks' \in 0..BlockSlots
    BY <1>23, Bounds DEF GrblStart
  <2>3. /\ on' = FALSE /\ held' = FALSE /\ reset' = FALSE
        /\ refused' = refused /\ ran' = ran /\ late' = late /\ early' = early
    BY <1>23 DEF GrblStart
  <2> QED
    BY <2>1, <2>2, <2>3
<1>24. CASE GrblLine
  <2>1. tx' \in Seq(Replies)
    <3>1. PICK answer \in {<<"error">>, <<"message", "ok">>, <<>>, <<"ok">>} : tx' = tx \o answer
      BY <1>24 DEF GrblLine
    <3>2. answer \in Seq(Replies)
      <4>1. <<"error">> \in Seq(Replies) /\ <<"message", "ok">> \in Seq(Replies)
            /\ <<>> \in Seq(Replies) /\ <<"ok">> \in Seq(Replies)
        BY DEF Replies
      <4> QED
        BY <4>1
    <3> QED
      BY <3>1, <3>2
  <2>2. blocks' \in 0..BlockSlots
    BY <1>24, LineTaken, Bounds
  <2>3. rx' \in Seq([kind : Kinds \cup {"none", "set", "badset"}, number : Nat])
    <3>1. rx # <<>> /\ rx' = Tail(rx)
      BY <1>24, LineTaken
    <3> QED
      BY <3>1, HeadTail
  <2>5. ran' \in Nat
    <3>1. Head(rx).number \in Nat
      <4>1. Head(rx) \in [kind : Kinds \cup {"none", "set", "badset"}, number : Nat]
        BY <1>24, HeadTail DEF GrblLine
      <4> QED
        BY <4>1
    <3>2. ran' = ran \/ ran' = Head(rx).number
      BY <1>24 DEF GrblLine
    <3> QED
      BY <3>1, <3>2
  <2>4. refused' \in BOOLEAN
    BY <1>24 DEF GrblLine
  <2> QED
    BY <1>24, <2>1, <2>2, <2>3, <2>4, <2>5 DEF GrblLine
<1>25. CASE GrblCycle
  BY <1>25 DEF GrblCycle
<1>26. CASE PlcStart
  <2>1. early' \in BOOLEAN
    <3>1. early' = (early \/ (exe' /\ pcW = "clearBusy"))
      BY <1>26, Zenon DEF PlcStart
    <3>2. exe' \in BOOLEAN
      BY <1>26, NextPluginTypeOK, PluginTypeOK DEF PluginTypeOK
    <3> QED
      BY <3>1, <3>2, Zenon
  <2> QED
    BY <1>26, <2>1 DEF PlcStart
<1>27. CASE PlcStop
  BY <1>27 DEF PlcStop, Input, Plc, SetExecute, GetParserBusy
<1>28. CASE PlcHold
  BY <1>28 DEF PlcHold, Input, Plc
<1>29. CASE PlcResetError
  BY <1>29 DEF PlcResetError, Input, Plc
<1>30. CASE IocRuns
  BY <1>30 DEF IocRuns
<1>31. CASE LoadClear
  BY <1>31 DEF LoadClear
<1>32. CASE AddCommand
  BY <1>32 DEF AddCommand
<1>33. CASE UNCHANGED vars
  BY <1>33
<1> QED
  BY <1>1, <1>2, <1>3, <1>4, <1>5, <1>6, <1>7, <1>8, <1>9, <1>10, <1>11, <1>12, <1>13, <1>14,
     <1>15, <1>16, <1>17, <1>18, <1>19, <1>20, <1>21, <1>22, <1>23, <1>24, <1>25, <1>26, <1>27,
     <1>28, <1>29, <1>30, <1>31, <1>32, <1>33 DEF Next, Writer, Realtime, Grbl, Plcs

LEMMA NextCfgPending == CfgPending /\ [Next]_vars => CfgPending'
<1> SUFFICES ASSUME CfgPending, [Next]_vars PROVE CfgPending'
  OBVIOUS
<1> USE DEF vars, cmdVars, errVars, autoVars, ioVars, grblVars, waitVars, loadVars, histVars
<1> USE DEF CfgPending
<1>1. CASE WaitStart
  BY <1>1 DEF WaitStart, Goto, Reply, Replies
<1>2. CASE WaitIoc
  BY <1>2 DEF WaitIoc, Goto
<1>3. CASE WriteConfig
  BY <1>3 DEF WriteConfig, Goto
<1>4. CASE ConfigReply
  BY <1>4 DEF ConfigReply, Goto, Reply, Replies
<1>5. CASE ConfigDone
  BY <1>5 DEF ConfigDone, Goto
<1>6. CASE WriterAutoStart
  BY <1>6 DEF WriterAutoStart, Goto, SetExecute, GetParserBusy
<1>7. CASE WaitExecute
  BY <1>7 DEF WaitExecute, Goto
<1>8. CASE AutoEnablePoll
  BY <1>8 DEF AutoEnablePoll
<1>9. CASE SeeLine
  BY <1>9 DEF SeeLine, Goto
<1>10. CASE TakeLine
  BY <1>10 DEF TakeLine, Goto
<1>11. CASE SendLine
  BY <1>11 DEF SendLine, Goto
<1>12. CASE LineReply
  BY <1>12 DEF LineReply, Goto, Reply, Replies
<1>13. CASE StopAndReset
  BY <1>13 DEF StopAndReset, Goto
<1>14. CASE WriterEnds
  BY <1>14 DEF WriterEnds, Goto
<1>15. CASE ProgramDone
  BY <1>15 DEF ProgramDone, Goto
<1>16. CASE ClearExecute
  BY <1>16 DEF ClearExecute, Goto
<1>17. CASE ClearBusy
  BY <1>17 DEF ClearBusy, Goto
<1>18. CASE RtRead
  BY <1>18 DEF RtRead
<1>19. CASE RtStatus
  BY <1>19 DEF RtStatus, SetExecute, GetParserBusy, Reports
<1>20. CASE RtStop
  BY <1>20 DEF RtStop
<1>21. CASE GiveControl
  BY <1>21 DEF GiveControl
<1>22. CASE RtMotion
  BY <1>22 DEF RtMotion
<1>23. CASE GrblStart
  BY <1>23 DEF GrblStart, Replies
<1>24. CASE GrblLine
  BY <1>24 DEF GrblLine, Accepts, Replies
<1>25. CASE GrblCycle
  BY <1>25 DEF GrblCycle
<1>26. CASE PlcStart
  BY <1>26 DEF PlcStart, Input, Plc, SetExecute, GetParserBusy
<1>27. CASE PlcStop
  BY <1>27 DEF PlcStop, Input, Plc, SetExecute, GetParserBusy
<1>28. CASE PlcHold
  BY <1>28 DEF PlcHold, Input, Plc
<1>29. CASE PlcResetError
  BY <1>29 DEF PlcResetError, Input, Plc
<1>30. CASE IocRuns
  BY <1>30 DEF IocRuns
<1>31. CASE LoadClear
  BY <1>31 DEF LoadClear
<1>32. CASE AddCommand
  BY <1>32 DEF AddCommand
<1>33. CASE UNCHANGED vars
  BY <1>33
<1> QED
  BY <1>1, <1>2, <1>3, <1>4, <1>5, <1>6, <1>7, <1>8, <1>9, <1>10, <1>11, <1>12, <1>13, <1>14,
     <1>15, <1>16, <1>17, <1>18, <1>19, <1>20, <1>21, <1>22, <1>23, <1>24, <1>25, <1>26, <1>27,
     <1>28, <1>29, <1>30, <1>31, <1>32, <1>33 DEF Next, Writer, Realtime, Grbl, Plcs

LEMMA NextTypeOK == TypeOK /\ CfgPending /\ [Next]_vars => TypeOK' /\ CfgPending'
BY NextCfgPending, NextPluginTypeOK, NextProgramTypeOK, NextThreadTypeOK, NextGrblTypeOK DEF TypeOK

(* Every variable of the plugin keeps its range: in particular the planner  *)
(* never holds more blocks than it has slots, and the writer never takes a  *)
(* line or a configuration command that is not there.                       *)
THEOREM TypeCorrect == Spec => []TypeOK
<1>1. Spec => [](TypeOK /\ CfgPending)
  BY InitTypeOK, NextTypeOK, PTL DEF Spec
<1> QED
  BY <1>1, PTL

-------------------------------------------------------------------------------
(* Nothing moves before the configuration is applied: until then the parser *)
(* is busy, so that no trigger is taken, and only configuration commands    *)
(* are on their way to grbl.  A refused configuration ends the writer with  *)
(* the parser busy for good.                                                *)

Unconfigured == pcW \in {"waitStart", "waitIoc", "config", "configReply"} \/ unrecoverable

ConfigInv ==
  /\ unrecoverable => pcW = "dead"
  /\ Unconfigured => /\ busy /\ ~exe /\ blocks = 0 /\ ~on
                     /\ \A i \in 1..Len(rx) : rx[i].kind \in {"set", "badset"}

LEMMA InitConfigInv == Init => ConfigInv
BY DEF Init, ConfigInv, Unconfigured

LEMMA NextConfigInv == TypeOK /\ ConfigInv /\ [Next]_vars => ConfigInv'
<1> SUFFICES ASSUME TypeOK, ConfigInv, [Next]_vars PROVE ConfigInv'
  OBVIOUS
<1> USE DEF vars, cmdVars, errVars, autoVars, ioVars, grblVars, waitVars, loadVars, histVars
<1> USE DEF ConfigInv, Unconfigured, TypeOK, PluginTypeOK, GrblTypeOK, ThreadTypeOK
<1>1. CASE WaitStart
  BY <1>1 DEF WaitStart, Goto, Reply, Replies
<1>2. CASE WaitIoc
  BY <1>2 DEF WaitIoc, Goto
<1>3. CASE WriteConfig
  BY <1>3 DEF WriteConfig, Goto
<1>4. CASE ConfigReply
  BY <1>4 DEF ConfigReply, Goto, Reply, Replies
<1>5. CASE ConfigDone
  BY <1>5 DEF ConfigDone, Goto
<1>6. CASE WriterAutoStart
  BY <1>6 DEF WriterAutoStart, Goto, SetExecute, GetParserBusy
<1>7. CASE WaitExecute
  BY <1>7 DEF WaitExecute, Goto
<1>8. CASE AutoEnablePoll
  BY <1>8 DEF AutoEnablePoll
<1>9. CASE SeeLine
  BY <1>9 DEF SeeLine, Goto
<1>10. CASE TakeLine
  BY <1>10 DEF TakeLine, Goto
<1>11. CASE SendLine
  BY <1>11 DEF SendLine, Goto
<1>12. CASE LineReply
  BY <1>12 DEF LineReply, Goto, Reply, Replies
<1>13. CASE StopAndReset
  BY <1>13 DEF StopAndReset, Goto
<1>14. CASE WriterEnds
  BY <1>14 DEF WriterEnds, Goto
<1>15. CASE ProgramDone
  BY <1>15 DEF ProgramDone, Goto
<1>16. CASE ClearExecute
  BY <1>16 DEF ClearExecute, Goto
<1>17. CASE ClearBusy
  BY <1>17 DEF ClearBusy, Goto
<1>18. CASE RtRead
  BY <1>18 DEF RtRead
<1>19. CASE RtStatus
  BY <1>19 DEF RtStatus, SetExecute, GetParserBusy, Reports
<1>20. CASE RtStop
  BY <1>20 DEF RtStop
<1>21. CASE GiveControl
  BY <1>21 DEF GiveControl
<1>22. CASE RtMotion
  BY <1>22 DEF RtMotion
<1>23. CASE GrblStart
  BY <1>23 DEF GrblStart, Replies
<1>24. CASE GrblLine
  <2>1. rx # <<>> /\ rx' = Tail(rx)
    BY <1>24, LineTaken
  <2>2. /\ 1 \in 1..Len(rx) /\ Head(rx) = rx[1]
        /\ \A i \in 1..Len(rx') : i + 1 \in 1..Len(rx) /\ rx'[i] = rx[i + 1]
    BY <2>1, TailElements
  <2>3. Unconfigured => Head(rx).kind # "motion"
    BY <2>2
  <2>4. UNCHANGED <<exe, busy, on, pcW, unrecoverable>> /\ (Unconfigured => blocks' = blocks)
    BY <1>24, <2>3, LineTaken
  <2>5. Unconfigured' => Unconfigured
    BY <2>4
  <2>6. ASSUME Unconfigured, NEW i \in 1..Len(rx') PROVE rx'[i].kind \in {"set", "badset"}
    <3>1. i + 1 \in 1..Len(rx) /\ rx'[i] = rx[i + 1]
      BY <2>2
    <3>2. \A j \in 1..Len(rx) : rx[j].kind \in {"set", "badset"}
      BY <2>6
    <3> QED
      BY <3>1, <3>2
  <2> QED
    BY <2>4, <2>5, <2>6
<1>25. CASE GrblCycle
  BY <1>25 DEF GrblCycle
<1>26. CASE PlcStart
  BY <1>26 DEF PlcStart, Input, Plc, SetExecute, GetParserBusy
<1>27. CASE PlcStop
  BY <1>27 DEF PlcStop, Input, Plc, SetExecute, GetParserBusy
<1>28. CASE PlcHold
  BY <1>28 DEF PlcHold, Input, Plc
<1>29. CASE PlcResetError
  BY <1>29 DEF PlcResetError, Input, Plc
<1>30. CASE IocRuns
  BY <1>30 DEF IocRuns
<1>31. CASE LoadClear
  BY <1>31 DEF LoadClear
<1>32. CASE AddCommand
  BY <1>32 DEF AddCommand
<1>33. CASE UNCHANGED vars
  BY <1>33
<1> QED
  BY <1>1, <1>2, <1>3, <1>4, <1>5, <1>6, <1>7, <1>8, <1>9, <1>10, <1>11, <1>12, <1>13, <1>14,
     <1>15, <1>16, <1>17, <1>18, <1>19, <1>20, <1>21, <1>22, <1>23, <1>24, <1>25, <1>26, <1>27,
     <1>28, <1>29, <1>30, <1>31, <1>32, <1>33 DEF Next, Writer, Realtime, Grbl, Plcs

(* Until the configuration is applied, and for ever if grbl refused it, the *)
(* machine is never moved and no program started, whatever the PLC calls    *)
(* and ecmc reports (applyConfigsSuccess, setExecute, grblRTexecute).       *)
THEOREM NothingBeforeConfig == Spec => []NothingUnconfigured
<1>1. TypeOK /\ ConfigInv => NothingUnconfigured
  BY DEF ConfigInv, Unconfigured, NothingUnconfigured
<1>2. Spec => []TypeOK
  BY TypeCorrect
<1>3. Spec => []ConfigInv
  BY <1>2, InitConfigInv, NextConfigInv, PTL DEF Spec
<1> QED
  BY <1>1, <1>2, <1>3, PTL

(* One more line at most: a line is only taken when executeCmd_ is seen set. *)
SendInv == late <= 1 /\ (pcW \in {"take", "send"} => late = 0)

LEMMA InitSendInv == Init => SendInv
BY DEF Init, SendInv

LEMMA NextSendInv == TypeOK /\ SendInv /\ [Next]_vars => SendInv'
<1> SUFFICES ASSUME TypeOK, SendInv, [Next]_vars PROVE SendInv'
  OBVIOUS
<1> USE DEF vars, cmdVars, errVars, autoVars, ioVars, grblVars, waitVars, loadVars, histVars
<1> USE DEF SendInv, TypeOK, GrblTypeOK, ThreadTypeOK
<1>1. CASE WaitStart
  BY <1>1 DEF WaitStart, Goto, Reply, Replies
<1>2. CASE WaitIoc
  BY <1>2 DEF WaitIoc, Goto
<1>3. CASE WriteConfig
  BY <1>3 DEF WriteConfig, Goto
<1>4. CASE ConfigReply
  BY <1>4 DEF ConfigReply, Goto, Reply, Replies
<1>5. CASE ConfigDone
  BY <1>5 DEF ConfigDone, Goto
<1>6. CASE WriterAutoStart
  BY <1>6 DEF WriterAutoStart, Goto, SetExecute, GetParserBusy
<1>7. CASE WaitExecute
  BY <1>7 DEF WaitExecute, Goto
<1>8. CASE AutoEnablePoll
  BY <1>8 DEF AutoEnablePoll
<1>9. CASE SeeLine
  BY <1>9 DEF SeeLine, Goto
<1>10. CASE TakeLine
  BY <1>10 DEF TakeLine, Goto
<1>11. CASE SendLine
  BY <1>11 DEF SendLine, Goto
<1>12. CASE LineReply
  BY <1>12 DEF LineReply, Goto, Reply, Replies
<1>13. CASE StopAndReset
  BY <1>13 DEF StopAndReset, Goto
<1>14. CASE WriterEnds
  BY <1>14 DEF WriterEnds, Goto
<1>15. CASE ProgramDone
  BY <1>15 DEF ProgramDone, Goto
<1>16. CASE ClearExecute
  BY <1>16 DEF ClearExecute, Goto
<1>17. CASE ClearBusy
  BY <1>17 DEF ClearBusy, Goto
<1>18. CASE RtRead
  BY <1>18 DEF RtRead
<1>19. CASE RtStatus
  BY <1>19 DEF RtStatus, SetExecute, GetParserBusy, Reports
<1>20. CASE RtStop
  BY <1>20 DEF RtStop
<1>21. CASE GiveControl
  BY <1>21 DEF GiveControl
<1>22. CASE RtMotion
  BY <1>22 DEF RtMotion
<1>23. CASE GrblStart
  BY <1>23 DEF GrblStart, Replies
<1>24. CASE GrblLine
  BY <1>24 DEF GrblLine, Accepts, Replies
<1>25. CASE GrblCycle
  BY <1>25 DEF GrblCycle
<1>26. CASE PlcStart
  BY <1>26 DEF PlcStart, Input, Plc, SetExecute, GetParserBusy
<1>27. CASE PlcStop
  BY <1>27 DEF PlcStop, Input, Plc, SetExecute, GetParserBusy
<1>28. CASE PlcHold
  BY <1>28 DEF PlcHold, Input, Plc
<1>29. CASE PlcResetError
  BY <1>29 DEF PlcResetError, Input, Plc
<1>30. CASE IocRuns
  BY <1>30 DEF IocRuns
<1>31. CASE LoadClear
  BY <1>31 DEF LoadClear
<1>32. CASE AddCommand
  BY <1>32 DEF AddCommand
<1>33. CASE UNCHANGED vars
  BY <1>33
<1> QED
  BY <1>1, <1>2, <1>3, <1>4, <1>5, <1>6, <1>7, <1>8, <1>9, <1>10, <1>11, <1>12, <1>13, <1>14,
     <1>15, <1>16, <1>17, <1>18, <1>19, <1>20, <1>21, <1>22, <1>23, <1>24, <1>25, <1>26, <1>27,
     <1>28, <1>29, <1>30, <1>31, <1>32, <1>33 DEF Next, Writer, Realtime, Grbl, Plcs

(* After executeCmd_ is cleared at most one more line is sent before it is   *)
(* set again, for any number of triggers and stops (WriteGCodeSuccess).     *)
THEOREM OneMoreLine == Spec => []StopsSending
<1>1. SendInv => StopsSending
  BY DEF SendInv, StopsSending
<1>2. Spec => []TypeOK
  BY TypeCorrect
<1>3. Spec => []SendInv
  BY <1>2, InitSendInv, NextSendInv, PTL DEF Spec
<1> QED
  BY <1>1, <1>3, PTL

-------------------------------------------------------------------------------
(* One line, one reply.  This needs programs without M2 and M30, which grbl *)
(* answers with a message as well (GrblLine).                               *)

NoProgramEnd == Programs \subseteq Seq(Kinds \ {"end"})

NoEndInv ==
  /\ program \in Seq(Kinds \ {"end"}) /\ loading \in Seq(Kinds \ {"end"})
  /\ line.kind # "end"
  /\ \A i \in 1..Len(rx) : rx[i].kind # "end"

(* The welcome message comes only when nothing else is under way and the    *)
(* writer waits for no reply to a line; an error is in a reply only if grbl *)
(* refused a line.                                                          *)
ReplyInv ==
  /\ OneOutstanding
  /\ reset => pcW \in {"waitStart", "failed", "dead"} /\ rx = <<>> /\ tx = <<>>
  /\ \A i \in 1..Len(tx) : tx[i] = "error" => refused
  /\ pcW \in {"configReply", "reply"} => \A i \in 1..Len(tx) : tx[i] \in {"ok", "error"}
  /\ CommandErrorMeansRefused

LEMMA NoEndLines == NoProgramEnd => "end" \notin Lines
BY DEF NoProgramEnd, Lines

LEMMA InitNoEndInv == NoProgramEnd /\ Init => NoEndInv
BY DEF Init, NoEndInv, NoProgramEnd, NoLine

LEMMA NextNoEndInv == NoProgramEnd /\ TypeOK /\ CfgPending /\ NoEndInv /\ [Next]_vars => NoEndInv'
<1> SUFFICES ASSUME NoProgramEnd, TypeOK, CfgPending, NoEndInv, [Next]_vars PROVE NoEndInv'
  OBVIOUS
<1> USE DEF vars, cmdVars, errVars, autoVars, ioVars, grblVars, waitVars, loadVars, histVars
<1> USE DEF NoEndInv, TypeOK, GrblTypeOK, ThreadTypeOK
<1>1. CASE WaitStart
  BY <1>1 DEF WaitStart, Goto, Reply, Replies
<1>2. CASE WaitIoc
  BY <1>2 DEF WaitIoc, Goto
<1>3. CASE WriteConfig
  <2>1. Head(cfg) \in {"set", "badset"}
    BY <1>3, HeadTail DEF WriteConfig
  <2>2. \A i \in 1..Len(rx') : rx'[i].kind # "end"
    BY <1>3, <2>1 DEF WriteConfig
  <2> QED
    BY <1>3, <2>2 DEF WriteConfig
<1>4. CASE ConfigReply
  BY <1>4 DEF ConfigReply, Goto, Reply, Replies
<1>5. CASE ConfigDone
  BY <1>5 DEF ConfigDone, Goto
<1>6. CASE WriterAutoStart
  BY <1>6 DEF WriterAutoStart, Goto, SetExecute, GetParserBusy
<1>7. CASE WaitExecute
  BY <1>7 DEF WaitExecute, Goto
<1>8. CASE AutoEnablePoll
  BY <1>8 DEF AutoEnablePoll
<1>9. CASE SeeLine
  BY <1>9 DEF SeeLine, Goto
<1>10. CASE TakeLine
  <2>1. PICK kind \in (IF idx < Len(program) THEN {program[idx + 1]} ELSE Lines) :
          line' = [kind |-> kind, number |-> idx + 1]
    BY <1>10, Zenon DEF TakeLine
  <2>2. idx < Len(program) => program[idx + 1] \in Kinds \ {"end"}
    BY DEF PluginTypeOK
  <2>3. kind # "end"
    BY <2>1, <2>2, NoEndLines
  <2> QED
    BY <1>10, <2>1, <2>3 DEF TakeLine
<1>11. CASE SendLine
  BY <1>11 DEF SendLine, Goto
<1>12. CASE LineReply
  BY <1>12 DEF LineReply, Goto, Reply, Replies
<1>13. CASE StopAndReset
  BY <1>13 DEF StopAndReset, Goto
<1>14. CASE WriterEnds
  BY <1>14 DEF WriterEnds, Goto
<1>15. CASE ProgramDone
  BY <1>15 DEF ProgramDone, Goto
<1>16. CASE ClearExecute
  BY <1>16 DEF ClearExecute, Goto
<1>17. CASE ClearBusy
  BY <1>17 DEF ClearBusy, Goto
<1>18. CASE RtRead
  BY <1>18 DEF RtRead
<1>19. CASE RtStatus
  BY <1>19 DEF RtStatus, SetExecute, GetParserBusy, Reports
<1>20. CASE RtStop
  BY <1>20 DEF RtStop
<1>21. CASE GiveControl
  BY <1>21 DEF GiveControl
<1>22. CASE RtMotion
  BY <1>22 DEF RtMotion
<1>23. CASE GrblStart
  BY <1>23 DEF GrblStart, Replies
<1>24. CASE GrblLine
  <2>1. rx # <<>> /\ rx' = Tail(rx)
    BY <1>24, LineTaken
  <2>2. \A i \in 1..Len(rx') : i + 1 \in 1..Len(rx) /\ rx'[i] = rx[i + 1]
    BY <2>1, TailElements
  <2> QED
    BY <1>24, <2>2, LineTaken
<1>25. CASE GrblCycle
  BY <1>25 DEF GrblCycle
<1>26. CASE PlcStart
  BY <1>26 DEF PlcStart, Input, Plc, SetExecute, GetParserBusy
<1>27. CASE PlcStop
  BY <1>27 DEF PlcStop, Input, Plc, SetExecute, GetParserBusy
<1>28. CASE PlcHold
  BY <1>28 DEF PlcHold, Input, Plc
<1>29. CASE PlcResetError
  BY <1>29 DEF PlcResetError, Input, Plc
<1>30. CASE IocRuns
  BY <1>30 DEF IocRuns
<1>31. CASE LoadClear
  BY <1>31 DEF LoadClear, NoProgramEnd
<1>32. CASE AddCommand
  BY <1>32 DEF AddCommand
<1>33. CASE UNCHANGED vars
  BY <1>33
<1> QED
  BY <1>1, <1>2, <1>3, <1>4, <1>5, <1>6, <1>7, <1>8, <1>9, <1>10, <1>11, <1>12, <1>13, <1>14,
     <1>15, <1>16, <1>17, <1>18, <1>19, <1>20, <1>21, <1>22, <1>23, <1>24, <1>25, <1>26, <1>27,
     <1>28, <1>29, <1>30, <1>31, <1>32, <1>33 DEF Next, Writer, Realtime, Grbl, Plcs

LEMMA InitReplyInv == Init => ReplyInv
BY DEF Init, ReplyInv, OneOutstanding, CommandErrorMeansRefused

LEMMA NextReplyInv == TypeOK /\ NoEndInv /\ ReplyInv /\ [Next]_vars => ReplyInv'
<1> SUFFICES ASSUME TypeOK, NoEndInv, ReplyInv, [Next]_vars PROVE ReplyInv'
  OBVIOUS
<1> USE DEF vars, cmdVars, errVars, autoVars, ioVars, grblVars, waitVars, loadVars, histVars
<1> USE DEF ReplyInv, OneOutstanding, CommandErrorMeansRefused, TypeOK, GrblTypeOK, ThreadTypeOK
<1>1. CASE WaitStart
  BY <1>1 DEF WaitStart, Goto, Reply, Replies
<1>2. CASE WaitIoc
  BY <1>2 DEF WaitIoc, Goto
<1>3. CASE WriteConfig
  BY <1>3 DEF WriteConfig, Goto
<1>4. CASE ConfigReply
  BY <1>4 DEF ConfigReply, Goto, Reply, Replies
<1>5. CASE ConfigDone
  BY <1>5 DEF ConfigDone, Goto
<1>6. CASE WriterAutoStart
  BY <1>6 DEF WriterAutoStart, Goto, SetExecute, GetParserBusy
<1>7. CASE WaitExecute
  BY <1>7 DEF WaitExecute, Goto
<1>8. CASE AutoEnablePoll
  BY <1>8 DEF AutoEnablePoll
<1>9. CASE SeeLine
  BY <1>9 DEF SeeLine, Goto
<1>10. CASE TakeLine
  BY <1>10 DEF TakeLine, Goto
<1>11. CASE SendLine
  BY <1>11 DEF SendLine, Goto
<1>12. CASE LineReply
  BY <1>12 DEF LineReply, Goto, Reply, Replies
<1>13. CASE StopAndReset
  BY <1>13 DEF StopAndReset, Goto
<1>14. CASE WriterEnds
  BY <1>14 DEF WriterEnds, Goto
<1>15. CASE ProgramDone
  BY <1>15 DEF ProgramDone, Goto
<1>16. CASE ClearExecute
  BY <1>16 DEF ClearExecute, Goto
<1>17. CASE ClearBusy
  BY <1>17 DEF ClearBusy, Goto
<1>18. CASE RtRead
  BY <1>18 DEF RtRead
<1>19. CASE RtStatus
  BY <1>19 DEF RtStatus, SetExecute, GetParserBusy, Reports
<1>20. CASE RtStop
  BY <1>20 DEF RtStop
<1>21. CASE GiveControl
  BY <1>21 DEF GiveControl
<1>22. CASE RtMotion
  BY <1>22 DEF RtMotion
<1>23. CASE GrblStart
  BY <1>23 DEF GrblStart, Replies
<1>24. CASE GrblLine
  <2>1. rx # <<>> /\ rx' = Tail(rx) /\ ~reset /\ reset' = reset /\ pcW' = pcW /\ error' = error
    BY <1>24 DEF GrblLine
  <2>2. Len(rx) = 1 /\ tx = <<>> /\ rx' = <<>>
    <3>1. Len(rx) \in Nat \ {0} /\ Len(Tail(rx)) = Len(rx) - 1
          /\ Tail(rx) \in Seq([kind : Kinds \cup {"none", "set", "badset"}, number : Nat])
      BY <2>1, HeadTail
    <3>2. Len(tx) \in Nat /\ Len(rx) + Len(tx) <= 1
      BY NoElements
    <3>3. Len(rx) = 1 /\ Len(tx) = 0 /\ Len(Tail(rx)) = 0
      BY <3>1, <3>2
    <3> QED
      BY <2>1, <3>1, <3>3, NoElements
  <2>3. Head(rx).kind # "end"
    BY <2>2 DEF NoEndInv
  <2>4. \/ tx' = <<"error">> /\ refused'
        \/ tx' = <<>> /\ refused' = refused
        \/ tx' = <<"ok">> /\ refused' = refused
    <3>1. PICK answer : /\ answer \in {<<"error">>, <<>>, <<"ok">>}
                        /\ answer = <<"error">> => refused'
                        /\ answer # <<"error">> => refused' = refused
                        /\ tx' = tx \o answer
      BY <1>24, <2>3 DEF GrblLine
    <3>2. tx' = answer
      BY <2>2, <3>1
    <3> QED
      BY <3>1, <3>2
  <2>5. Len(rx') + Len(tx') <= 1
    <3>1. Len(rx') = 0
      BY <2>2
    <3>2. CASE tx' = <<"error">>
      BY <3>1, <3>2
    <3>3. CASE tx' = <<>>
      BY <3>1, <3>3
    <3>4. CASE tx' = <<"ok">>
      BY <3>1, <3>4
    <3> QED
      BY <2>4, <3>2, <3>3, <3>4
  <2>6. pcW \in {"waitStart", "configReply", "reply", "failed", "dead"}
    BY <2>1
  <2>7. \A i \in 1..Len(tx') : tx'[i] \in {"ok", "error"} /\ (tx'[i] = "error" => refused')
    BY <2>4
  <2>8. CommandErrorMeansRefused'
    BY <2>1, <2>4
  <2> QED
    BY <2>1, <2>2, <2>5, <2>6, <2>7, <2>8
<1>25. CASE GrblCycle
  BY <1>25 DEF GrblCycle
<1>26. CASE PlcStart
  BY <1>26 DEF PlcStart, Input, Plc, SetExecute, GetParserBusy
<1>27. CASE PlcStop
  BY <1>27 DEF PlcStop, Input, Plc, SetExecute, GetParserBusy
<1>28. CASE PlcHold
  BY <1>28 DEF PlcHold, Input, Plc
<1>29. CASE PlcResetError
  BY <1>29 DEF PlcResetError, Input, Plc
<1>30. CASE IocRuns
  BY <1>30 DEF IocRuns
<1>31. CASE LoadClear
  BY <1>31 DEF LoadClear
<1>32. CASE AddCommand
  BY <1>32 DEF AddCommand
<1>33. CASE UNCHANGED vars
  BY <1>33
<1> QED
  BY <1>1, <1>2, <1>3, <1>4, <1>5, <1>6, <1>7, <1>8, <1>9, <1>10, <1>11, <1>12, <1>13, <1>14,
     <1>15, <1>16, <1>17, <1>18, <1>19, <1>20, <1>21, <1>22, <1>23, <1>24, <1>25, <1>26, <1>27,
     <1>28, <1>29, <1>30, <1>31, <1>32, <1>33 DEF Next, Writer, Realtime, Grbl, Plcs

LEMMA ReplyInvariance == ASSUME NoProgramEnd PROVE Spec => []ReplyInv
<1>1. Spec => [](TypeOK /\ CfgPending)
  BY InitTypeOK, NextTypeOK, PTL DEF Spec
<1>2. Init => NoEndInv
  BY InitNoEndInv
<1>3. TypeOK /\ CfgPending /\ NoEndInv /\ [Next]_vars => NoEndInv'
  BY NextNoEndInv
<1>4. Spec => []NoEndInv
  BY <1>1, <1>2, <1>3, PTL DEF Spec
<1> QED
  BY <1>1, <1>4, InitReplyInv, NextReplyInv, PTL DEF Spec

(* With programs without M2 and M30, line and reply stay paired whatever    *)
(* stops, triggers, faults, loads and resets come in between                *)
(* (grblReadReply, WriteGCodeSuccess).                                      *)
THEOREM OneLineOneReply == ASSUME NoProgramEnd PROVE Spec => []OneOutstanding
<1>1. ReplyInv => OneOutstanding
  BY DEF ReplyInv
<1> QED
  BY <1>1, ReplyInvariance, PTL

(* With programs without M2 and M30, the plugin reports a command error or  *)
(* a refused configuration only if grbl has refused a line.                 *)
THEOREM ErrorMeansRefused == ASSUME NoProgramEnd PROVE Spec => []CommandErrorMeansRefused
<1>1. ReplyInv => CommandErrorMeansRefused
  BY DEF ReplyInv
<1> QED
  BY <1>1, ReplyInvariance, PTL

-------------------------------------------------------------------------------
(* The order of the lines.  A trigger is refused while the parser is busy,  *)
(* so none comes while a program is sent -- unless a trigger has come       *)
(* between executeCmd_ = 0 and writerBusy_ = false at the end of the program *)
(* before: then the parser is free although its program is being sent, and  *)
(* one more trigger resets the index in the middle of it.                   *)

(* The writer has a program to send.                                        *)
Serving ==
  \/ pcW \in {"autoEnable", "gcode", "take", "send", "reply"}
  \/ pcW \in {"autoStart0", "autoStart1", "idle"} /\ exe

StartInv ==
  /\ Serving => busy \/ early
  /\ pcW = "clearBusy" /\ exe => early

(* What is under way between the writer and grbl: a line while the writer   *)
(* waits, or the answer to it.                                              *)
AnswerInv ==
  /\ rx # <<>> => Len(rx) = 1 /\ tx = <<>> /\ pcW \in {"configReply", "reply"}
  /\ reset => pcW \in {"waitStart", "failed", "dead"} /\ (pcW = "waitStart" => tx = <<>>)
  /\ pcW = "waitStart" => tx \in {<<>>, <<"start">>}
  /\ pcW = "configReply" => /\ tx \in {<<>>, <<"ok">>, <<"error">>}
                            /\ rx # <<>> => Head(rx).number = 0
  /\ pcW = "reply" => tx \in {<<>>, <<"ok">>, <<"error">>, <<"message", "ok">>}
  /\ pcW \notin {"waitStart", "configReply", "reply", "fail", "failed", "dead"} => tx = <<>>

(* In a run that was not started too early the index stands at the beginning *)
(* or behind the line that grbl took last; while a line is under way it has *)
(* the number behind the index.                                             *)
OrderInv ==
  ~early =>
    /\ Serving /\ pcW # "reply" => idx \in {0, ran}
    /\ pcW = "send" => line.number = idx + 1
    /\ pcW = "reply" /\ rx # <<>> => idx \in {0, ran} /\ Head(rx).number = idx + 1
    /\ pcW = "reply" /\ tx = <<"ok">> => ran = idx + 1

LEMMA InitOrder == Init => AnswerInv /\ StartInv /\ OrderInv
BY DEF Init, AnswerInv, StartInv, Serving, OrderInv

LEMMA NextAnswerInv == TypeOK /\ ConfigInv /\ AnswerInv /\ [Next]_vars => AnswerInv'
<1> SUFFICES ASSUME TypeOK, ConfigInv, AnswerInv, [Next]_vars PROVE AnswerInv'
  OBVIOUS
<1> USE DEF vars, cmdVars, errVars, autoVars, ioVars, grblVars, waitVars, loadVars, histVars
<1> USE DEF AnswerInv, TypeOK, GrblTypeOK, ThreadTypeOK
<1>1. CASE WaitStart
  BY <1>1 DEF WaitStart, Goto, Reply, Replies
<1>2. CASE WaitIoc
  BY <1>2 DEF WaitIoc, Goto
<1>3. CASE WriteConfig
  <2>1. pcW = "config" /\ pcW' = "configReply" /\ UNCHANGED <<tx, reset>>
        /\ rx' = Append(rx, [kind |-> Head(cfg), number |-> 0])
    BY <1>3 DEF WriteConfig, Goto
  <2>2. rx = <<>> /\ tx = <<>> /\ ~reset
    BY <2>1
  <2>3. rx' = <<[kind |-> Head(cfg), number |-> 0]>>
    BY <2>1, <2>2
  <2>4. Len(rx') = 1 /\ Head(rx').number = 0
    BY <2>3
  <2> QED
    BY <2>1, <2>2, <2>4
<1>4. CASE ConfigReply
  <2>1. pcW = "configReply" /\ pcW' \in {"config", "dead"} /\ UNCHANGED <<rx, reset>>
        /\ tx # <<>> /\ tx' = Tail(tx)
    BY <1>4 DEF ConfigReply, Goto, Reply
  <2>2. (tx = <<"ok">> \/ tx = <<"error">>) /\ rx = <<>>
    BY <2>1
  <2>3. tx' = <<>>
    <3>1. CASE tx = <<"ok">>
      BY <2>1, <3>1
    <3>2. CASE tx = <<"error">>
      BY <2>1, <3>2
    <3> QED
      BY <2>2, <3>1, <3>2
  <2> QED
    BY <2>1, <2>2, <2>3
<1>5. CASE ConfigDone
  BY <1>5 DEF ConfigDone, Goto
<1>6. CASE WriterAutoStart
  BY <1>6 DEF WriterAutoStart, Goto, SetExecute, GetParserBusy
<1>7. CASE WaitExecute
  BY <1>7 DEF WaitExecute, Goto
<1>8. CASE AutoEnablePoll
  BY <1>8 DEF AutoEnablePoll
<1>9. CASE SeeLine
  BY <1>9 DEF SeeLine, Goto
<1>10. CASE TakeLine
  BY <1>10 DEF TakeLine, Goto
<1>11. CASE SendLine
  BY <1>11 DEF SendLine, Goto
<1>12. CASE LineReply
  BY <1>12 DEF LineReply, Goto, Reply, Replies
<1>13. CASE StopAndReset
  BY <1>13 DEF StopAndReset, Goto
<1>14. CASE WriterEnds
  BY <1>14 DEF WriterEnds, Goto
<1>15. CASE ProgramDone
  BY <1>15 DEF ProgramDone, Goto
<1>16. CASE ClearExecute
  BY <1>16 DEF ClearExecute, Goto
<1>17. CASE ClearBusy
  BY <1>17 DEF ClearBusy, Goto
<1>18. CASE RtRead
  BY <1>18 DEF RtRead
<1>19. CASE RtStatus
  BY <1>19 DEF RtStatus, SetExecute, GetParserBusy, Reports
<1>20. CASE RtStop
  BY <1>20 DEF RtStop
<1>21. CASE GiveControl
  BY <1>21 DEF GiveControl
<1>22. CASE RtMotion
  BY <1>22 DEF RtMotion
<1>23. CASE GrblStart
  <2>1. reset /\ rx' = <<>> /\ tx' = Append(tx, "start") /\ ~reset' /\ pcW' = pcW
    BY <1>23 DEF GrblStart
  <2>2. CASE pcW = "waitStart"
    <3>1. tx' = <<"start">>
      BY <2>1, <2>2
    <3> QED
      BY <2>1, <2>2, <3>1
  <2>3. CASE pcW \in {"failed", "dead"}
    BY <2>1, <2>3
  <2> QED
    BY <2>1, <2>2, <2>3
<1>24. CASE GrblLine
  <2>1. rx # <<>> /\ rx' = Tail(rx) /\ ~reset /\ reset' = reset /\ pcW' = pcW
    BY <1>24 DEF GrblLine
  <2>2. Len(rx) = 1 /\ tx = <<>> /\ pcW \in {"configReply", "reply"}
    BY <2>1
  <2>3. rx' = <<>>
    <3>1. Len(Tail(rx)) = Len(rx) - 1
          /\ Tail(rx) \in Seq([kind : Kinds \cup {"none", "set", "badset"}, number : Nat])
      BY <2>1, HeadTail
    <3>2. Len(Tail(rx)) = 0
      BY <2>2, <3>1
    <3> QED
      BY <2>1, <3>1, <3>2, NoElements
  <2>4. PICK answer : /\ answer \in {<<>>, <<"ok">>, <<"error">>, <<"message", "ok">>}
                      /\ Head(rx).kind \in {"set", "badset"} => answer \in {<<"ok">>, <<"error">>}
                      /\ tx' = tx \o answer
    BY <1>24 DEF GrblLine
  <2>5. tx' = answer
    BY <2>2, <2>4
  <2>6. pcW = "configReply" => Head(rx).kind \in {"set", "badset"}
    BY <2>2 DEF ConfigInv, Unconfigured
  <2> QED
    BY <2>1, <2>2, <2>3, <2>4, <2>5, <2>6
<1>25. CASE GrblCycle
  BY <1>25 DEF GrblCycle
<1>26. CASE PlcStart
  BY <1>26 DEF PlcStart, Input, Plc, SetExecute, GetParserBusy
<1>27. CASE PlcStop
  BY <1>27 DEF PlcStop, Input, Plc, SetExecute, GetParserBusy
<1>28. CASE PlcHold
  BY <1>28 DEF PlcHold, Input, Plc
<1>29. CASE PlcResetError
  BY <1>29 DEF PlcResetError, Input, Plc
<1>30. CASE IocRuns
  BY <1>30 DEF IocRuns
<1>31. CASE LoadClear
  BY <1>31 DEF LoadClear
<1>32. CASE AddCommand
  BY <1>32 DEF AddCommand
<1>33. CASE UNCHANGED vars
  BY <1>33
<1> QED
  BY <1>1, <1>2, <1>3, <1>4, <1>5, <1>6, <1>7, <1>8, <1>9, <1>10, <1>11, <1>12, <1>13, <1>14,
     <1>15, <1>16, <1>17, <1>18, <1>19, <1>20, <1>21, <1>22, <1>23, <1>24, <1>25, <1>26, <1>27,
     <1>28, <1>29, <1>30, <1>31, <1>32, <1>33 DEF Next, Writer, Realtime, Grbl, Plcs

LEMMA NextStartInv == TypeOK /\ ConfigInv /\ StartInv /\ [Next]_vars => StartInv'
<1> SUFFICES ASSUME TypeOK, ConfigInv, StartInv, [Next]_vars PROVE StartInv'
  OBVIOUS
<1> USE DEF vars, cmdVars, errVars, autoVars, ioVars, grblVars, waitVars, loadVars, histVars
<1> USE DEF StartInv, Serving, TypeOK, PluginTypeOK, ProgramTypeOK
<1>1. CASE WaitStart
  BY <1>1 DEF WaitStart, Goto, Reply, Replies
<1>2. CASE WaitIoc
  BY <1>2 DEF WaitIoc, Goto
<1>3. CASE WriteConfig
  BY <1>3 DEF WriteConfig, Goto
<1>4. CASE ConfigReply
  BY <1>4 DEF ConfigReply, Goto, Reply, Replies
<1>5. CASE ConfigDone
  BY <1>5 DEF ConfigDone, Goto, ConfigInv, Unconfigured
<1>6. CASE WriterAutoStart
  BY <1>6 DEF WriterAutoStart, Goto, SetExecute, GetParserBusy
<1>7. CASE WaitExecute
  BY <1>7 DEF WaitExecute, Goto
<1>8. CASE AutoEnablePoll
  BY <1>8 DEF AutoEnablePoll
<1>9. CASE SeeLine
  BY <1>9 DEF SeeLine, Goto
<1>10. CASE TakeLine
  BY <1>10 DEF TakeLine, Goto
<1>11. CASE SendLine
  BY <1>11 DEF SendLine, Goto
<1>12. CASE LineReply
  BY <1>12 DEF LineReply, Goto, Reply, Replies
<1>13. CASE StopAndReset
  BY <1>13 DEF StopAndReset, Goto
<1>14. CASE WriterEnds
  BY <1>14 DEF WriterEnds, Goto
<1>15. CASE ProgramDone
  BY <1>15 DEF ProgramDone, Goto
<1>16. CASE ClearExecute
  BY <1>16 DEF ClearExecute, Goto
<1>17. CASE ClearBusy
  BY <1>17 DEF ClearBusy, Goto
<1>18. CASE RtRead
  BY <1>18 DEF RtRead
<1>19. CASE RtStatus
  BY <1>19 DEF RtStatus, SetExecute, GetParserBusy, Reports
<1>20. CASE RtStop
  BY <1>20 DEF RtStop
<1>21. CASE GiveControl
  BY <1>21 DEF GiveControl
<1>22. CASE RtMotion
  BY <1>22 DEF RtMotion
<1>23. CASE GrblStart
  BY <1>23 DEF GrblStart
<1>24. CASE GrblLine
  BY <1>24 DEF GrblLine, Accepts
<1>25. CASE GrblCycle
  BY <1>25 DEF GrblCycle
<1>26. CASE PlcStart
  BY <1>26, PluginAssumption DEF PlcStart, Input, Plc, SetExecute, GetParserBusy
<1>27. CASE PlcStop
  BY <1>27 DEF PlcStop, Input, Plc, SetExecute, GetParserBusy
<1>28. CASE PlcHold
  BY <1>28 DEF PlcHold, Input, Plc
<1>29. CASE PlcResetError
  BY <1>29 DEF PlcResetError, Input, Plc
<1>30. CASE IocRuns
  BY <1>30 DEF IocRuns
<1>31. CASE LoadClear
  BY <1>31 DEF LoadClear
<1>32. CASE AddCommand
  BY <1>32 DEF AddCommand
<1>33. CASE UNCHANGED vars
  BY <1>33
<1> QED
  BY <1>1, <1>2, <1>3, <1>4, <1>5, <1>6, <1>7, <1>8, <1>9, <1>10, <1>11, <1>12, <1>13, <1>14,
     <1>15, <1>16, <1>17, <1>18, <1>19, <1>20, <1>21, <1>22, <1>23, <1>24, <1>25, <1>26, <1>27,
     <1>28, <1>29, <1>30, <1>31, <1>32, <1>33 DEF Next, Writer, Realtime, Grbl, Plcs

LEMMA NextOrderInv == TypeOK /\ ConfigInv /\ AnswerInv /\ StartInv /\ OrderInv /\ [Next]_vars => OrderInv'
<1> SUFFICES ASSUME TypeOK, ConfigInv, AnswerInv, StartInv, OrderInv, [Next]_vars PROVE OrderInv'
  OBVIOUS
<1> USE DEF vars, cmdVars, errVars, autoVars, ioVars, grblVars, waitVars, loadVars, histVars
<1> USE DEF OrderInv, Serving, TypeOK, GrblTypeOK, ThreadTypeOK
<1>1. CASE WaitStart
  BY <1>1 DEF WaitStart, Goto, Reply, Replies
<1>2. CASE WaitIoc
  BY <1>2 DEF WaitIoc, Goto
<1>3. CASE WriteConfig
  BY <1>3 DEF WriteConfig, Goto
<1>4. CASE ConfigReply
  BY <1>4 DEF ConfigReply, Goto, Reply, Replies
<1>5. CASE ConfigDone
  BY <1>5 DEF ConfigDone, Goto, ConfigInv, Unconfigured
<1>6. CASE WriterAutoStart
  BY <1>6 DEF WriterAutoStart, Goto, SetExecute, GetParserBusy
<1>7. CASE WaitExecute
  BY <1>7 DEF WaitExecute, Goto
<1>8. CASE AutoEnablePoll
  BY <1>8 DEF AutoEnablePoll
<1>9. CASE SeeLine
  BY <1>9 DEF SeeLine, Goto
<1>10. CASE TakeLine
  BY <1>10 DEF TakeLine, Goto
<1>11. CASE SendLine
  <2>1. pcW = "send" /\ pcW' = "reply" /\ rx' = Append(rx, line)
        /\ UNCHANGED <<idx, line, tx, ran, early>>
    BY <1>11 DEF SendLine, Goto
  <2>2. rx = <<>> /\ tx = <<>>
    BY <2>1 DEF AnswerInv
  <2>3. Head(rx') = line
    BY <2>1, <2>2
  <2> QED
    BY <2>1, <2>2, <2>3
<1>12. CASE LineReply
  <2>1. pcW = "reply" /\ tx # <<>> /\ UNCHANGED <<line, rx, ran, early>>
    BY <1>12 DEF LineReply, Goto, Reply
  <2>2. \/ Head(tx) = "ok" /\ pcW' = "gcode" /\ idx' = idx + 1
        \/ pcW' = "fail"
    BY <1>12 DEF LineReply, Goto, Reply
  <2>3. Head(tx) = "ok" => tx = <<"ok">>
    BY <2>1 DEF AnswerInv
  <2> QED
    BY <2>1, <2>2, <2>3
<1>13. CASE StopAndReset
  BY <1>13 DEF StopAndReset, Goto
<1>14. CASE WriterEnds
  BY <1>14 DEF WriterEnds, Goto
<1>15. CASE ProgramDone
  BY <1>15 DEF ProgramDone, Goto
<1>16. CASE ClearExecute
  BY <1>16 DEF ClearExecute, Goto
<1>17. CASE ClearBusy
  BY <1>17 DEF ClearBusy, Goto, StartInv
<1>18. CASE RtRead
  BY <1>18 DEF RtRead
<1>19. CASE RtStatus
  <2>1. UNCHANGED <<pcW, line, rx, tx, ran>>
    BY <1>19 DEF RtStatus
  <2>2. \/ idx' = idx /\ exe' = exe
        \/ ~busy /\ idx' = 0 /\ (pcW = "clearBusy" => early')
    BY <1>19 DEF RtStatus, SetExecute, GetParserBusy
  <2>3. ~early' => ~early
    BY <1>19 DEF RtStatus
  <2> QED
    BY <2>1, <2>2, <2>3 DEF StartInv, Serving
<1>20. CASE RtStop
  BY <1>20 DEF RtStop
<1>21. CASE GiveControl
  BY <1>21 DEF GiveControl
<1>22. CASE RtMotion
  BY <1>22 DEF RtMotion
<1>23. CASE GrblStart
  <2>1. pcW \in {"waitStart", "failed", "dead"}
    BY <1>23 DEF GrblStart, AnswerInv
  <2> QED
    BY <1>23, <2>1 DEF GrblStart
<1>24. CASE GrblLine
  <2>1. /\ rx # <<>> /\ UNCHANGED <<pcW, idx, line, exe, early>> /\ rx' = Tail(rx)
        /\ ran' = IF Head(rx).number = 0 THEN ran ELSE Head(rx).number
    BY <1>24 DEF GrblLine
  <2>2. Len(rx) = 1 /\ pcW \in {"configReply", "reply"}
    BY <2>1 DEF AnswerInv
  <2>3. rx' = <<>>
    <3>1. Len(Tail(rx)) = Len(rx) - 1
          /\ Tail(rx) \in Seq([kind : Kinds \cup {"none", "set", "badset"}, number : Nat])
      BY <2>1, HeadTail
    <3>2. Len(Tail(rx)) = 0
      BY <2>2, <3>1
    <3> QED
      BY <2>1, <3>1, <3>2, NoElements
  <2>4. CASE pcW = "reply" /\ ~early
    <3>1. Head(rx).number = idx + 1 /\ idx \in Nat
      BY <2>1, <2>4 DEF PluginTypeOK
    <3>2. ran' = idx + 1
      BY <2>1, <3>1
    <3> QED
      BY <2>1, <2>3, <2>4, <3>2
  <2>5. CASE pcW = "configReply" \/ early
    BY <2>1, <2>3, <2>5
  <2> QED
    BY <2>2, <2>4, <2>5
<1>25. CASE GrblCycle
  BY <1>25 DEF GrblCycle
<1>26. CASE PlcStart
  <2>1. UNCHANGED <<pcW, line, rx, tx, ran>>
    BY <1>26 DEF PlcStart
  <2>2. \/ idx' = idx /\ exe' = exe
        \/ ~busy /\ idx' = 0 /\ (pcW = "clearBusy" => early')
    BY <1>26 DEF PlcStart, SetExecute, GetParserBusy
  <2>3. ~early' => ~early
    BY <1>26 DEF PlcStart
  <2> QED
    BY <2>1, <2>2, <2>3 DEF StartInv, Serving
<1>27. CASE PlcStop
  BY <1>27 DEF PlcStop, Input, Plc, SetExecute, GetParserBusy
<1>28. CASE PlcHold
  BY <1>28 DEF PlcHold, Input, Plc
<1>29. CASE PlcResetError
  BY <1>29 DEF PlcResetError, Input, Plc
<1>30. CASE IocRuns
  BY <1>30 DEF IocRuns
<1>31. CASE LoadClear
  BY <1>31 DEF LoadClear
<1>32. CASE AddCommand
  BY <1>32 DEF AddCommand
<1>33. CASE UNCHANGED vars
  BY <1>33
<1> QED
  BY <1>1, <1>2, <1>3, <1>4, <1>5, <1>6, <1>7, <1>8, <1>9, <1>10, <1>11, <1>12, <1>13, <1>14,
     <1>15, <1>16, <1>17, <1>18, <1>19, <1>20, <1>21, <1>22, <1>23, <1>24, <1>25, <1>26, <1>27,
     <1>28, <1>29, <1>30, <1>31, <1>32, <1>33 DEF Next, Writer, Realtime, Grbl, Plcs

(* grbl gets the lines of every run in their order, each once and from the  *)
(* first, for every program and any number of triggers, stops, faults and   *)
(* loads, unless the run was started between executeCmd_ = 0 and            *)
(* writerBusy_ = false at the end of the one before (doWriteWorker,         *)
(* setExecute).                                                             *)
THEOREM LinesKeepOrder == Spec => LinesInOrder
<1>1. Spec => []TypeOK
  BY TypeCorrect
<1>2. Spec => []ConfigInv
  BY <1>1, InitConfigInv, NextConfigInv, PTL DEF Spec
<1>3. Spec => []AnswerInv
  BY <1>1, <1>2, InitOrder, NextAnswerInv, PTL DEF Spec
<1>4. Spec => []StartInv
  BY <1>1, <1>2, InitOrder, NextStartInv, PTL DEF Spec
<1>5. Spec => []OrderInv
  BY <1>1, <1>2, <1>3, <1>4, InitOrder, NextOrderInv, PTL DEF Spec
<1>6. ASSUME TypeOK, AnswerInv, OrderInv, [Next]_vars
      PROVE  [GrblLine /\ Head(rx).number > 0 => Head(rx).number \in {1, ran + 1} \/ early]_vars
  <2> SUFFICES ASSUME GrblLine, Head(rx).number > 0, ~early PROVE Head(rx).number \in {1, ran + 1}
    BY Zenon
  <2>1. rx # <<>>
    BY DEF GrblLine
  <2>2. pcW = "reply"
    BY <1>6, <2>1 DEF AnswerInv
  <2>3. idx \in {0, ran} /\ Head(rx).number = idx + 1
    BY <1>6, <2>1, <2>2 DEF OrderInv
  <2> QED
    BY <2>3
<1> QED
  BY <1>1, <1>3, <1>5, <1>6, PTL DEF Spec, LinesInOrder
===============================================================================
