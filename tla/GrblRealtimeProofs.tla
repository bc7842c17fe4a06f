--------------------------- MODULE GrblRealtimeProofs ---------------------------
(***************************************************************************)
(* Proofs about the realtime command executor.                             *)
(***************************************************************************)
EXTENDS GrblRealtime, TLAPS

-------------------------------------------------------------------------------
(* Types.                                                                   *)

(* An update of the flag word, in one step or in two, sets flags only and   *)
(* leaves the thread with nothing loaded.                                   *)
LEMMA UpdateTypes ==
  ASSUME TypeOK, NEW t \in Threads, NEW mask \in SUBSET Flags,
         SetFlags(t, mask) \/ ClearFlags(t, mask)
  PROVE  /\ flags' \subseteq Flags /\ loaded' \in [Threads -> {NoLoad} \cup SUBSET Flags]
         /\ lost' \subseteq Flags /\ back' \subseteq Flags
<1>1. /\ flags \subseteq Flags /\ loaded \in [Threads -> {NoLoad} \cup SUBSET Flags]
      /\ lost \subseteq Flags /\ back \subseteq Flags
  BY DEF TypeOK, ThreadsTypeOK
<1>2. CASE t \in SplitThreads
  <2>1. /\ loaded[t] # NoLoad
        /\ flags' = loaded[t] \cup mask \/ flags' = loaded[t] \ mask
        /\ loaded' = [loaded EXCEPT ![t] = NoLoad]
        /\ lost' \subseteq lost \cup flags /\ back' \subseteq back \cup Flags
    BY <1>2 DEF SetFlags, ClearFlags, Stale, Flags
  <2> QED
    BY <1>1, <2>1
<1>3. CASE t \notin SplitThreads
  BY <1>1, <1>3 DEF SetFlags, ClearFlags
<1> QED
  BY <1>2, <1>3

(* Filling the segment ring takes blocks that are there and no more room    *)
(* than there is.                                                           *)
LEMMA PrepTypes ==
  ASSUME TypeOK, PrepBuffer \/ UNCHANGED <<blocks, segs, endMotion>>
  PROVE  blocks' \in 0..BlockSlots /\ segs' \in 0..SegmentSlots /\ endMotion' \in BOOLEAN
<1>1. /\ blocks \in 0..BlockSlots /\ segs \in 0..SegmentSlots /\ endMotion \in BOOLEAN
      /\ BlockSlots \in Nat /\ SegmentSlots \in Nat
  BY RealtimeAssumption DEF TypeOK, SwitchesTypeOK, ThreadsTypeOK
<1>2. CASE PrepBuffer /\ ~endMotion
  <2>1. PICK discarded \in 0..blocks, cut \in 0..SegmentSlots :
           /\ segs + cut <= SegmentSlots
           /\ blocks' = blocks - discarded /\ segs' = segs + cut
           /\ endMotion' = endMotion \/ endMotion' = TRUE
    BY <1>2, Zenon DEF PrepBuffer
  <2>2. endMotion' \in BOOLEAN
    BY <1>1, <2>1, Zenon
  <2> QED
    BY <1>1, <2>1, <2>2
<1>3. CASE UNCHANGED <<blocks, segs, endMotion>>
  BY <1>1, <1>3
<1> QED
  BY <1>2, <1>3 DEF PrepBuffer

LEMMA InitTypeOK == Init => TypeOK
<1> SUFFICES ASSUME Init PROVE TypeOK
  OBVIOUS
<1>1. SwitchesTypeOK
  BY DEF Init, SwitchesTypeOK
<1>2. ThreadsTypeOK
  BY RealtimeAssumption DEF Init, ThreadsTypeOK
<1> QED
  BY <1>1, <1>2 DEF TypeOK

LEMMA NextTypeOK == TypeOK /\ [Next]_vars => TypeOK'
<1> SUFFICES ASSUME TypeOK, [Next]_vars PROVE SwitchesTypeOK' /\ ThreadsTypeOK'
  BY DEF TypeOK
<1> USE DEF vars, machineVars, motionVars, mainVars, hostVars, histVars
<1>0. SwitchesTypeOK /\ ThreadsTypeOK
  BY DEF TypeOK
<1> USE <1>0, RealtimeAssumption DEF SwitchesTypeOK, ThreadsTypeOK, Threads, Flags
<1>1. CASE NoLine
  BY <1>1 DEF NoLine, Enter
<1>2. CASE AutoCycleStart
  <2>1. /\ flags' \subseteq Flags /\ loaded' \in [Threads -> {NoLoad} \cup SUBSET Flags]
        /\ lost' \subseteq Flags /\ back' \subseteq Flags
    BY <1>2, UpdateTypes DEF AutoCycleStart
  <2> QED
    BY <1>2, <2>1 DEF AutoCycleStart
<1>3. CASE ProgramPause
  <2>1. /\ flags' \subseteq Flags /\ loaded' \in [Threads -> {NoLoad} \cup SUBSET Flags]
        /\ lost' \subseteq Flags /\ back' \subseteq Flags
    BY <1>3, UpdateTypes DEF ProgramPause
  <2> QED
    BY <1>3, <2>1 DEF ProgramPause, Enter
<1>4. CASE Suspended
  BY <1>4 DEF Suspended
<1>5. CASE MainLoop
  BY <1>5 DEF MainLoop, Enter, ReturnedTo
<1>6. CASE ParseLine
  BY <1>6 DEF ParseLine, Enter, ReturnedTo
<1>7. CASE McLine
  BY <1>7 DEF McLine, Enter, ReturnedTo
<1>8. CASE Synchronize
  BY <1>8 DEF Synchronize, Enter, ReturnedTo
<1>9. CASE ClearSystem
  <2>1. SwitchesTypeOK'
    BY <1>9, Zenon DEF ClearSystem
  <2>2. ThreadsTypeOK'
    BY <1>9 DEF ClearSystem
  <2> QED
    BY <2>1, <2>2
<1>10. CASE ClearMotion
  <2>1. SwitchesTypeOK'
    BY <1>10, Zenon DEF ClearMotion
  <2>2. ThreadsTypeOK'
    BY <1>10 DEF ClearMotion
  <2> QED
    BY <2>1, <2>2
<1>11. CASE Boot
  <2>1. SwitchesTypeOK'
    BY <1>11, Zenon DEF Boot, Enter
  <2>2. ThreadsTypeOK'
    BY <1>11 DEF Boot, Enter
  <2> QED
    BY <2>1, <2>2
<1>12. CASE ExecAlarm
  <2>1. SwitchesTypeOK'
    BY <1>12, Zenon DEF ExecAlarm
  <2>2. ThreadsTypeOK'
    BY <1>12 DEF ExecAlarm
  <2> QED
    BY <2>1, <2>2
<1>13. CASE ExecSnapshot
  <2>1. SwitchesTypeOK'
    BY <1>13, Zenon DEF ExecSnapshot
  <2>2. pc' \in {"return", "hold", "start", "stop", "prep"} /\ snap' \subseteq Flags
    BY <1>13 DEF ExecSnapshot, FromHold, FromStart, FromStop
  <2>3. ThreadsTypeOK'
    BY <1>13, <2>2 DEF ExecSnapshot
  <2> QED
    BY <2>1, <2>3
<1>14. CASE ExecHold
  <2>1. SwitchesTypeOK'
    BY <1>14, Zenon DEF ExecHold
  <2>2. ThreadsTypeOK'
    BY <1>14 DEF ExecHold
  <2> QED
    BY <2>1, <2>2
<1>15. CASE ExecStart
  <2>1. SwitchesTypeOK'
    BY <1>15, Zenon DEF ExecStart
  <2>2. ThreadsTypeOK'
    BY <1>15 DEF ExecStart
  <2> QED
    BY <2>1, <2>2
<1>16. CASE ExecWake
  <2>1. blocks' \in 0..BlockSlots /\ segs' \in 0..SegmentSlots /\ endMotion' \in BOOLEAN
    BY <1>16, PrepTypes DEF ExecWake
  <2>2. SwitchesTypeOK'
    BY <1>16, <2>1, Zenon DEF ExecWake
  <2>3. ThreadsTypeOK'
    BY <1>16, <2>1 DEF ExecWake
  <2> QED
    BY <2>2, <2>3
<1>17. CASE ExecStop
  <2>1. SwitchesTypeOK'
    BY <1>17, Zenon DEF ExecStop
  <2>2. ThreadsTypeOK'
    BY <1>17 DEF ExecStop
  <2> QED
    BY <2>1, <2>2
<1>18. CASE ExecClear
  <2>1. /\ flags' \subseteq Flags /\ loaded' \in [Threads -> {NoLoad} \cup SUBSET Flags]
        /\ lost' \subseteq Flags /\ back' \subseteq Flags
    BY <1>18, UpdateTypes DEF ExecClear
  <2>2. SwitchesTypeOK'
    BY <1>18, <2>1, Zenon DEF ExecClear
  <2>3. ThreadsTypeOK'
    BY <1>18, <2>1 DEF ExecClear, FromStart, FromStop
  <2> QED
    BY <2>2, <2>3
<1>19. CASE ExecPrep
  <2>1. blocks' \in 0..BlockSlots /\ segs' \in 0..SegmentSlots /\ endMotion' \in BOOLEAN
    BY <1>19, PrepTypes DEF ExecPrep
  <2> QED
    BY <1>19, <2>1 DEF ExecPrep
<1>20. CASE IsrSegment
  BY <1>20 DEF IsrSegment
<1>21. CASE IsrEmpty
  <2>1. SwitchesTypeOK'
    BY <1>21, Zenon DEF IsrEmpty
  <2>2. ThreadsTypeOK'
    BY <1>21 DEF IsrEmpty
  <2> QED
    BY <2>1, <2>2
<1>22. CASE RtSetFlag
  <2>1. /\ flags' \subseteq Flags /\ loaded' \in [Threads -> {NoLoad} \cup SUBSET Flags]
        /\ lost' \subseteq Flags /\ back' \subseteq Flags
    BY <1>22, UpdateTypes DEF RtSetFlag
  <2>2. SwitchesTypeOK'
    BY <1>22, <2>1, Zenon DEF RtSetFlag
  <2>3. ThreadsTypeOK'
    BY <1>22, <2>1 DEF RtSetFlag
  <2> QED
    BY <2>2, <2>3
<1>23. CASE SetReset
  <2>1. SwitchesTypeOK'
    BY <1>23, Zenon DEF SetReset
  <2>2. ThreadsTypeOK'
    BY <1>23 DEF SetReset
  <2> QED
    BY <2>1, <2>2
<1>24. CASE McResetFlag
  <2>1. /\ flags' \subseteq Flags /\ loaded' \in [Threads -> {NoLoad} \cup SUBSET Flags]
        /\ lost' \subseteq Flags /\ back' \subseteq Flags
    BY <1>24, UpdateTypes DEF McResetFlag
  <2> QED
    BY <1>24, <2>1 DEF McResetFlag
<1>25. CASE McResetTest
  <2>1. SwitchesTypeOK'
    BY <1>25, Zenon DEF McResetTest
  <2>2. ThreadsTypeOK'
    BY <1>25 DEF McResetTest
  <2> QED
    BY <2>1, <2>2
<1>26. CASE McResetKill
  <2>1. SwitchesTypeOK'
    BY <1>26, Zenon DEF McResetKill
  <2>2. ThreadsTypeOK'
    BY <1>26 DEF McResetKill
  <2> QED
    BY <2>1, <2>2
<1>27. CASE EndWriter
  <2>1. SwitchesTypeOK'
    BY <1>27, Zenon DEF EndWriter
  <2>2. ThreadsTypeOK'
    BY <1>27 DEF EndWriter
  <2> QED
    BY <2>1, <2>2
<1>28. CASE \E kind \in LineKinds : ReadLine(kind)
  BY <1>28 DEF ReadLine, Enter
<1>29. CASE PlcCall
  BY <1>29 DEF PlcCall
<1>30. CASE \E t \in Threads : LoadFlags(t)
  BY <1>30 DEF LoadFlags
<1>31. CASE UNCHANGED vars
  BY <1>31
<1> QED
  BY <1>1, <1>2, <1>3, <1>4, <1>5, <1>6, <1>7, <1>8, <1>9, <1>10, <1>11, <1>12, <1>13, <1>14, <1>15, <1>16, <1>17, <1>18, <1>19, <1>20, <1>21, <1>22, <1>23, <1>24, <1>25, <1>26, <1>27, <1>28, <1>29, <1>30, <1>31 DEF Next, Main, Executor, Realtime, Writer

(* Every variable keeps its range, however the updates of the flag word are *)
(* split: in particular no thread stores a word that it has not loaded, and *)
(* neither the planner nor the segment ring is ever overfull.               *)
THEOREM TypeCorrect == Spec => []TypeOK
BY InitTypeOK, NextTypeOK, PTL DEF Spec

-------------------------------------------------------------------------------
(* The flag word.                                                           *)

(* What a store of the flag word, of this moment or loaded earlier, does to *)
(* it: a flag that is gone was cleared or is lost, and a cycle flag that    *)
(* appears was set or has come back.                                        *)
LEMMA SetEffect ==
  ASSUME TypeOK, NEW t \in Threads, NEW mask \in SUBSET Flags, SetFlags(t, mask)
  PROVE  /\ \A f \in Flags : f \in mask => f \in flags'
         /\ \A f \in Flags : f \in flags => f \in flags' \/ f \in lost'
         /\ \A f \in {"CYCLE_START", "CYCLE_STOP"} :
              f \in flags' => f \in flags \/ f \in mask \/ f \in back'
         /\ "RESET" \in flags' => "RESET" \in flags \/ "RESET" \in loaded[t] \/ "RESET" \in mask
         /\ "RESET" \in lost' => "RESET" \in lost \/ "RESET" \in flags
         /\ "RESET" \in lost => "RESET" \in lost' \/ "RESET" \in mask
         /\ back \subseteq back'
         /\ \A u \in Threads : loaded'[u] = loaded[u] \/ loaded'[u] = NoLoad
<1>1. /\ flags \subseteq Flags /\ loaded \in [Threads -> {NoLoad} \cup SUBSET Flags]
      /\ lost \subseteq Flags /\ back \subseteq Flags
  BY DEF TypeOK, ThreadsTypeOK
<1>2. CASE t \in SplitThreads
  BY <1>1, <1>2 DEF SetFlags, Stale, Flags, NoLoad
<1>3. CASE t \notin SplitThreads
  BY <1>1, <1>3 DEF SetFlags, Flags
<1> QED
  BY <1>2, <1>3

LEMMA ClearEffect ==
  ASSUME TypeOK, NEW t \in Threads, NEW mask \in SUBSET Flags, ClearFlags(t, mask)
  PROVE  /\ \A f \in Flags : f \in mask => f \notin flags'
         /\ \A f \in Flags : f \in flags => f \in flags' \/ f \in lost' \/ f \in mask
         /\ \A f \in {"CYCLE_START", "CYCLE_STOP"} : f \in flags' => f \in flags \/ f \in back'
         /\ "RESET" \in flags' => "RESET" \in flags \/ "RESET" \in loaded[t]
         /\ "RESET" \in lost' => "RESET" \in lost \/ "RESET" \in flags
         /\ "RESET" \in lost => "RESET" \in lost' \/ "RESET" \in mask
         /\ back \subseteq back'
         /\ \A u \in Threads : loaded'[u] = loaded[u] \/ loaded'[u] = NoLoad
<1>1. /\ flags \subseteq Flags /\ loaded \in [Threads -> {NoLoad} \cup SUBSET Flags]
      /\ lost \subseteq Flags /\ back \subseteq Flags
  BY DEF TypeOK, ThreadsTypeOK
<1>2. CASE t \in SplitThreads
  BY <1>1, <1>2 DEF ClearFlags, Stale, Flags, NoLoad
<1>3. CASE t \notin SplitThreads
  BY <1>1, <1>3 DEF ClearFlags, Flags
<1> QED
  BY <1>2, <1>3

-------------------------------------------------------------------------------
(* The reset.                                                               *)

(* The writer has not set RESET yet; it does so once and then ends.         *)
Fresh == pcW \in {"idle", "error", "reset"}

InPass == {"hold", "holdClear", "start", "wake", "startClear", "stop", "stopClear", "prep"}

(* No word holds RESET.                                                     *)
Clean ==
  /\ "RESET" \notin flags /\ "RESET" \notin lost
  /\ \A t \in Threads : "RESET" \notin loaded[t]

(* Only the writer's store of RESET puts it there.                          *)
LEMMA StaysClean ==
  ASSUME TypeOK, NEW t \in Threads, NEW mask \in SUBSET (Flags \ {"RESET"}),
         SetFlags(t, mask) \/ ClearFlags(t, mask), Clean
  PROVE  Clean'
<1>1. mask \in SUBSET Flags
  OBVIOUS
<1>2. CASE SetFlags(t, mask)
  BY <1>1, <1>2, SetEffect DEF Clean, NoLoad
<1>3. CASE ClearFlags(t, mask)
  BY <1>1, <1>3, ClearEffect DEF Clean, NoLoad
<1> QED
  BY <1>2, <1>3

(* Before the writer sets RESET no word holds it and nothing is aborted; a  *)
(* line is being parsed only while the writer waits for its reply.          *)
ResetInv ==
  /\ Fresh => /\ Clean
              /\ ~abort /\ ~alarm /\ state # "ALARM"
              /\ pc \notin {"reinit", "plan_reset", "boot"}
  /\ pcW # "idle" => caller = "idle"
  /\ abort => pc \in {"return", "reinit"}
  /\ pc = "reinit" => abort
  /\ pc = "pause" => pcW = "idle"

(* A handler runs only if its flag was in the copy.                         *)
Copied ==
  /\ pc \in {"hold", "holdClear"} => "FEED_HOLD" \in snap
  /\ pc \in {"start", "wake", "startClear"} => "CYCLE_START" \in snap
  /\ pc \in {"stop", "stopClear"} => "CYCLE_STOP" \in snap

LEMMA NextCopied == Copied /\ [Next]_vars => Copied'
<1> SUFFICES ASSUME Copied, [Next]_vars PROVE Copied'
  OBVIOUS
<1> USE DEF vars, machineVars, motionVars, mainVars, hostVars, histVars, Copied
<1>1. CASE NoLine
  BY <1>1 DEF NoLine, Enter
<1>2. CASE AutoCycleStart
  BY <1>2 DEF AutoCycleStart
<1>3. CASE ProgramPause
  BY <1>3 DEF ProgramPause, Enter
<1>4. CASE Suspended
  BY <1>4 DEF Suspended
<1>5. CASE MainLoop
  BY <1>5 DEF MainLoop, Enter, ReturnedTo
<1>6. CASE ParseLine
  BY <1>6 DEF ParseLine, Enter, ReturnedTo
<1>7. CASE McLine
  BY <1>7 DEF McLine, Enter, ReturnedTo
<1>8. CASE Synchronize
  BY <1>8 DEF Synchronize, Enter, ReturnedTo
<1>9. CASE ClearSystem
  BY <1>9 DEF ClearSystem
<1>10. CASE ClearMotion
  BY <1>10 DEF ClearMotion
<1>11. CASE Boot
  BY <1>11 DEF Boot, Enter
<1>12. CASE ExecAlarm
  BY <1>12 DEF ExecAlarm
<1>13. CASE ExecSnapshot
  BY <1>13 DEF ExecSnapshot, FromHold, FromStart, FromStop
<1>14. CASE ExecHold
  BY <1>14 DEF ExecHold
<1>15. CASE ExecStart
  BY <1>15 DEF ExecStart
<1>16. CASE ExecWake
  BY <1>16 DEF ExecWake, PrepBuffer
<1>17. CASE ExecStop
  BY <1>17 DEF ExecStop
<1>18. CASE ExecClear
  BY <1>18 DEF ExecClear, FromStart, FromStop
<1>19. CASE ExecPrep
  BY <1>19 DEF ExecPrep, PrepBuffer
<1>20. CASE IsrSegment
  BY <1>20 DEF IsrSegment
<1>21. CASE IsrEmpty
  BY <1>21 DEF IsrEmpty
<1>22. CASE RtSetFlag
  BY <1>22 DEF RtSetFlag
<1>23. CASE SetReset
  BY <1>23 DEF SetReset
<1>24. CASE McResetFlag
  BY <1>24 DEF McResetFlag
<1>25. CASE McResetTest
  BY <1>25 DEF McResetTest
<1>26. CASE McResetKill
  BY <1>26 DEF McResetKill
<1>27. CASE EndWriter
  BY <1>27 DEF EndWriter
<1>28. CASE PlcCall
  BY <1>28 DEF PlcCall
<1>29. CASE \E kind \in LineKinds : ReadLine(kind)
  BY <1>29 DEF ReadLine, Enter
<1>30. CASE \E t \in Threads : LoadFlags(t)
  BY <1>30 DEF LoadFlags
<1>31. CASE UNCHANGED vars
  BY <1>31
<1> QED
  BY <1>1, <1>2, <1>3, <1>4, <1>5, <1>6, <1>7, <1>8, <1>9, <1>10, <1>11, <1>12, <1>13, <1>14,
     <1>15, <1>16, <1>17, <1>18, <1>19, <1>20, <1>21, <1>22, <1>23, <1>24, <1>25, <1>26, <1>27,
     <1>28, <1>29, <1>30, <1>31
  DEF Next, Main, Executor, Realtime, Writer

LEMMA InitResetInv == Init => ResetInv
BY DEF Init, ResetInv, Fresh, Clean, NoLoad, Threads

LEMMA NextResetInv == TypeOK /\ ResetInv /\ [Next]_vars => ResetInv'
<1> SUFFICES ASSUME TypeOK, ResetInv, [Next]_vars PROVE ResetInv'
  OBVIOUS
<1> USE DEF vars, machineVars, motionVars, mainVars, hostVars, histVars
<1> USE RealtimeAssumption DEF ResetInv, Fresh
<1>1. CASE NoLine
  BY <1>1 DEF NoLine, Enter, Clean
<1>2. CASE AutoCycleStart
  <2>1. Clean => Clean'
    <3>1. CASE blocks > 0
      BY <1>2, <3>1, StaysClean DEF AutoCycleStart, Threads, Flags
    <3>2. CASE ~(blocks > 0)
      BY <1>2, <3>2 DEF AutoCycleStart, Clean
    <3> QED
      BY <3>1, <3>2
  <2> QED
    BY <1>2, <2>1 DEF AutoCycleStart
<1>3. CASE ProgramPause
  <2>1. Clean => Clean'
    BY <1>3, StaysClean DEF ProgramPause, Threads, Flags
  <2> QED
    BY <1>3, <2>1 DEF ProgramPause, Enter
<1>4. CASE Suspended
  BY <1>4 DEF Suspended, Clean
<1>5. CASE MainLoop
  BY <1>5 DEF MainLoop, Enter, ReturnedTo, Clean
<1>6. CASE ParseLine
  BY <1>6 DEF ParseLine, Enter, ReturnedTo, Clean
<1>7. CASE McLine
  BY <1>7 DEF McLine, Enter, ReturnedTo, Clean
<1>8. CASE Synchronize
  BY <1>8 DEF Synchronize, Enter, ReturnedTo, Clean
<1>9. CASE ClearSystem
  BY <1>9 DEF ClearSystem, Clean
<1>10. CASE ClearMotion
  BY <1>10 DEF ClearMotion, Clean
<1>11. CASE Boot
  BY <1>11 DEF Boot, Enter, Clean
<1>12. CASE ExecAlarm
  BY <1>12 DEF ExecAlarm, Clean
<1>13. CASE ExecSnapshot
  BY <1>13 DEF ExecSnapshot, FromHold, FromStart, FromStop, Clean
<1>14. CASE ExecHold
  BY <1>14 DEF ExecHold, Clean
<1>15. CASE ExecStart
  BY <1>15 DEF ExecStart, Clean
<1>16. CASE ExecWake
  BY <1>16 DEF ExecWake, PrepBuffer, Clean
<1>17. CASE ExecStop
  BY <1>17 DEF ExecStop, Clean
<1>18. CASE ExecClear
  <2>1. Clean => Clean'
    BY <1>18, StaysClean DEF ExecClear, Threads, Flags
  <2> QED
    BY <1>18, <2>1 DEF ExecClear, FromStart, FromStop
<1>19. CASE ExecPrep
  BY <1>19 DEF ExecPrep, PrepBuffer, Clean
<1>20. CASE IsrSegment
  BY <1>20 DEF IsrSegment, Clean
<1>21. CASE IsrEmpty
  BY <1>21 DEF IsrEmpty, Clean
<1>22. CASE RtSetFlag
  <2>1. Clean => Clean'
    BY <1>22, StaysClean DEF RtSetFlag, Threads, Flags
  <2> QED
    BY <1>22, <2>1 DEF RtSetFlag
<1>23. CASE SetReset
  BY <1>23 DEF SetReset, Clean
<1>24. CASE McResetFlag
  BY <1>24 DEF McResetFlag
<1>25. CASE McResetTest
  BY <1>25 DEF McResetTest, Clean
<1>26. CASE McResetKill
  BY <1>26 DEF McResetKill, Clean
<1>27. CASE EndWriter
  BY <1>27 DEF EndWriter, Clean
<1>28. CASE PlcCall
  BY <1>28 DEF PlcCall, Clean
<1>29. CASE \E kind \in LineKinds : ReadLine(kind)
  BY <1>29 DEF ReadLine, Enter, Clean
<1>30. CASE \E t \in Threads : LoadFlags(t)
  <2>1. PICK t \in Threads : LoadFlags(t)
    BY <1>30
  <2>2. loaded' = [loaded EXCEPT ![t] = flags] /\ UNCHANGED <<flags, lost>>
    BY <2>1 DEF LoadFlags
  <2>3. Clean => Clean'
    BY <2>2 DEF Clean, TypeOK, ThreadsTypeOK
  <2> QED
    BY <2>1, <2>3 DEF LoadFlags
<1>31. CASE UNCHANGED vars
  BY <1>31 DEF Clean
<1> QED
  BY <1>1, <1>2, <1>3, <1>4, <1>5, <1>6, <1>7, <1>8, <1>9, <1>10, <1>11, <1>12, <1>13, <1>14,
     <1>15, <1>16, <1>17, <1>18, <1>19, <1>20, <1>21, <1>22, <1>23, <1>24, <1>25, <1>26, <1>27,
     <1>28, <1>29, <1>30, <1>31
  DEF Next, Main, Executor, Realtime, Writer

LEMMA ResetInvariance == Spec => [](TypeOK /\ ResetInv /\ Copied)
<1>1. Init => Copied
  BY DEF Init, Copied
<1> QED
  BY <1>1, NextCopied, InitTypeOK, NextTypeOK, InitResetInv, NextResetInv, PTL DEF Spec

-------------------------------------------------------------------------------
(* The interrupt.                                                           *)

Running == state = "CYCLE" \/ (state = "HOLD" /\ holding)

(* Until the reset is taken every wake-up of the interrupt is followed by   *)
(* one cycle stop: the interrupt is on, or has gone idle and is about to    *)
(* flag it, or the flag waits in the word or in the copy, never two of      *)
(* these; and all that time the state says that the machine moves.  With    *)
(* the reset pending the executor finishes its pass and bails out of the    *)
(* next one.                                                                *)
Counted ==
  /\ ~Fresh => "RESET" \in flags
  /\ pc \notin {"plan_reset", "boot"}
  /\ "RESET" \in flags /\ state = "ALARM" =>
       pc \in {"snapshot", "reinit"} \/ (pc = "return" /\ abort)
  /\ on => (Running \/ state = "ALARM") /\ pc # "wake"
  /\ pc = "wake" => state = "CYCLE"
  /\ pcR = "stop" => ~on /\ (Running \/ state = "ALARM") /\ pc # "wake"
  /\ pcR = "stop" /\ Fresh => "CYCLE_STOP" \notin flags
  /\ Fresh /\ "CYCLE_STOP" \in flags => ~on /\ (pc # "stopClear" => Running /\ pc # "wake")
  /\ "CYCLE_STOP" \in snap /\ pc \in InPass \ {"stopClear", "prep"} =>
        ~on /\ pcR # "stop" /\ Running /\ pc # "wake"
  /\ holdComplete => ~holding /\ state # "CYCLE" /\ ~on /\ pc # "wake"
  /\ holding => state \notin {"IDLE", "CYCLE"}

(* Once the main thread has cleared the planner and the stepper nothing is  *)
(* queued any more: the writer has ended and no line comes.                 *)
Cleared == ~Fresh /\ ~on /\ blocks = 0 /\ pc # "wake"

(* A stale store that takes out the reset or brings back a cycle stop ends  *)
(* the counting until the system variables are cleared.                     *)
StopInv ==
  \/ "RESET" \in lost \/ "CYCLE_STOP" \in back
  \/ pc = "plan_reset" /\ ~holdComplete
  \/ Cleared
  \/ Counted

LEMMA InitStopInv == Init => StopInv
BY DEF Init, StopInv, Counted, Fresh, Running, InPass

LEMMA NextStopInv == TypeOK /\ ResetInv /\ Copied /\ StopInv /\ [Next]_vars => StopInv'
<1> SUFFICES ASSUME TypeOK, ResetInv, Copied, StopInv, [Next]_vars PROVE StopInv'
  OBVIOUS
<1> USE DEF vars, machineVars, motionVars, mainVars, hostVars, histVars
<1> USE RealtimeAssumption DEF ResetInv, StopInv, Cleared, Counted, Running, InPass, Fresh, Clean,
     Copied
<1>1. CASE NoLine
  BY <1>1 DEF NoLine, Enter
<1>2. CASE AutoCycleStart
  <2>1. /\ "RESET" \in flags => "RESET" \in flags' \/ "RESET" \in lost'
        /\ "CYCLE_STOP" \in flags' => "CYCLE_STOP" \in flags \/ "CYCLE_STOP" \in back'
        /\ "RESET" \in lost => "RESET" \in lost'
        /\ "CYCLE_STOP" \in back => "CYCLE_STOP" \in back'
    <3>1. CASE blocks > 0
      BY <1>2, <3>1, SetEffect DEF AutoCycleStart, Threads, Flags
    <3>2. CASE ~(blocks > 0)
      BY <1>2, <3>2 DEF AutoCycleStart
    <3> QED
      BY <3>1, <3>2
  <2> QED
    BY <1>2, <2>1 DEF AutoCycleStart
<1>3. CASE ProgramPause
  <2>1. /\ "RESET" \in flags => "RESET" \in flags' \/ "RESET" \in lost'
        /\ "CYCLE_STOP" \in flags' => "CYCLE_STOP" \in flags \/ "CYCLE_STOP" \in back'
        /\ "RESET" \in lost => "RESET" \in lost'
        /\ "CYCLE_STOP" \in back => "CYCLE_STOP" \in back'
    BY <1>3, SetEffect DEF ProgramPause, Threads, Flags
  <2> QED
    BY <1>3, <2>1 DEF ProgramPause, Enter
<1>4. CASE Suspended
  BY <1>4 DEF Suspended
<1>5. CASE MainLoop
  BY <1>5 DEF MainLoop, Enter, ReturnedTo
<1>6. CASE ParseLine
  BY <1>6 DEF ParseLine, Enter, ReturnedTo
<1>7. CASE McLine
  BY <1>7 DEF McLine, Enter, ReturnedTo
<1>8. CASE Synchronize
  BY <1>8 DEF Synchronize, Enter, ReturnedTo
<1>9. CASE ClearSystem
  BY <1>9 DEF ClearSystem
<1>10. CASE ClearMotion
  BY <1>10 DEF ClearMotion
<1>11. CASE Boot
  BY <1>11 DEF Boot, Enter
<1>12. CASE ExecAlarm
  BY <1>12 DEF ExecAlarm
<1>13. CASE ExecSnapshot
  BY <1>13 DEF ExecSnapshot, FromHold, FromStart, FromStop
<1>14. CASE ExecHold
  BY <1>14 DEF ExecHold
<1>15. CASE ExecStart
  BY <1>15 DEF ExecStart
<1>16. CASE ExecWake
  BY <1>16 DEF ExecWake, PrepBuffer
<1>17. CASE ExecStop
  BY <1>17 DEF ExecStop
<1>18. CASE ExecClear
  <2>1. /\ "RESET" \in flags => "RESET" \in flags' \/ "RESET" \in lost'
        /\ "CYCLE_STOP" \in flags' => "CYCLE_STOP" \in flags \/ "CYCLE_STOP" \in back'
        /\ "RESET" \in lost => "RESET" \in lost'
        /\ "CYCLE_STOP" \in back => "CYCLE_STOP" \in back'
    BY <1>18, ClearEffect DEF ExecClear, Threads, Flags
  <2>2. pc = "stopClear" => "CYCLE_STOP" \notin flags'
    BY <1>18, ClearEffect DEF ExecClear, Threads, Flags
  <2> QED
    BY <1>18, <2>1, <2>2 DEF ExecClear, FromStart, FromStop
<1>19. CASE ExecPrep
  BY <1>19 DEF ExecPrep, PrepBuffer
<1>20. CASE IsrSegment
  BY <1>20 DEF IsrSegment
<1>21. CASE IsrEmpty
  BY <1>21 DEF IsrEmpty
<1>22. CASE RtSetFlag
  <2>1. /\ "RESET" \in flags => "RESET" \in flags' \/ "RESET" \in lost'
        /\ "CYCLE_STOP" \in flags' => pcR = "stop" \/ "CYCLE_STOP" \in flags \/ "CYCLE_STOP" \in back'
        /\ "RESET" \in lost => "RESET" \in lost'
        /\ "CYCLE_STOP" \in back => "CYCLE_STOP" \in back'
    BY <1>22, SetEffect DEF RtSetFlag, Threads, Flags
  <2> QED
    BY <1>22, <2>1 DEF RtSetFlag
<1>23. CASE SetReset
  BY <1>23 DEF SetReset
<1>24. CASE McResetFlag
  <2>1. /\ "RESET" \in flags'
        /\ "CYCLE_STOP" \in back => "CYCLE_STOP" \in back'
    BY <1>24, SetEffect DEF McResetFlag, Threads, Flags
  <2> QED
    BY <1>24, <2>1 DEF McResetFlag
<1>25. CASE McResetTest
  BY <1>25 DEF McResetTest
<1>26. CASE McResetKill
  BY <1>26 DEF McResetKill
<1>27. CASE EndWriter
  BY <1>27 DEF EndWriter
<1>28. CASE PlcCall
  BY <1>28 DEF PlcCall
<1>29. CASE \E kind \in LineKinds : ReadLine(kind)
  BY <1>29 DEF ReadLine, Enter
<1>30. CASE \E t \in Threads : LoadFlags(t)
  BY <1>30 DEF LoadFlags
<1>31. CASE UNCHANGED vars
  BY <1>31
<1> QED
  BY <1>1, <1>2, <1>3, <1>4, <1>5, <1>6, <1>7, <1>8, <1>9, <1>10, <1>11, <1>12, <1>13, <1>14,
     <1>15, <1>16, <1>17, <1>18, <1>19, <1>20, <1>21, <1>22, <1>23, <1>24, <1>25, <1>26, <1>27,
     <1>28, <1>29, <1>30, <1>31
  DEF Next, Main, Executor, Realtime, Writer

(* A reported hold, and IDLE seen by the main loop, mean that the interrupt *)
(* is off, and so does ALARM once the reset that led to it is through: for  *)
(* every interleaving of the three threads and their loads and stores of    *)
(* the flag word, unless one of them takes out the reset or brings back a   *)
(* cycle stop (protocol_exec_rt_system, st_go_idle, mc_reset).              *)
THEOREM StoppedIsOff == Spec => []StoppedMeansOff
<1>1. ResetInv /\ StopInv => StoppedMeansOff
  BY DEF ResetInv, StopInv, StoppedMeansOff, Cleared, Counted, Fresh, Clean, Running
<1>2. TypeOK /\ ResetInv /\ Copied /\ StopInv /\ [Next]_vars => StopInv'
  BY NextStopInv
<1> QED
  BY <1>1, <1>2, ResetInvariance, InitStopInv, PTL DEF Spec

-------------------------------------------------------------------------------
(* Who asked for the cycle start.                                           *)

(* A cycle start in the flag word that nobody asked for was set by the main *)
(* thread ...                                                               *)
Unasked == "CYCLE_START" \in flags /\ ~asked /\ ~abort

(* ... when no hold was complete, and is consumed by the pass of the        *)
(* executor that follows immediately.                                       *)
OwnStart ==
  \/ pc \in {"alarm", "snapshot"} /\ ~holdComplete
  \/ pc \in {"hold", "holdClear", "start", "wake", "startClear"} /\ "CYCLE_START" \in snap

AskInv ==
  /\ pc \in {"loop", "auto", "pause", "plan_reset", "boot"} => ~holdComplete
  /\ Unasked => OwnStart \/ "CYCLE_START" \in back
  /\ "CYCLE_START" \in snap /\ ~asked /\ pc \in {"hold", "holdClear", "start"} =>
       ~holdComplete \/ "FEED_HOLD" \in snap \/ "CYCLE_START" \in back

LEMMA InitAskInv == Init => AskInv
BY DEF Init, AskInv, Unasked, OwnStart

LEMMA NextAskInv == TypeOK /\ ResetInv /\ Copied /\ AskInv /\ [Next]_vars => AskInv'
<1> SUFFICES ASSUME TypeOK, ResetInv, Copied, AskInv, [Next]_vars PROVE AskInv'
  OBVIOUS
<1> USE DEF vars, machineVars, motionVars, mainVars, hostVars, histVars
<1> USE RealtimeAssumption DEF AskInv, Unasked, OwnStart, ResetInv, Fresh, Copied
<1>1. CASE NoLine
  BY <1>1 DEF NoLine, Enter
<1>2. CASE AutoCycleStart
  <2>1. "CYCLE_START" \in back => "CYCLE_START" \in back'
    <3>1. CASE blocks > 0
      BY <1>2, <3>1, SetEffect DEF AutoCycleStart, Threads, Flags
    <3>2. CASE ~(blocks > 0)
      BY <1>2, <3>2 DEF AutoCycleStart
    <3> QED
      BY <3>1, <3>2
  <2> QED
    BY <1>2, <2>1 DEF AutoCycleStart
<1>3. CASE ProgramPause
  <2>1. /\ "CYCLE_START" \in flags' => "CYCLE_START" \in flags \/ "CYCLE_START" \in back'
        /\ "CYCLE_START" \in back => "CYCLE_START" \in back'
    BY <1>3, SetEffect DEF ProgramPause, Threads, Flags
  <2> QED
    BY <1>3, <2>1 DEF ProgramPause, Enter
<1>4. CASE Suspended
  BY <1>4 DEF Suspended
<1>5. CASE MainLoop
  BY <1>5 DEF MainLoop, Enter, ReturnedTo
<1>6. CASE ParseLine
  BY <1>6 DEF ParseLine, Enter, ReturnedTo
<1>7. CASE McLine
  BY <1>7 DEF McLine, Enter, ReturnedTo
<1>8. CASE Synchronize
  BY <1>8 DEF Synchronize, Enter, ReturnedTo
<1>9. CASE ClearSystem
  BY <1>9 DEF ClearSystem
<1>10. CASE ClearMotion
  BY <1>10 DEF ClearMotion
<1>11. CASE Boot
  BY <1>11 DEF Boot, Enter
<1>12. CASE ExecAlarm
  BY <1>12 DEF ExecAlarm
<1>13. CASE ExecSnapshot
  BY <1>13 DEF ExecSnapshot, FromHold, FromStart, FromStop
<1>14. CASE ExecHold
  BY <1>14 DEF ExecHold
<1>15. CASE ExecStart
  BY <1>15 DEF ExecStart
<1>16. CASE ExecWake
  BY <1>16 DEF ExecWake, PrepBuffer
<1>17. CASE ExecStop
  BY <1>17 DEF ExecStop
<1>18. CASE ExecClear
  <2>1. /\ "CYCLE_START" \in flags' => "CYCLE_START" \in flags \/ "CYCLE_START" \in back'
        /\ "CYCLE_START" \in back => "CYCLE_START" \in back'
    BY <1>18, ClearEffect DEF ExecClear, Threads, Flags
  <2>2. pc = "startClear" => "CYCLE_START" \notin flags'
    BY <1>18, ClearEffect DEF ExecClear, Threads, Flags
  <2> QED
    BY <1>18, <2>1, <2>2 DEF ExecClear, FromStart, FromStop
<1>19. CASE ExecPrep
  BY <1>19 DEF ExecPrep, PrepBuffer
<1>20. CASE IsrSegment
  BY <1>20 DEF IsrSegment
<1>21. CASE IsrEmpty
  BY <1>21 DEF IsrEmpty
<1>22. CASE RtSetFlag
  <2>1. /\ "CYCLE_START" \in flags' => pcR = "resume" \/ "CYCLE_START" \in flags \/ "CYCLE_START" \in back'
        /\ "CYCLE_START" \in back => "CYCLE_START" \in back'
    BY <1>22, SetEffect DEF RtSetFlag, Threads, Flags
  <2> QED
    BY <1>22, <2>1 DEF RtSetFlag
<1>23. CASE SetReset
  BY <1>23 DEF SetReset
<1>24. CASE McResetFlag
  <2>1. /\ "CYCLE_START" \in flags' => "CYCLE_START" \in flags \/ "CYCLE_START" \in back'
        /\ "CYCLE_START" \in back => "CYCLE_START" \in back'
    BY <1>24, SetEffect DEF McResetFlag, Threads, Flags
  <2> QED
    BY <1>24, <2>1 DEF McResetFlag
<1>25. CASE McResetTest
  BY <1>25 DEF McResetTest
<1>26. CASE McResetKill
  BY <1>26 DEF McResetKill
<1>27. CASE EndWriter
  BY <1>27 DEF EndWriter
<1>28. CASE PlcCall
  BY <1>28 DEF PlcCall
<1>29. CASE \E kind \in LineKinds : ReadLine(kind)
  BY <1>29 DEF ReadLine, Enter
<1>30. CASE \E t \in Threads : LoadFlags(t)
  BY <1>30 DEF LoadFlags
<1>31. CASE UNCHANGED vars
  BY <1>31
<1> QED
  BY <1>1, <1>2, <1>3, <1>4, <1>5, <1>6, <1>7, <1>8, <1>9, <1>10, <1>11, <1>12, <1>13, <1>14,
     <1>15, <1>16, <1>17, <1>18, <1>19, <1>20, <1>21, <1>22, <1>23, <1>24, <1>25, <1>26, <1>27,
     <1>28, <1>29, <1>30, <1>31
  DEF Next, Main, Executor, Realtime, Writer

(* A hold goes back to CYCLE only on a cycle start that grbl_mc_resume      *)
(* asked for, never on the auto-start of queued blocks, as the comment in   *)
(* protocol_exec_rt_system wants: for every interleaving of the threads'    *)
(* loads and stores of the flag word, the one exception being a cycle start *)
(* that was obeyed before and that a stale store has brought back.          *)
THEOREM HoldIsKept == Spec => HoldNeedsUser
<1>1. Copied /\ AskInv /\ [Next]_vars =>
        [state = "HOLD" /\ state' = "CYCLE" => asked \/ "CYCLE_START" \in back]_vars
  <2> SUFFICES ASSUME Copied, AskInv, Next, state = "HOLD", state' = "CYCLE"
               PROVE  asked \/ "CYCLE_START" \in back
    OBVIOUS
  <2> USE DEF vars, machineVars, motionVars, mainVars, hostVars, histVars
  <2>1. ExecStart
    BY DEF Next, Main, Executor, Realtime, Writer, NoLine, AutoCycleStart, ProgramPause,
           Suspended, MainLoop, ParseLine, McLine, Synchronize, ClearSystem, ClearMotion,
           Boot, ExecAlarm, ExecSnapshot, ExecHold, ExecWake, ExecStop, ExecClear,
           ExecPrep, IsrSegment, IsrEmpty, RtSetFlag, SetReset, McResetFlag, McResetTest,
           McResetKill, EndWriter, PlcCall, ReadLine, LoadFlags
  <2>2. state = "HOLD" /\ pc = "start" /\ holdComplete /\ "FEED_HOLD" \notin snap
    BY <2>1 DEF ExecStart
  <2> QED
    BY <2>2 DEF AskInv, Copied
<1>2. TypeOK /\ ResetInv /\ Copied /\ AskInv /\ [Next]_vars => AskInv'
  BY NextAskInv
<1> QED
  BY <1>1, <1>2, ResetInvariance, InitAskInv, PTL DEF Spec, HoldNeedsUser
===============================================================================
