------------------------------ MODULE StepStream ------------------------------
(***************************************************************************)
(* What the stepper subsystem promises the planner: the blocks handed to   *)
(* it are stepped out in the order they were queued, and each block gets   *)
(* exactly the number of step events it was planned with -- whatever feed  *)
(* holds, resumes and re-plans happen on the way.                          *)
(***************************************************************************)
EXTENDS Naturals, Sequences

CONSTANT MaxSteps

VARIABLES
  planned, (* step events of every block queued so far, oldest first      *)
  id,      (* block whose steps are being sent to the motors, 0 for none  *)
  done     (* step events of that block already sent                      *)

vars == <<planned, id, done>>

Init ==
  /\ planned = <<>>
  /\ id = 0
  /\ done = 0

Queue ==
  /\ \E n \in 1..MaxSteps : planned' = Append(planned, n)
  /\ UNCHANGED <<id, done>>

(* Another step of the current block.                                      *)
StepSame ==
  /\ id > 0
  /\ done < planned[id]
  /\ done' = done + 1
  /\ UNCHANGED <<planned, id>>

(* The first step of the next block, only when the current one is complete. *)
StepNext ==
  /\ id < Len(planned)
  /\ id > 0 => done = planned[id]
  /\ id' = id + 1
  /\ done' = 1
  /\ UNCHANGED planned

Next == Queue \/ StepSame \/ StepNext

Spec == Init /\ [][Next]_vars
===============================================================================
