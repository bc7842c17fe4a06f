---------------------------- MODULE MCGrblStepper ----------------------------
(* Model of GrblStepper for TLC.                                            *)
EXTENDS GrblStepper
===============================================================================
