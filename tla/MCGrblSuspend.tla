--------------------------- MODULE MCGrblSuspend ---------------------------
(* Model of GrblSuspend for TLC.                                            *)
EXTENDS GrblSuspend

AllRequests == {"FeedHold", "CycleStart", "SafetyDoor", "Stop", "CoarseMinus", "FineMinus", "Abort"}
=============================================================================
