---------------------------- MODULE MCGrblRealtime ----------------------------
(* Model of GrblRealtime for TLC.                                           *)
EXTENDS GrblRealtime

Motion == {"motion"}
AllKinds == {"motion", "sync", "pause", "bad"}

MainSplit == {"main"}
AllSplit == {"main", "rt", "writer"}
===============================================================================
