------------------------------ MODULE MCEcmcGrbl ------------------------------
(* Model of EcmcGrbl for TLC.                                               *)
EXTENDS EcmcGrbl

Good    == {<<"motion", "plain", "motion">>}
Failing == {<<"motion", "bad">>, <<"plain", "plain", "short">>, <<"open">>}
Two     == {<<"motion", "motion">>}
Ended   == {<<"motion", "end">>}

Configured == {<<"set">>}
AnyConfig  == {<<"set">>, <<"set", "badset">>}
===============================================================================
