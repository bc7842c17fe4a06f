----------------------------- MODULE MCSerialLink -----------------------------
(* Model of SerialLink for TLC.                                             *)
EXTENDS SerialLink

(* All short lines of code and comments, one of each other kind, lines with  *)
(* realtime commands, one that is longer than the receive ring.              *)
Texts == BoundedSeq({"a", "(", ")", ";"}, 4) \cup
  {<<"0">>, <<"$", "a">>, <<"8", "blank", "a">>, <<"a", "a", "a", "a", "a">>,
   <<"hold", "a", "a">>, <<"a", "query", "a">>, <<"a", "hold", "a", "query">>}

OneOrTwo == {<<1>>, <<1, 3>>}

Whole == {Append(cs, "eol") : cs \in Texts}
===============================================================================
